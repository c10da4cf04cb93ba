--------------------------- MODULE Listener_proofs ---------------------------
(***************************************************************************)
(* Proofs about Listener, for any goroutines, markets, events and failures.*)
(*                                                                         *)
(* ListenerInv says what the rest of a goroutine's program may rely on.    *)
(* The head of the program is a part in progress: before it stores it has  *)
(* locked what it stores under, and what it has asked for since is as new  *)
(* as what it replaces (Fits).  The parts after it are whole (Whole).  No  *)
(* program does certain instructions in certain orders (Never), which is   *)
(* shown of each program once and for all, by concatenation.               *)
(*                                                                         *)
(* HandlersInv says how far a handler has come with its event (Progress),  *)
(* and CoverInv what has become of the last event of every market: it is   *)
(* in the tables, it was lost, or somebody will still handle it - a        *)
(* handler or initialSync, which waits for its list of markets, then for   *)
(* the rounds of its loop.                                                 *)
(***************************************************************************)
EXTENDS Listener, InMemoryLocker_proofs, SequenceTheorems, FiniteSetTheorems

-----------------------------------------------------------------------------
(* Instructions, parts and programs. *)

Instruction ==
    [do: {"lock", "unlock"}, on: LockKeys]
        \union [do: {"history", "intervals", "buys", "book"}, on: Market]
        \union [do: {"list", "dates", "firsts", "rows", "map"}, on: {Main}]

In(part) == {part[n]: n \in DOMAIN part}

Lock(k) == Do("lock", k)
Unlock(k) == Do("unlock", k)

\* No part does a before b.
Never(a, b) ==
    \/ a.do \notin {"lock", "unlock"} /\ b = Lock(LockMarketsKey)
    \/ a = Unlock(LockMarketsKey)
    \/ a.do = "map" /\ b.do = "list"
    \/ a.do \in {"buys", "book"} /\ b = Lock(GetOrderLockKey(a.on))
    \/ b.do = "book" /\ a = Unlock(GetOrderLockKey(b.on))
    \/ a.do \in {"buys", "book"} /\ b.do = "buys"
    \/ a.do \in {"firsts", "rows"} /\ b.do \in {"list", "dates", "firsts"}
    \/ a.do \in {"rows", "book", "map"} /\ b.do \in {"rows", "book", "map"}
    \/ a.do = "intervals" /\ b.do = "history"

Ordered(part) == \A i, j \in DOMAIN part: i < j => ~Never(part[i], part[j])

Parts == {part \in Seq(Instruction): part # <<>> /\ Ordered(part)}

LEMMA TailOfPart ==
    ASSUME NEW part \in Parts
    PROVE  /\ Head(part) = part[1] /\ Head(part) \in Instruction
           /\ In(part) = {Head(part)} \union In(Tail(part))
           /\ \A b \in In(Tail(part)): ~Never(Head(part), b)
           /\ Len(part) = 1 => Tail(part) = <<>> /\ In(part) = {Head(part)}
           /\ Len(part) # 1 => Tail(part) \in Parts
<1>1. /\ part \in Seq(Instruction) /\ part # <<>> /\ Ordered(part)
      /\ Tail(part) \in Seq(Instruction) /\ Head(part) = part[1]
      /\ Len(part) \in Nat \ {0} /\ Len(Tail(part)) = Len(part) - 1
      /\ DOMAIN part = 1..Len(part) /\ DOMAIN Tail(part) = 1..(Len(part) - 1)
      /\ \A n \in DOMAIN Tail(part): Tail(part)[n] = part[n + 1]
    BY HeadTailProperties, LenProperties, EmptySeq DEF Parts
<1>2. In(part) = {Head(part)} \union In(Tail(part))
    <2>1. \A n \in DOMAIN part: n = 1 \/ (n - 1 \in DOMAIN Tail(part) /\ Tail(part)[n - 1] = part[n])
        BY <1>1
    <2>2. In(part) \subseteq {Head(part)} \union In(Tail(part))
        BY <1>1, <2>1 DEF In
    <2>3. \A n \in DOMAIN Tail(part): n + 1 \in DOMAIN part /\ Tail(part)[n] = part[n + 1]
        BY <1>1
    <2>4. {Head(part)} \union In(Tail(part)) \subseteq In(part)
        BY <1>1, <2>3 DEF In
    <2>5. QED
        BY <2>2, <2>4
<1>3. \A b \in In(Tail(part)): ~Never(Head(part), b)
    <2>1. ASSUME NEW n \in DOMAIN Tail(part)
          PROVE  ~Never(part[1], Tail(part)[n])
        <3>1. 1 \in DOMAIN part /\ n + 1 \in DOMAIN part /\ 1 < n + 1
            BY <1>1
        <3>2. QED
            BY <1>1, <3>1 DEF Ordered
    <2>2. QED
        BY <1>1, <2>1 DEF In
<1>4. Ordered(Tail(part))
    <2>1. ASSUME NEW i \in DOMAIN Tail(part), NEW j \in DOMAIN Tail(part), i < j
          PROVE  ~Never(Tail(part)[i], Tail(part)[j])
        <3>1. i + 1 \in DOMAIN part /\ j + 1 \in DOMAIN part /\ i + 1 < j + 1
            BY <1>1, <2>1
        <3>2. QED
            BY <1>1, <3>1 DEF Ordered
    <2>2. QED
        BY <2>1 DEF Ordered
<1>5. Len(part) = 1 => Tail(part) = <<>> /\ In(Tail(part)) = {}
    BY <1>1, EmptySeq DEF In
<1>6. Len(part) # 1 => Tail(part) # <<>>
    <2>1. ASSUME NEW q \in Seq(Instruction)
          PROVE  Len(q) # 0 => q # <<>>
        OBVIOUS
    <2>2. Len(part) # 1 => Len(Tail(part)) # 0
        BY <1>1
    <2>3. QED
        BY <1>1, <2>1, <2>2, Zenon
<1>7. Head(part) \in Instruction
    BY <1>1, ElementOfSeq
<1>8. QED
    BY <1>1, <1>2, <1>3, <1>4, <1>5, <1>6, <1>7 DEF Parts

LEMMA OneInstruction ==
    ASSUME NEW i \in Instruction
    PROVE  <<i>> \in Parts /\ In(<<i>>) = {i}
<1>1. <<i>> \in Seq(Instruction) /\ <<i>> # <<>> /\ <<i>>[1] = i
    OBVIOUS
<1>2. DOMAIN <<i>> = {1}
    OBVIOUS
<1>3. In(<<i>>) = {i} 
    BY <1>1, <1>2 DEF In
<1>4. Ordered(<<i>>)
    BY <1>2 DEF Ordered
<1>5. QED
    BY <1>1, <1>3, <1>4 DEF Parts

LEMMA ConcatParts ==
    ASSUME NEW s \in Parts, NEW t \in Parts, \A a \in In(s), b \in In(t): ~Never(a, b)
    PROVE  s \o t \in Parts /\ In(s \o t) = In(s) \union In(t)
<1>1. /\ s \in Seq(Instruction) /\ t \in Seq(Instruction) /\ s \o t \in Seq(Instruction)
      /\ Len(s) \in Nat \ {0} /\ Len(t) \in Nat \ {0} /\ Len(s \o t) = Len(s) + Len(t)
      /\ DOMAIN s = 1..Len(s) /\ DOMAIN t = 1..Len(t) /\ DOMAIN (s \o t) = 1..(Len(s) + Len(t))
      /\ \A i \in 1..(Len(s) + Len(t)): (s \o t)[i] = IF i <= Len(s) THEN s[i] ELSE t[i - Len(s)]
    BY ConcatProperties, LenProperties, EmptySeq DEF Parts
<1>2. \A i \in DOMAIN (s \o t): \/ i \in DOMAIN s /\ (s \o t)[i] = s[i]
                                \/ i - Len(s) \in DOMAIN t /\ (s \o t)[i] = t[i - Len(s)]
                                      /\ ~(i \in DOMAIN s)
    BY <1>1
<1>3. In(s \o t) \subseteq In(s) \union In(t)
    BY <1>2 DEF In
<1>4. In(s) \subseteq In(s \o t)
    BY <1>1 DEF In
<1>5. In(t) \subseteq In(s \o t)
    <2>1. \A i \in DOMAIN t: i + Len(s) \in DOMAIN (s \o t) /\ (s \o t)[i + Len(s)] = t[i]
        BY <1>1
    <2>2. QED
        BY <2>1 DEF In
<1>6. Ordered(s \o t)
    <2>1. ASSUME NEW i \in DOMAIN (s \o t), NEW j \in DOMAIN (s \o t), i < j
          PROVE  ~Never((s \o t)[i], (s \o t)[j])
        <3>1. CASE i \in DOMAIN s /\ j \in DOMAIN s
            BY <1>1, <2>1, <3>1 DEF Parts, Ordered
        <3>2. CASE i \in DOMAIN s /\ ~(j \in DOMAIN s)
            <4>1. (s \o t)[i] \in In(s) /\ (s \o t)[j] \in In(t)
                BY <1>1, <1>2, <3>2 DEF In
            <4>2. QED
                BY <4>1
        <3>3. CASE ~(i \in DOMAIN s)
            <4>1. /\ i - Len(s) \in DOMAIN t /\ (s \o t)[i] = t[i - Len(s)]
                  /\ j - Len(s) \in DOMAIN t /\ (s \o t)[j] = t[j - Len(s)]
                  /\ i - Len(s) < j - Len(s)
                BY <1>1, <2>1, <3>3
            <4>2. QED
                BY <4>1 DEF Parts, Ordered
        <3>4. QED
            BY <3>1, <3>2, <3>3
    <2>2. QED
        BY <2>1 DEF Ordered
<1>7. s \o t # <<>>
    BY <1>1, EmptySeq
<1>8. QED
    BY <1>1, <1>3, <1>4, <1>5, <1>6, <1>7 DEF Parts

Connection == {Lock(GrpcLockName), Unlock(GrpcLockName)}

LEMMA LocksAreInstructions ==
    ASSUME NEW k \in LockKeys
    PROVE  Lock(k) \in Instruction /\ Unlock(k) \in Instruction
BY DEF Lock, Unlock, Do, Instruction

LEMMA KeysOfMarket ==
    /\ LockMarketsKey \in LockKeys /\ GrpcLockName \in LockKeys
    /\ \A m \in Market: {GetHistoryLockKey(m), GetIntervalLockKey(m), GetOrderLockKey(m)}
          \subseteq LockKeys
BY DEF LockKeys

LEMMA ConnectionPart == GetConnection \in Parts /\ In(GetConnection) = Connection
<1>1. /\ <<Lock(GrpcLockName)>> \in Parts /\ In(<<Lock(GrpcLockName)>>) = {Lock(GrpcLockName)}
      /\ <<Unlock(GrpcLockName)>> \in Parts /\ In(<<Unlock(GrpcLockName)>>) = {Unlock(GrpcLockName)}
    BY KeysOfMarket, LocksAreInstructions, OneInstruction
<1>2. GetConnection = <<Lock(GrpcLockName)>> \o <<Unlock(GrpcLockName)>>
    BY <1>1, ConcatEmptySeq DEF GetConnection, WithLock, Lock, Unlock, Parts
<1>3. ~Never(Lock(GrpcLockName), Unlock(GrpcLockName))
    BY DEF Never, Lock, Unlock, Do
<1>4. QED
    BY <1>1, <1>2, <1>3, ConcatParts DEF Connection

LEMMA LockedPart ==
    ASSUME NEW k \in LockKeys, NEW body \in Parts,
           \A i \in In(body): ~Never(Lock(k), i) /\ ~Never(i, Unlock(k))
    PROVE  WithLock(k, body) \in Parts /\ In(WithLock(k, body)) = {Lock(k), Unlock(k)}
          \union In(body)
<1>1. /\ <<Lock(k)>> \in Parts /\ In(<<Lock(k)>>) = {Lock(k)}
      /\ <<Unlock(k)>> \in Parts /\ In(<<Unlock(k)>>) = {Unlock(k)}
    BY LocksAreInstructions, OneInstruction
<1>2. <<Lock(k)>> \o body \in Parts /\ In(<<Lock(k)>> \o body) = {Lock(k)} \union In(body)
    BY <1>1, ConcatParts
<1>3. ~Never(Lock(k), Unlock(k))
    BY DEF Never, Lock, Unlock, Do
<1>4. (<<Lock(k)>> \o body) \o <<Unlock(k)>> \in Parts
    BY <1>1, <1>2, <1>3, ConcatParts
<1>5. In((<<Lock(k)>> \o body) \o <<Unlock(k)>>) = {Lock(k), Unlock(k)} \union In(body)
    BY <1>1, <1>2, <1>3, ConcatParts
<1>6. QED
    BY <1>4, <1>5 DEF WithLock, Lock, Unlock

LEMMA HistoryPart ==
    ASSUME NEW m \in Market
    PROVE  /\ SyncHistory(m) \in Parts
           /\ In(SyncHistory(m)) = {Lock(GetHistoryLockKey(m)), Unlock(GetHistoryLockKey(m)), Do("history", m)}
                                       \union Connection
<1>1. <<Do("history", m)>> \in Parts /\ In(<<Do("history", m)>>) = {Do("history", m)}
    <2>1. Do("history", m) \in Instruction
        BY DEF Do, Instruction
    <2>2. QED
        BY <2>1, OneInstruction
<1>2. \A a \in Connection: ~Never(a, Do("history", m))
    BY DEF Connection, Never, Lock, Unlock, Do, GrpcLockName, LockMarketsKey
<1>3. /\ GetConnection \o <<Do("history", m)>> \in Parts
      /\ In(GetConnection \o <<Do("history", m)>>) = Connection \union {Do("history", m)}
    BY <1>1, <1>2, ConnectionPart, ConcatParts
<1>4. \A i \in Connection \union {Do("history", m)}:
          ~Never(Lock(GetHistoryLockKey(m)), i) /\ ~Never(i, Unlock(GetHistoryLockKey(m)))
    BY DEF Connection, Never, Lock, Unlock, Do, GrpcLockName, LockMarketsKey
<1>5. QED
    BY <1>3, <1>4, KeysOfMarket, LockedPart DEF SyncHistory

LEMMA IntervalsPart ==
    ASSUME NEW m \in Market
    PROVE  /\ SyncIntervals(m) \in Parts
           /\ In(SyncIntervals(m)) = {Lock(GetIntervalLockKey(m)), Unlock(GetIntervalLockKey(m)), Do("intervals", m)}
<1>1. <<Do("intervals", m)>> \in Parts /\ In(<<Do("intervals", m)>>) = {Do("intervals", m)}
    <2>1. Do("intervals", m) \in Instruction
        BY DEF Do, Instruction
    <2>2. QED
        BY <2>1, OneInstruction
<1>2. /\ ~Never(Lock(GetIntervalLockKey(m)), Do("intervals", m))
      /\ ~Never(Do("intervals", m), Unlock(GetIntervalLockKey(m)))
    BY DEF Never, Lock, Unlock, Do
<1>3. QED
    BY <1>1, <1>2, KeysOfMarket, LockedPart DEF SyncIntervals

LEMMA OrdersPart ==
    ASSUME NEW m \in Market
    PROVE  /\ SyncMarket(m) \in Parts
           /\ In(SyncMarket(m)) = {Lock(GetOrderLockKey(m)), Unlock(GetOrderLockKey(m)),
                                   Do("buys", m), Do("book", m)} \union Connection
<1>1. /\ <<Do("buys", m)>> \in Parts /\ In(<<Do("buys", m)>>) = {Do("buys", m)}
      /\ <<Do("book", m)>> \in Parts /\ In(<<Do("book", m)>>) = {Do("book", m)}
    <2>1. Do("buys", m) \in Instruction /\ Do("book", m) \in Instruction
        BY DEF Do, Instruction
    <2>2. QED
        BY <2>1, OneInstruction
<1>2. /\ GetConnection \o <<Do("buys", m)>> \in Parts
      /\ In(GetConnection \o <<Do("buys", m)>>) = Connection \union {Do("buys", m)}
    <2>1. \A a \in Connection: ~Never(a, Do("buys", m))
        BY DEF Connection, Never, Lock, Unlock, Do, GrpcLockName, LockMarketsKey
    <2>2. QED
        BY <1>1, <2>1, ConnectionPart, ConcatParts
<1>3. /\ GetConnection \o <<Do("buys", m)>> \o GetConnection \in Parts
      /\ In(GetConnection \o <<Do("buys", m)>> \o GetConnection) = Connection \union {Do("buys", m)}
    <2>1. \A a \in Connection \union {Do("buys", m)}, b \in Connection: ~Never(a, b)
        BY DEF Connection, Never, Lock, Unlock, Do, GetOrderLockKey, GrpcLockName, LockMarketsKey
    <2>2. QED
        BY <1>2, <2>1, ConnectionPart, ConcatParts
<1>4. /\ GetConnection \o <<Do("buys", m)>> \o GetConnection \o <<Do("book", m)>> \in Parts
      /\ In(GetConnection \o <<Do("buys", m)>> \o GetConnection \o <<Do("book", m)>>)
             = Connection \union {Do("buys", m), Do("book", m)}
    <2>1. \A a \in Connection \union {Do("buys", m)}: ~Never(a, Do("book", m))
        BY DEF Connection, Never, Lock, Unlock, Do, GetOrderLockKey, GrpcLockName, LockMarketsKey
    <2>2. QED
        BY <1>1, <1>3, <2>1, ConcatParts
<1>5. \A i \in Connection \union {Do("buys", m), Do("book", m)}:
          ~Never(Lock(GetOrderLockKey(m)), i) /\ ~Never(i, Unlock(GetOrderLockKey(m)))
    BY DEF Connection, Never, Lock, Unlock, Do, GetOrderLockKey, GrpcLockName, LockMarketsKey
<1>6. QED
    BY <1>4, <1>5, KeysOfMarket, LockedPart DEF SyncMarket

\* Two instructions are the first and then the second.
LEMMA TwoInstructions ==
    ASSUME NEW a \in Instruction, NEW b \in Instruction, ~Never(a, b)
    PROVE  <<a, b>> \in Parts /\ In(<<a, b>>) = {a, b}
<1>1. /\ <<a, b>> \in Seq(Instruction) /\ <<a, b>> # <<>> /\ DOMAIN <<a, b>> = 1..2
      /\ <<a, b>>[1] = a /\ <<a, b>>[2] = b
    OBVIOUS
<1>2. \A i \in 1..2: i = 1 \/ i = 2
    OBVIOUS
<1>3. In(<<a, b>>) = {a, b}
    BY <1>1, <1>2 DEF In
<1>4. Ordered(<<a, b>>)
    BY <1>1, <1>2 DEF Ordered
<1>5. QED
    BY <1>1, <1>3, <1>4 DEF Parts

Asking == {Do("list", Main), Do("dates", Main), Do("firsts", Main), Do("rows", Main)}
      \union Connection

LEMMA QuestionsAreInstructions ==
    ASSUME NEW what \in {"list", "dates", "firsts", "rows", "map"}
    PROVE  Do(what, Main) \in Instruction
BY DEF Do, Instruction

LEMMA MarketsPart == SyncMarkets \in Parts /\ In(SyncMarkets) = Asking
<1> DEFINE first2 == <<Do("list", Main), Do("dates", Main)>>
           last2 == <<Do("firsts", Main), Do("rows", Main)>>
<1>1. first2 \in Parts /\ In(first2) = {Do("list", Main), Do("dates", Main)}
    <2>1. ~Never(Do("list", Main), Do("dates", Main))
        BY DEF Never, Lock, Unlock, Do
    <2>2. QED
        BY <2>1, QuestionsAreInstructions, TwoInstructions
<1>2. last2 \in Parts /\ In(last2) = {Do("firsts", Main), Do("rows", Main)}
    <2>1. ~Never(Do("firsts", Main), Do("rows", Main))
        BY DEF Never, Lock, Unlock, Do
    <2>2. QED
        BY <2>1, QuestionsAreInstructions, TwoInstructions
<1> HIDE DEF first2, last2
<1>3. /\ GetConnection \o first2 \in Parts
      /\ In(GetConnection \o first2) = Connection \union {Do("list", Main), Do("dates", Main)}
    <2>1. \A a \in Connection, b \in {Do("list", Main), Do("dates", Main)}: ~Never(a, b)
        BY DEF Connection, Never, Lock, Unlock, Do, GrpcLockName, LockMarketsKey
    <2>2. QED
        BY <1>1, <2>1, ConnectionPart, ConcatParts
<1>4. /\ GetConnection \o first2 \o GetConnection \in Parts
      /\ In(GetConnection \o first2 \o GetConnection) = Connection
            \union {Do("list", Main), Do("dates", Main)}
    <2>1. \A a \in Connection \union {Do("list", Main), Do("dates", Main)},
          b \in Connection: ~Never(a, b)
        BY DEF Connection, Never, Lock, Unlock, Do, GrpcLockName, LockMarketsKey
    <2>2. QED
        BY <1>3, <2>1, ConnectionPart, ConcatParts
<1>5. /\ GetConnection \o first2 \o GetConnection \o last2 \in Parts
      /\ In(GetConnection \o first2 \o GetConnection \o last2) = Asking
    <2>1. \A a \in Connection \union {Do("list", Main), Do("dates", Main)},
             b \in {Do("firsts", Main), Do("rows", Main)}: ~Never(a, b)
        BY DEF Connection, Never, Lock, Unlock, Do, GrpcLockName, LockMarketsKey
    <2>2. QED
        BY <1>2, <1>4, <2>1, ConcatParts DEF Asking
<1>6. QED
    BY <1>5 DEF SyncMarkets, first2, last2

LEMMA MapPart ==
    GetMarketsMap \in Parts /\ In(GetMarketsMap) = {Do("list", Main), Do("map", Main)}
          \union Connection
<1> DEFINE ask == <<Do("list", Main), Do("map", Main)>>
<1>1. ask \in Parts /\ In(ask) = {Do("list", Main), Do("map", Main)}
    <2>1. ~Never(Do("list", Main), Do("map", Main))
        BY DEF Never, Lock, Unlock, Do
    <2>2. QED
        BY <2>1, QuestionsAreInstructions, TwoInstructions
<1>2. \A a \in Connection, b \in {Do("list", Main), Do("map", Main)}: ~Never(a, b)
    BY DEF Connection, Never, Lock, Unlock, Do, GrpcLockName, LockMarketsKey
<1> HIDE DEF ask
<1>3. GetConnection \o ask \in Parts /\ In(GetConnection \o ask) = In(GetConnection) \union In(ask)
    BY <1>1, <1>2, ConnectionPart, ConcatParts
<1>4. QED
    BY <1>1, <1>3, ConnectionPart DEF GetMarketsMap, ask

LEMMA RefreshPart ==
    /\ RefreshMarkets \in Parts
    /\ In(RefreshMarkets) = {Lock(LockMarketsKey), Unlock(LockMarketsKey), Do("list", Main), Do("map", Main)}
                                \union Connection
<1>1. \A i \in {Do("list", Main), Do("map", Main)} \union Connection:
          ~Never(Lock(LockMarketsKey), i) /\ ~Never(i, Unlock(LockMarketsKey))
    BY DEF Connection, Never, Lock, Unlock, Do, GrpcLockName, LockMarketsKey
<1>2. QED
    BY <1>1, MapPart, KeysOfMarket, LockedPart DEF RefreshMarkets

LEMMA FirstPart ==
    /\ <<Do("lock", LockMarketsKey)>> \o SyncMarkets \in Parts
    /\ In(<<Do("lock", LockMarketsKey)>> \o SyncMarkets) = {Lock(LockMarketsKey)} \union Asking
<1>1. <<Lock(LockMarketsKey)>> \in Parts /\ In(<<Lock(LockMarketsKey)>>) = {Lock(LockMarketsKey)}
    BY KeysOfMarket, LocksAreInstructions, OneInstruction
<1>2. \A i \in Asking: ~Never(Lock(LockMarketsKey), i)
    BY DEF Asking, Connection, Never, Lock, Unlock, Do, GrpcLockName, LockMarketsKey
<1>3. QED
    BY <1>1, <1>2, MarketsPart, ConcatParts DEF Lock

Each(m) == SyncHistory(m) \o SyncMarket(m) \o SyncIntervals(m)

LEMMA EachPart ==
    ASSUME NEW m \in Market
    PROVE  Each(m) \in Parts /\ In(Each(m)) = In(SyncHistory(m)) \union In(SyncMarket(m))
          \union In(SyncIntervals(m))
<1>1. \A a \in In(SyncHistory(m)), b \in In(SyncMarket(m)): ~Never(a, b)
    BY HistoryPart, OrdersPart
    DEF Connection, Never, Lock, Unlock, Do, GetOrderLockKey, GetHistoryLockKey, GrpcLockName,
        LockMarketsKey
<1>2. /\ SyncHistory(m) \o SyncMarket(m) \in Parts
      /\ In(SyncHistory(m) \o SyncMarket(m)) = In(SyncHistory(m)) \union In(SyncMarket(m))
    BY <1>1, HistoryPart, OrdersPart, ConcatParts
<1>3. \A a \in In(SyncHistory(m)) \union In(SyncMarket(m)), b \in In(SyncIntervals(m)): ~Never(a, b)
    BY HistoryPart, OrdersPart, IntervalsPart
    DEF Connection, Never, Lock, Unlock, Do, GetOrderLockKey, GetHistoryLockKey, GetIntervalLockKey,
        GrpcLockName, LockMarketsKey
<1>4. QED
    BY <1>2, <1>3, IntervalsPart, ConcatParts DEF Each

-----------------------------------------------------------------------------
(* The inductive invariant. *)

Map == Do("map", Main)
List == Do("list", Main)
Dates == Do("dates", Main)
Firsts == Do("firsts", Main)
Rows == Do("rows", Main)
Buys(m) == Do("buys", m)
Book(m) == Do("book", m)

\* A part that has not begun asks before it stores, and locks before it asks.
Whole(part) ==
    /\ Map \in In(part) => List \in In(part)
    /\ Rows \in In(part) => Firsts \in In(part)
    /\ \A m \in Market: Book(m) \in In(part) =>
           Buys(m) \in In(part) /\ Lock(GetOrderLockKey(m)) \in In(part)

\* What g has locked and asked for so far is what the rest of its part needs.
Fits(g, part) ==
    /\ Map \in In(part) => Lock(LockMarketsKey) \in In(part) \/ LockMarketsKey \in owns[g]
    /\ Map \in In(part) /\ List \notin In(part) => LockMarketsKey \in owns[g]
          /\ markets \subseteq list[g]
    /\ \A m \in Market: Book(m) \in In(part) =>
           Lock(GetOrderLockKey(m)) \in In(part) \/ GetOrderLockKey(m) \in owns[g]
    /\ \A m \in Market: Book(m) \in In(part) /\ Buys(m) \notin In(part) =>
           /\ GetOrderLockKey(m) \in owns[g]
           /\ book[m] <= height[g] /\ height[g] <= event[m]
           /\ \A n \in Market: Buys(n) \notin In(part)
    /\ Rows \in In(part) /\ Firsts \notin In(part) =>
           /\ List \notin In(part) /\ Dates \notin In(part)
           /\ \A m \in list[g]: first[m] # 0 => dates[g][m] < first[m]

\* initialSync locks the markets in its first part and gets the map in the second.
MapIsLocked(g) ==
    \A j \in DOMAIN todo[g]:
        j # 1 /\ Map \in In(todo[g][j]) /\ Lock(LockMarketsKey) \notin In(todo[g][j]) =>
            /\ j = 2
            /\ Unlock(LockMarketsKey) \notin In(todo[g][1])
            /\ Lock(LockMarketsKey) \in In(todo[g][1]) \/ LockMarketsKey \in owns[g]

ProgramOK(g) ==
    /\ todo[g] # <<>> => Fits(g, todo[g][1])
    /\ \A j \in DOMAIN todo[g]: j # 1 => Whole(todo[g][j])
    /\ MapIsLocked(g)

\* A goroutine in the locker runs the instruction that brought it there.
InTheLocker(g) ==
    running /\ pc[g] # "run" => todo[g] # <<>> /\ Next1(g) = Do(pc[g], key[g])

\* Nothing is newer than the chain.
NothingIsNewer ==
    /\ markets \subseteq created
    /\ created \subseteq Market /\ IsFiniteSet(created)
    /\ \A m \in Market: event[m] <= emitted /\ first[m] <= emitted /\ createdAt[m] <= emitted
                        /\ trade[m] <= emitted
    /\ \A m \in Market: book[m] <= event[m] /\ history[m] <= trade[m] /\ intervals[m] <= history[m]
    /\ \A g \in Goroutine: list[g] \subseteq created /\ \A m \in Market: dates[g][m] <= emitted

\* A side of a book has been empty since an event of its market at the latest.
BareIsPast == \A s \in Side: \A m \in Market: bare[s][m] <= event[m]

ListenerInv ==
    /\ LockerInv
    /\ TypeOK
    /\ todo \in [Goroutine -> Seq(Parts)]
    /\ \A g \in Goroutine: InTheLocker(g) /\ ProgramOK(g)
    /\ NothingIsNewer
    /\ BareIsPast
    /\ DatedInTime

-----------------------------------------------------------------------------
(* The locks. *)

LEMMA TypeOfNext ==
    ASSUME todo \in [Goroutine -> Seq(Parts)], NEW g \in Goroutine, todo[g] # <<>>
    PROVE  /\ Head(todo[g]) = todo[g][1] /\ todo[g][1] \in Parts /\ Next1(g) = Head(todo[g][1])
           /\ Next1(g) \in Instruction /\ Next1(g) \in In(todo[g][1])
           /\ 1 \in DOMAIN todo[g]
<1>1. todo[g] \in Seq(Parts)
    OBVIOUS
<1>2. Head(todo[g]) = todo[g][1] /\ todo[g][1] \in Parts /\ 1 \in DOMAIN todo[g]
    BY <1>1, HeadTailProperties, LenProperties, EmptySeq
<1>3. QED
    BY <1>2, TailOfPart DEF Next1

LEMMA OperandOfLock ==
    ASSUME NEW i \in Instruction, i.do \in {"lock", "unlock"}
    PROVE  i.on \in LockKeys /\ i = Do(i.do, i.on)
BY DEF Instruction, Do

LEMMA OperandOfTable ==
    ASSUME NEW i \in Instruction, i.do \in {"history", "intervals", "buys", "book"}
    PROVE  i.on \in Market /\ i = Do(i.do, i.on)
BY DEF Instruction, Do

LEMMA OperandOfMarkets ==
    ASSUME NEW i \in Instruction, i.do \in {"list", "dates", "firsts", "rows", "map"}
    PROVE  i = Do(i.do, Main)
BY DEF Instruction, Do

\* Every step of the process is a step of the locker or leaves it alone.
LEMMA NextIsLockerNext == ListenerInv /\ [Next]_vars => [LockerNext]_lockerVars
<1> SUFFICES ASSUME ListenerInv, [Next]_vars
             PROVE  [LockerNext]_lockerVars
    OBVIOUS
<1>1. ASSUME NEW g \in Goroutine, AcquireLock(g)
      PROVE  LockerNext
    <2>1. CASE LockMutex(g)
        BY <2>1 DEF LockerNext
    <2>2. CASE Runs(g, "lock") /\ FindForLock(g, Next1(g).on)
        <3>1. Next1(g) \in Instruction /\ Next1(g).do = "lock"
            BY <2>2, TypeOfNext DEF Runs, ListenerInv
        <3>2. Next1(g).on \in Key
            BY <3>1, OperandOfLock, ListenerAssumption
        <3>3. QED
            BY <2>2, <3>2 DEF LockerNext
    <2>3. QED
        BY <1>1, <2>1, <2>2 DEF AcquireLock
<1>2. ASSUME NEW g \in Goroutine, ReleaseLock(g)
      PROVE  LockerNext
    <2>1. CASE UnlockMutex(g)
        BY <2>1 DEF LockerNext
    <2>2. CASE Runs(g, "unlock") /\ FindForUnlock(g, Next1(g).on)
        <3>1. Next1(g) \in Instruction /\ Next1(g).do = "unlock"
            BY <2>2, TypeOfNext DEF Runs, ListenerInv
        <3>2. Next1(g).on \in Key
            BY <3>1, OperandOfLock, ListenerAssumption
        <3>3. QED
            BY <2>2, <3>2 DEF LockerNext
    <2>3. QED
        BY <1>2, <2>1, <2>2 DEF ReleaseLock
<1>3. ASSUME NEW g \in Goroutine, Call(g) \/ CallFails(g) \/ MapFails(g) \/ Listen(g)
      PROVE  UNCHANGED lockerVars
    BY <1>3 DEF Call, CallFails, MapFails, Listen, HandleMessage
<1>4. ASSUME NEW type, NEW m, NEW stream, Emit(type, m, stream) \/ Subscribe(stream)
      PROVE  UNCHANGED lockerVars
    BY <1>4 DEF Emit, Subscribe
<1>5. CASE Stop
    BY <1>5 DEF Stop
<1>6. CASE UNCHANGED vars
    BY <1>6 DEF vars
<1>7. QED
    BY <1>1, <1>2, <1>3, <1>4, <1>5, <1>6 DEF Next, Run, Handler

-----------------------------------------------------------------------------
(* Programs. *)

\* A part before a program.
LEMMA PartBefore ==
    ASSUME NEW part \in Parts, NEW parts \in Seq(Parts)
    PROVE  /\ <<part>> \o parts \in Seq(Parts)
           /\ Len(parts) \in Nat /\ DOMAIN parts = 1..Len(parts)
           /\ DOMAIN (<<part>> \o parts) = 1..(Len(parts) + 1)
           /\ (<<part>> \o parts)[1] = part
           /\ \A j \in 2..(Len(parts) + 1): (<<part>> \o parts)[j] = parts[j - 1]
<1> DEFINE one == <<part>>
<1>1. one \in Seq(Parts) /\ Len(one) = 1 /\ one[1] = part
    OBVIOUS
<1>2. Len(parts) \in Nat /\ DOMAIN parts = 1..Len(parts)
    BY LenProperties
<1> HIDE DEF one
<1>3. /\ one \o parts \in Seq(Parts) /\ Len(one \o parts) = Len(one) + Len(parts)
      /\ \A j \in 1..Len(one) + Len(parts): (one \o parts)[j] =
             IF j <= Len(one) THEN one[j] ELSE parts[j - Len(one)]
    BY <1>1, ConcatProperties
<1>4. Len(one \o parts) = Len(parts) + 1 /\ DOMAIN (one \o parts) = 1..(Len(parts) + 1)
    BY <1>1, <1>2, <1>3, LenProperties
<1>5. (one \o parts)[1] = part
    BY <1>1, <1>2, <1>3
<1>6. \A j \in 2..(Len(parts) + 1): (one \o parts)[j] = parts[j - 1]
    BY <1>1, <1>2, <1>3
<1>7. QED
    BY <1>2, <1>3, <1>4, <1>5, <1>6 DEF one

LEMMA RestOfProgram ==
    ASSUME NEW parts \in Seq(Parts), parts # <<>>
    PROVE  /\ Rest(parts) \in Seq(Parts)
           /\ Len(parts[1]) = 1 => \A j \in DOMAIN Rest(parts): j + 1 \in DOMAIN parts
                 /\ Rest(parts)[j] = parts[j + 1]
           /\ Len(parts[1]) # 1 => /\ DOMAIN Rest(parts) = DOMAIN parts
                                   /\ \A j \in DOMAIN parts:
                                        Rest(parts)[j] = IF j = 1 THEN Tail(parts[1]) ELSE parts[j]
<1>1. /\ Head(parts) = parts[1] /\ parts[1] \in Parts /\ 1 \in DOMAIN parts
      /\ Tail(parts) \in Seq(Parts) /\ Len(Tail(parts)) = Len(parts) - 1
      /\ Len(parts) \in Nat \ {0} /\ DOMAIN parts = 1..Len(parts)
      /\ DOMAIN Tail(parts) = 1..(Len(parts) - 1)
      /\ \A j \in DOMAIN Tail(parts): Tail(parts)[j] = parts[j + 1]
    BY HeadTailProperties, LenProperties, EmptySeq
<1>2. CASE Len(parts[1]) = 1
    <2>1. Rest(parts) = Tail(parts)
        BY <1>1, <1>2 DEF Rest
    <2>2. QED
        BY <1>1, <1>2, <2>1
<1>3. CASE Len(parts[1]) # 1
    <2>1. Rest(parts) = <<Tail(parts[1])>> \o Tail(parts)
        BY <1>1, <1>3 DEF Rest
    <2>2. Tail(parts[1]) \in Parts
        BY <1>1, <1>3, TailOfPart
    <2>3. /\ Rest(parts) \in Seq(Parts)
          /\ DOMAIN Rest(parts) = 1..(Len(Tail(parts)) + 1)
          /\ Rest(parts)[1] = Tail(parts[1])
          /\ \A j \in 2..(Len(Tail(parts)) + 1): Rest(parts)[j] = Tail(parts)[j - 1]
        BY <1>1, <2>1, <2>2, PartBefore
    <2>4. DOMAIN Rest(parts) = DOMAIN parts
        BY <1>1, <2>3
    <2>5. ASSUME NEW j \in DOMAIN parts, j # 1
          PROVE  Rest(parts)[j] = parts[j]
        <3>1. j \in 2..(Len(Tail(parts)) + 1) /\ j - 1 \in DOMAIN Tail(parts) /\ (j - 1) + 1 = j
            BY <1>1, <2>5
        <3>2. QED
            BY <1>1, <2>3, <3>1
    <2>6. QED
        BY <1>3, <2>3, <2>4, <2>5
<1>4. QED
    BY <1>2, <1>3

\* What is left of a program after an instruction but for the new head, which
\* is the rest of the part, or a part that has not begun.
LEMMA AfterDone ==
    ASSUME todo \in [Goroutine -> Seq(Parts)], NEW g \in Goroutine, todo[g] # <<>>, ProgramOK(g),
           todo'[g] = Rest(todo[g]),
           Next1(g) = Lock(LockMarketsKey) => LockMarketsKey \in owns'[g],
           Next1(g) # Unlock(LockMarketsKey) /\ LockMarketsKey \in owns[g]
                 => LockMarketsKey \in owns'[g]
    PROVE  /\ todo'[g] \in Seq(Parts)
           /\ \A j \in DOMAIN todo'[g]: j # 1 => Whole(todo'[g][j])
           /\ MapIsLocked(g)'
           /\ todo'[g] # <<>> =>
                \/ /\ Whole(todo'[g][1])
                   /\ Map \in In(todo'[g][1]) =>
                        Lock(LockMarketsKey) \in In(todo'[g][1]) \/ LockMarketsKey \in owns'[g]
                \/ todo'[g][1] = Tail(todo[g][1]) /\ Len(todo[g][1]) # 1
<1> DEFINE part == todo[g][1]
<1>1. /\ todo[g] \in Seq(Parts) /\ part \in Parts /\ Next1(g) = Head(part) /\ Next1(g) \in In(part)
      /\ 1 \in DOMAIN todo[g] /\ DOMAIN todo[g] \subseteq Nat
    BY TypeOfNext, LenProperties
<1>2. Rest(todo[g]) \in Seq(Parts)
    BY <1>1, RestOfProgram
<1>3. \A j \in DOMAIN todo[g]: j # 1 => Whole(todo[g][j])
    BY DEF ProgramOK
<1>4. DOMAIN todo'[g] \subseteq Nat /\ 0 \notin DOMAIN todo'[g]
      /\ (todo'[g] # <<>> => 1 \in DOMAIN todo'[g])
    BY <1>2, LenProperties, EmptySeq
<1>5. CASE Len(part) = 1
    <2>1. \A j \in DOMAIN todo'[g]: j + 1 \in DOMAIN todo[g] /\ todo'[g][j] = todo[g][j + 1]
          /\ j + 1 # 1
        BY <1>1, <1>4, <1>5, RestOfProgram
    <2>2. \A j \in DOMAIN todo'[g]: Whole(todo'[g][j])
        BY <1>3, <2>1
    <2>3. ASSUME NEW j \in DOMAIN todo'[g], Map \in In(todo'[g][j]),
                 Lock(LockMarketsKey) \notin In(todo'[g][j])
          PROVE  j = 1 /\ LockMarketsKey \in owns'[g]
        <3>1. /\ j + 1 = 2 /\ Unlock(LockMarketsKey) \notin In(part)
              /\ Lock(LockMarketsKey) \in In(part) \/ LockMarketsKey \in owns[g]
            BY <2>1, <2>3 DEF ProgramOK, MapIsLocked
        <3>2. In(part) = {Next1(g)}
            BY <1>1, <1>5, TailOfPart
        <3>3. j = 1
            BY <1>4, <3>1
        <3>4. QED
            BY <3>1, <3>2, <3>3
    <2>4. MapIsLocked(g)'
        BY <2>3 DEF MapIsLocked
    <2>5. QED
        BY <1>2, <1>4, <2>2, <2>3, <2>4
<1>6. CASE Len(part) # 1
    <2>1. /\ DOMAIN todo'[g] = DOMAIN todo[g] /\ todo'[g][1] = Tail(part)
          /\ \A j \in DOMAIN todo[g]: j # 1 => todo'[g][j] = todo[g][j]
        <3>1. /\ DOMAIN Rest(todo[g]) = DOMAIN todo[g]
              /\ \A j \in DOMAIN todo[g]: Rest(todo[g])[j] = IF j = 1 THEN Tail(part) ELSE todo[g][j]
            BY <1>1, <1>6, RestOfProgram
        <3>2. QED
            BY <1>1, <3>1
    <2>2. \A j \in DOMAIN todo'[g]: j # 1 => Whole(todo'[g][j])
        BY <1>3, <2>1
    <2>3. In(part) = {Next1(g)} \union In(Tail(part))
        BY <1>1, TailOfPart
    <2>4. ASSUME NEW j \in DOMAIN todo'[g], j # 1, Map \in In(todo'[g][j]),
                 Lock(LockMarketsKey) \notin In(todo'[g][j])
          PROVE  /\ j = 2
                 /\ Unlock(LockMarketsKey) \notin In(todo'[g][1])
                 /\ Lock(LockMarketsKey) \in In(todo'[g][1]) \/ LockMarketsKey \in owns'[g]
        <3>1. /\ j = 2 /\ Unlock(LockMarketsKey) \notin In(part)
              /\ Lock(LockMarketsKey) \in In(part) \/ LockMarketsKey \in owns[g]
            BY <2>1, <2>4 DEF ProgramOK, MapIsLocked
        <3>2. QED
            BY <2>1, <2>3, <3>1
    <2>5. MapIsLocked(g)'
        BY <2>4 DEF MapIsLocked
    <2>6. QED
        BY <1>2, <1>6, <2>1, <2>2, <2>5
<1>7. QED
    BY <1>5, <1>6

\* A call that fails leaves the deferred Unlock of its part, if any.
LEMMA AfterFailure ==
    ASSUME todo \in [Goroutine -> Seq(Parts)], NEW g \in Goroutine, todo[g] # <<>>, ProgramOK(g),
           Next1(g).do \notin {"lock", "unlock"}, todo'[g] = Deferred(g), owns' = owns
    PROVE  todo'[g] \in Seq(Parts) /\ ProgramOK(g)'
<1> DEFINE part == todo[g][1]
           rest == Tail(todo[g])
<1>1. /\ todo[g] \in Seq(Parts) /\ part \in Parts /\ Next1(g) = Head(part) /\ part = Head(todo[g])
      /\ DOMAIN part = 1..Len(part) /\ part \in Seq(Instruction)
    BY TypeOfNext, LenProperties DEF Parts
<1>2. /\ rest \in Seq(Parts) /\ DOMAIN rest \subseteq Nat \ {0}
      /\ rest # <<>> => 1 \in DOMAIN rest
      /\ \A j \in DOMAIN rest: j + 1 \in DOMAIN todo[g] /\ rest[j] = todo[g][j + 1] /\ j + 1 # 1
    <2>1. /\ rest \in Seq(Parts) /\ Len(rest) = Len(todo[g]) - 1
          /\ Len(todo[g]) \in Nat \ {0} /\ DOMAIN todo[g] = 1..Len(todo[g])
          /\ DOMAIN rest = 1..Len(rest) /\ \A j \in DOMAIN rest: rest[j] = todo[g][j + 1]
        BY <1>1, HeadTailProperties, LenProperties, EmptySeq
    <2>2. rest # <<>> => Len(rest) \in Nat \ {0}
        BY <2>1, EmptySeq
    <2>3. QED
        BY <2>1, <2>2
<1>3. Lock(LockMarketsKey) \notin In(part)
    <2>1. Next1(g) # Lock(LockMarketsKey)
        BY DEF Lock, Do
    <2>2. \A b \in In(Tail(part)): ~Never(Next1(g), b)
        BY <1>1, TailOfPart
    <2>3. Lock(LockMarketsKey) \notin In(Tail(part))
        BY <2>2 DEF Never
    <2>4. QED
        BY <1>1, <2>1, <2>3, TailOfPart
<1>4. ASSUME NEW j \in DOMAIN rest
      PROVE  /\ Whole(rest[j])
             /\ Map \in In(rest[j]) /\ Lock(LockMarketsKey) \notin In(rest[j]) =>
                  j = 1 /\ Unlock(LockMarketsKey) \notin In(part) /\ LockMarketsKey \in owns[g]
    <2>1. Whole(rest[j])
        BY <1>2 DEF ProgramOK
    <2>2. ASSUME Map \in In(rest[j]), Lock(LockMarketsKey) \notin In(rest[j])
          PROVE  j = 1 /\ Unlock(LockMarketsKey) \notin In(part) /\ LockMarketsKey \in owns[g]
        <3>1. j + 1 = 2 /\ Unlock(LockMarketsKey) \notin In(part) /\ LockMarketsKey \in owns[g]
            BY <1>2, <1>3, <2>2 DEF ProgramOK, MapIsLocked
        <3>2. QED
            BY <1>2, <3>1
    <2>3. QED
        BY <2>1, <2>2
<1> HIDE DEF rest
<1>5. CASE todo'[g] = rest
    <2>1. todo'[g] # <<>> => Fits(g, todo[g][1])'
        BY <1>2, <1>4, <1>5 DEF Fits, Whole
    <2>2. \A j \in DOMAIN todo'[g]: j # 1 => Whole(todo'[g][j])
        BY <1>4, <1>5
    <2>3. MapIsLocked(g)'
        BY <1>4, <1>5 DEF MapIsLocked
    <2>4. QED
        BY <1>2, <1>5, <2>1, <2>2, <2>3 DEF ProgramOK
<1>6. ASSUME NEW i \in In(part), i.do = "unlock", todo'[g] = <<<<i>>>> \o rest
      PROVE  todo'[g] \in Seq(Parts) /\ ProgramOK(g)'
    <2>1. i \in Instruction
        BY <1>1, ElementOfSeq DEF In
    <2>2. <<i>> \in Parts /\ In(<<i>>) = {i}
        BY <2>1, OneInstruction
    <2>3. /\ todo'[g] \in Seq(Parts)
          /\ Len(rest) \in Nat /\ DOMAIN rest = 1..Len(rest)
          /\ DOMAIN todo'[g] = 1..(Len(rest) + 1)
          /\ todo'[g][1] = <<i>>
          /\ \A j \in 2..(Len(rest) + 1): todo'[g][j] = rest[j - 1]
        BY <1>2, <1>6, <2>2, PartBefore
    <2>4. ASSUME NEW j \in DOMAIN todo'[g], j # 1
          PROVE  j - 1 \in DOMAIN rest /\ todo'[g][j] = rest[j - 1] /\ (j - 1 = 1 => j = 2)
        BY <2>3, <2>4
    <2>5. Fits(g, todo[g][1])'
        <3>1. /\ Map \notin {i} /\ Rows \notin {i} /\ \A m \in Market: Book(m) \notin {i}
            BY <1>6 DEF Map, Rows, Book, Do
        <3>2. In(todo'[g][1]) = {i}
            BY <2>2, <2>3
        <3>3. QED
            BY <3>1, <3>2 DEF Fits
    <2>6. \A j \in DOMAIN todo'[g]: j # 1 => Whole(todo'[g][j])
        BY <1>4, <2>4
    <2>7. MapIsLocked(g)'
        <3>1. ASSUME NEW j \in DOMAIN todo'[g], j # 1, Map \in In(todo'[g][j]),
                     Lock(LockMarketsKey) \notin In(todo'[g][j])
              PROVE  j = 2 /\ Unlock(LockMarketsKey) \notin In(todo'[g][1])
                    /\ LockMarketsKey \in owns'[g]
            <4>1. j - 1 = 1 /\ Unlock(LockMarketsKey) \notin In(part) /\ LockMarketsKey \in owns[g]
                BY <1>4, <2>4, <3>1
            <4>2. QED
                BY <1>6, <2>2, <2>3, <2>4, <3>1, <4>1
        <3>2. QED
            BY <3>1 DEF MapIsLocked
    <2>8. QED
        BY <2>3, <2>5, <2>6, <2>7 DEF ProgramOK
<1>7. todo'[g] = rest \/ \E i \in In(part): i.do = "unlock" /\ todo'[g] = <<<<i>>>> \o rest
    <2> DEFINE owed == {n \in DOMAIN part: part[n].do = "unlock" /\ part[n].on \in owns[g]}
    <2>1. todo'[g] = IF owed = {} THEN rest ELSE <<<<part[CHOOSE n \in owed: TRUE]>>>> \o rest
        BY <1>1 DEF Deferred, rest
    <2>2. owed # {} => (CHOOSE n \in owed: TRUE) \in owed
        OBVIOUS
    <2>3. QED
        BY <2>1, <2>2 DEF In
<1>8. QED
    BY <1>5, <1>6, <1>7

\* A goroutine that does nothing keeps what its part needs, as long as nobody
\* takes from it what it has locked.
LEMMA OthersKeepFitting ==
    ASSUME NEW h \in Goroutine, ProgramOK(h),
           todo'[h] = todo[h], owns'[h] = owns[h], list'[h] = list[h], height'[h] = height[h],
           dates'[h] = dates[h],
           \A m \in Market: event[m] <= event'[m] /\ event[m] \in Nat /\ event'[m] \in Nat
                 /\ height[h] \in Nat,
           \A m \in list[h]: first'[m] = first[m] \/ dates[h][m] < first'[m],
           \/ markets' \subseteq markets
           \/ LockMarketsKey \notin owns[h],
           \A m \in Market: book'[m] = book[m] \/ GetOrderLockKey(m) \notin owns[h]
    PROVE  ProgramOK(h)'
<1>1. todo[h] # <<>> => Fits(h, todo[h][1])'
    <2> SUFFICES ASSUME todo[h] # <<>>, Fits(h, todo[h][1])
                 PROVE  Fits(h, todo[h][1])'
        BY DEF ProgramOK
    <2> USE DEF Fits
    <2>1. Map \in In(todo[h][1]) /\ List \notin In(todo[h][1]) =>
              LockMarketsKey \in owns[h] /\ markets' \subseteq list[h]
        OBVIOUS
    <2>2. ASSUME NEW m \in Market, Book(m) \in In(todo[h][1]), Buys(m) \notin In(todo[h][1])
          PROVE  /\ GetOrderLockKey(m) \in owns[h]
                 /\ book'[m] <= height[h] /\ height[h] <= event'[m]
                 /\ \A n \in Market: Buys(n) \notin In(todo[h][1])
        BY <2>2
    <2>3. Rows \in In(todo[h][1]) /\ Firsts \notin In(todo[h][1]) =>
              /\ List \notin In(todo[h][1]) /\ Dates \notin In(todo[h][1])
              /\ \A m \in list[h]: first'[m] # 0 => dates[h][m] < first'[m]
        OBVIOUS
    <2>4. QED
        BY <2>1, <2>2, <2>3
<1>2. MapIsLocked(h)'
    BY DEF ProgramOK, MapIsLocked
<1>3. QED
    BY <1>1, <1>2 DEF ProgramOK

Forgetting == {"rows", "book", "map"}

\* What one instruction of g does to what only g has.
Executes(g) ==
    LET i == Next1(g)
    IN  /\ owns'[g] = CASE i.do = "lock" -> owns[g] \union {i.on}
                        [] i.do = "unlock" -> owns[g] \ {i.on}
                        [] OTHER -> owns[g]
        /\ i.do \notin Forgetting =>
             /\ list'[g] = IF i.do = "list" THEN created ELSE list[g]
             /\ height'[g] = IF i.do = "buys" THEN event[i.on] ELSE height[g]
             /\ i.do # "dates" =>
                  dates'[g] = IF i.do = "firsts"
                                THEN [m \in Market |-> IF m \in list[g] /\ first[m] # 0
                                                         THEN first[m] - 1 ELSE dates[g][m]]
                                ELSE dates[g]
             /\ markets' = markets /\ book' = book
        /\ event' = event /\ first' = first

\* The rest of a part finds what it needs after its first instruction.
LEMMA RestFits ==
    ASSUME ListenerInv, NEW g \in Goroutine, todo[g] # <<>>, Executes(g),
           todo'[g][1] = Tail(todo[g][1])
    PROVE  Fits(g, todo[g][1])'
<1> DEFINE i == Next1(g)
           A == In(todo[g][1])
           B == In(Tail(todo[g][1]))
<1>1. /\ i \in Instruction /\ A = {i} \union B /\ \A b \in B: ~Never(i, b)
      /\ Fits(g, todo[g][1])
    BY TypeOfNext, TailOfPart DEF ListenerInv, ProgramOK
<1>2. In(todo[g][1])' = B
    OBVIOUS
<1>3. /\ \A m \in Market: event[m] \in Nat /\ first[m] \in Nat /\ book[m] \in Nat
            /\ book[m] <= event[m]
      /\ markets \subseteq created
    BY ListenerAssumption DEF ListenerInv, TypeOK, NothingIsNewer
<1> HIDE DEF B
<1>4. CASE i.do \in Forgetting
    <2>1. /\ Map \notin B /\ Rows \notin B /\ \A m \in Market: Book(m) \notin B
        BY <1>1, <1>4 DEF Never, Forgetting, Map, Rows, Book, Do
    <2>2. QED
        BY <1>2, <2>1 DEF Fits
<1>5. CASE i.do \notin Forgetting
    <2>1. /\ list'[g] = IF i.do = "list" THEN created ELSE list[g]
          /\ height'[g] = IF i.do = "buys" THEN event[i.on] ELSE height[g]
          /\ i.do # "dates" =>
               dates'[g] = IF i.do = "firsts"
                             THEN [m \in Market |-> IF m \in list[g] /\ first[m] # 0
                                                      THEN first[m] - 1 ELSE dates[g][m]]
                             ELSE dates[g]
          /\ UNCHANGED <<markets, book, event, first>>
        BY <1>5 DEF Executes
    <2>2. /\ \A k: k \in owns[g] /\ i # Unlock(k) => k \in owns'[g]
          /\ \A k: i = Lock(k) => k \in owns'[g]
        <3>1. CASE i.do \in {"lock", "unlock"}
            <4>1. i = Do(i.do, i.on)
                BY <1>1, <3>1, OperandOfLock
            <4>2. QED
                BY <3>1, <4>1 DEF Executes, Lock, Unlock, Do
        <3>2. CASE i.do \notin {"lock", "unlock"}
            BY <3>2 DEF Executes, Lock, Unlock, Do
        <3>3. QED
            BY <3>1, <3>2
    <2>3. ASSUME Map \in B
          PROVE  /\ Lock(LockMarketsKey) \in B \/ LockMarketsKey \in owns'[g]
                 /\ List \notin B => LockMarketsKey \in owns'[g] /\ markets' \subseteq list'[g]
        <3>1. i # Unlock(LockMarketsKey)
            BY <1>1, <2>3 DEF Never, Map, Do
        <3>2. Lock(LockMarketsKey) \in B \/ LockMarketsKey \in owns'[g]
            BY <1>1, <2>2, <2>3, <3>1 DEF Fits
        <3>3. ASSUME List \notin B
              PROVE  LockMarketsKey \in owns'[g] /\ markets' \subseteq list'[g]
            <4>1. CASE i = List
                <5>1. i.do = "list" /\ i.do \notin {"lock", "unlock"}
                    BY <4>1 DEF List, Do
                <5>2. Lock(LockMarketsKey) \notin B
                    BY <1>1, <5>1 DEF Never
                <5>3. QED
                    BY <1>3, <2>1, <3>2, <5>1, <5>2
            <4>2. CASE i # List
                <5>1. i.do # "list"
                    BY <1>1, <4>2, OperandOfMarkets DEF List
                <5>2. QED
                    BY <1>1, <2>1, <2>2, <2>3, <3>1, <3>3, <4>2, <5>1 DEF Fits
            <4>3. QED
                BY <4>1, <4>2
        <3>4. QED
            BY <3>2, <3>3
    <2>4. ASSUME NEW m \in Market, Book(m) \in B
          PROVE  /\ Lock(GetOrderLockKey(m)) \in B \/ GetOrderLockKey(m) \in owns'[g]
                 /\ Buys(m) \notin B =>
                       /\ GetOrderLockKey(m) \in owns'[g]
                       /\ book'[m] <= height'[g] /\ height'[g] <= event'[m]
                       /\ \A n \in Market: Buys(n) \notin B
        <3>1. i # Unlock(GetOrderLockKey(m))
            BY <1>1, <2>4 DEF Never, Book, Do
        <3>2. Lock(GetOrderLockKey(m)) \in B \/ GetOrderLockKey(m) \in owns'[g]
            BY <1>1, <2>2, <2>4, <3>1 DEF Fits
        <3>3. ASSUME Buys(m) \notin B
              PROVE  /\ GetOrderLockKey(m) \in owns'[g]
                     /\ book'[m] <= height'[g] /\ height'[g] <= event'[m]
                     /\ \A n \in Market: Buys(n) \notin B
            <4>1. CASE i = Buys(m)
                <5>1. i.do = "buys" /\ i.on = m
                    BY <4>1 DEF Buys, Do
                <5>2. Lock(GetOrderLockKey(m)) \notin B /\ \A n \in Market: Buys(n) \notin B
                    BY <1>1, <5>1 DEF Never, Buys, Do
                <5>3. QED
                    BY <1>3, <2>1, <3>2, <5>1, <5>2
            <4>2. CASE i # Buys(m)
                <5>1. /\ GetOrderLockKey(m) \in owns[g]
                      /\ book[m] <= height[g] /\ height[g] <= event[m]
                      /\ \A n \in Market: Buys(n) \notin A
                    BY <1>1, <2>4, <3>3, <4>2 DEF Fits
                <5>2. i.do # "buys"
                    BY <1>1, <5>1, OperandOfTable DEF Buys
                <5>3. QED
                    BY <1>1, <2>1, <2>2, <3>1, <5>1, <5>2
            <4>3. QED
                BY <4>1, <4>2
        <3>4. QED
            BY <3>2, <3>3
    <2>5. ASSUME Rows \in B, Firsts \notin B
          PROVE  /\ List \notin B /\ Dates \notin B
                 /\ \A m \in list'[g]: first'[m] # 0 => dates'[g][m] < first'[m]
        <3>1. CASE i = Firsts
            <4>1. i.do = "firsts"
                BY <3>1 DEF Firsts, Do
            <4>2. List \notin B /\ Dates \notin B
                BY <1>1, <4>1 DEF Never, List, Dates, Do
            <4>3. list[g] \subseteq Market
                BY DEF ListenerInv, TypeOK
            <4>4. QED
                BY <1>3, <2>1, <4>1, <4>2, <4>3
        <3>2. CASE i # Firsts
            <4>1. /\ List \notin A /\ Dates \notin A
                  /\ \A m \in list[g]: first[m] # 0 => dates[g][m] < first[m]
                BY <1>1, <2>5, <3>2 DEF Fits
            <4>2. i.do \notin {"list", "dates", "firsts"}
                BY <1>1, <3>2, <4>1, OperandOfMarkets DEF List, Dates, Firsts
            <4>3. QED
                BY <1>1, <2>1, <4>1, <4>2
        <3>3. QED
            BY <3>1, <3>2
    <2>6. QED
        BY <1>2, <2>3, <2>4, <2>5 DEF Fits
<1>6. QED
    BY <1>4, <1>5

\* A step of g, after which the rest of its program is left, keeps all programs.
LEMMA DoneKeepsPrograms ==
    ASSUME ListenerInv, NEW g \in Goroutine, todo[g] # <<>>, Executes(g),
           todo' = [todo EXCEPT ![g] = Rest(todo[g])],
           \A h \in Goroutine \ {g}:
               /\ owns'[h] = owns[h] /\ list'[h] = list[h] /\ height'[h] = height[h]
                     /\ dates'[h] = dates[h]
               /\ markets' = markets \/ LockMarketsKey \notin owns[h]
               /\ \A m \in Market: book'[m] = book[m] \/ GetOrderLockKey(m) \notin owns[h]
    PROVE  todo' \in [Goroutine -> Seq(Parts)] /\ \A h \in Goroutine: ProgramOK(h)'
<1>1. /\ todo \in [Goroutine -> Seq(Parts)] /\ \A h \in Goroutine: ProgramOK(h)
      /\ \A m \in Market: event[m] \in Nat /\ event'[m] = event[m] /\ first'[m] = first[m]
      /\ \A h \in Goroutine: list[h] \subseteq Market /\ \A m \in Market: height[h] \in Nat
    BY ListenerAssumption DEF ListenerInv, TypeOK, Executes
<1>2. todo'[g] = Rest(todo[g]) /\ \A h \in Goroutine \ {g}: todo'[h] = todo[h]
    BY <1>1
<1>3. /\ Next1(g) = Lock(LockMarketsKey) => LockMarketsKey \in owns'[g]
      /\ Next1(g) # Unlock(LockMarketsKey) /\ LockMarketsKey \in owns[g]
            => LockMarketsKey \in owns'[g]
    <2>1. Next1(g) \in Instruction
        BY <1>1, TypeOfNext
    <2>2. CASE Next1(g).do \in {"lock", "unlock"}
        <3>1. Next1(g) = Do(Next1(g).do, Next1(g).on)
            BY <2>1, <2>2, OperandOfLock
        <3>2. QED
            BY <2>2, <3>1 DEF Executes, Lock, Unlock, Do
    <2>3. CASE Next1(g).do \notin {"lock", "unlock"}
        BY <2>3 DEF Executes, Lock, Unlock, Do
    <2>4. QED
        BY <2>2, <2>3
<1>4. /\ todo'[g] \in Seq(Parts)
      /\ \A j \in DOMAIN todo'[g]: j # 1 => Whole(todo'[g][j])
      /\ MapIsLocked(g)'
      /\ todo'[g] # <<>> =>
            \/ /\ Whole(todo'[g][1])
               /\ Map \in In(todo'[g][1]) =>
                    Lock(LockMarketsKey) \in In(todo'[g][1]) \/ LockMarketsKey \in owns'[g]
            \/ todo'[g][1] = Tail(todo[g][1])
    BY <1>1, <1>2, <1>3, AfterDone
<1>5. todo'[g] # <<>> => Fits(g, todo[g][1])'
    <2>1. CASE /\ Whole(todo'[g][1])
               /\ Map \in In(todo'[g][1]) =>
                    Lock(LockMarketsKey) \in In(todo'[g][1]) \/ LockMarketsKey \in owns'[g]
        BY <2>1 DEF Fits, Whole
    <2>2. CASE todo'[g][1] = Tail(todo[g][1])
        BY <2>2, RestFits
    <2>3. QED
        BY <1>4, <2>1, <2>2
<1>6. ProgramOK(g)'
    BY <1>4, <1>5 DEF ProgramOK
<1>7. ASSUME NEW h \in Goroutine, h # g
      PROVE  ProgramOK(h)'
    <2>1. /\ ProgramOK(h) /\ todo'[h] = todo[h] /\ owns'[h] = owns[h] /\ list'[h] = list[h]
          /\ height'[h] = height[h] /\ dates'[h] = dates[h]
          /\ markets' \subseteq markets \/ LockMarketsKey \notin owns[h]
          /\ \A m \in Market: book'[m] = book[m] \/ GetOrderLockKey(m) \notin owns[h]
        BY <1>1, <1>2, <1>7
    <2>2. /\ \A m \in Market: event[m] <= event'[m] /\ event[m] \in Nat /\ event'[m] \in Nat
                /\ height[h] \in Nat
          /\ \A m \in list[h]: first'[m] = first[m] \/ dates[h][m] < first'[m]
        BY <1>1
    <2>3. QED
        BY <2>1, <2>2, OthersKeepFitting
<1>8. todo' \in [Goroutine -> Seq(Parts)]
    BY <1>1, <1>2, <1>4
<1>9. QED
    BY <1>6, <1>7, <1>8

\* Nobody else has locked what g's next instruction writes under a lock.
LEMMA WritesAreLocked ==
    ASSUME ListenerInv, NEW g \in Goroutine, todo[g] # <<>>
    PROVE  /\ Next1(g).do = "map" =>
                /\ Next1(g) = Map /\ LockMarketsKey \in owns[g] /\ markets \subseteq list[g]
                /\ \A h \in Goroutine \ {g}: LockMarketsKey \notin owns[h]
           /\ Next1(g).do = "book" =>
                LET m == Next1(g).on
                IN  /\ m \in Market /\ GetOrderLockKey(m) \in owns[g]
                    /\ book[m] <= height[g] /\ height[g] <= event[m]
                    /\ \A h \in Goroutine \ {g}: GetOrderLockKey(m) \notin owns[h]
           /\ Next1(g).do = "rows" =>
                \A m \in list[g]: first[m] # 0 => dates[g][m] < first[m]
<1> DEFINE i == Next1(g)
           B == In(Tail(todo[g][1]))
<1>1. /\ i \in Instruction /\ In(todo[g][1]) = {i} \union B /\ \A b \in B: ~Never(i, b)
      /\ Fits(g, todo[g][1])
    BY TypeOfNext, TailOfPart DEF ListenerInv, ProgramOK
<1>2. \A h \in Goroutine \ {g}: owns[g] \intersect owns[h] = {}
    BY DEF ListenerInv, LockerInv, MutualExclusion
<1> HIDE DEF B
<1>3. ASSUME i.do = "map"
      PROVE  i = Map /\ LockMarketsKey \in owns[g] /\ markets \subseteq list[g]
    <2>1. i = Map
        BY <1>1, <1>3, OperandOfMarkets DEF Map
    <2>2. List \notin B
        BY <1>1, <1>3 DEF Never, List, Do
    <2>3. i # List
        BY <1>3 DEF List, Do
    <2>4. QED
        BY <1>1, <2>1, <2>2, <2>3 DEF Fits
<1>4. ASSUME i.do = "book"
      PROVE  /\ i.on \in Market /\ GetOrderLockKey(i.on) \in owns[g]
             /\ book[i.on] <= height[g] /\ height[g] <= event[i.on]
    <2>1. i.on \in Market /\ i = Book(i.on)
        BY <1>1, <1>4, OperandOfTable DEF Book
    <2>2. Buys(i.on) \notin B
        BY <1>1, <1>4 DEF Never, Buys, Do
    <2>3. i # Buys(i.on)
        BY <1>4 DEF Buys, Do
    <2>4. QED
        BY <1>1, <2>1, <2>2, <2>3 DEF Fits
<1>5. ASSUME i.do = "rows"
      PROVE  \A m \in list[g]: first[m] # 0 => dates[g][m] < first[m]
    <2>1. i = Rows
        BY <1>1, <1>5, OperandOfMarkets DEF Rows
    <2>2. Firsts \notin B
        BY <1>1, <1>5 DEF Never, Firsts, Do
    <2>3. i # Firsts
        BY <1>5 DEF Firsts, Do
    <2>4. QED
        BY <1>1, <2>1, <2>2, <2>3 DEF Fits
<1>6. QED
    BY <1>2, <1>3, <1>4, <1>5

\* The loop of initialSync is a program that needs nothing but the lock it has.
LEMMA LoopIsProgram ==
    ASSUME NEW n \in Nat, NEW order \in [1..n -> Market]
    PROVE  /\ SyncEach(order) \in Seq(Parts)
           /\ \A j \in DOMAIN SyncEach(order): Whole(SyncEach(order)[j])
                 /\ Map \notin In(SyncEach(order)[j])
<1> DEFINE loop == [k \in DOMAIN order |->
                      SyncHistory(order[k]) \o SyncMarket(order[k]) \o SyncIntervals(order[k])]
           last == <<Do("unlock", LockMarketsKey)>>
           end == <<last>>
<1>1. ASSUME NEW m \in Market
      PROVE  /\ SyncHistory(m) \o SyncMarket(m) \o SyncIntervals(m) \in Parts
             /\ Whole(SyncHistory(m) \o SyncMarket(m) \o SyncIntervals(m))
             /\ Map \notin In(SyncHistory(m) \o SyncMarket(m) \o SyncIntervals(m))
    <2>1. /\ Each(m) \in Parts
          /\ In(Each(m)) = In(SyncHistory(m)) \union In(SyncMarket(m)) \union In(SyncIntervals(m))
        BY EachPart
    <2>2. /\ Map \notin In(Each(m)) /\ Rows \notin In(Each(m))
          /\ \A k \in Market: Book(k) \in In(Each(m)) => k = m
          /\ Buys(m) \in In(Each(m)) /\ Lock(GetOrderLockKey(m)) \in In(Each(m))
        BY <2>1, HistoryPart, OrdersPart, IntervalsPart
        DEF Connection, Map, Rows, Book, Buys, Lock, Unlock, Do
    <2>3. QED
        BY <2>1, <2>2 DEF Each, Whole
<1>2. loop \in Seq(Parts) /\ Len(loop) = n /\ \A k \in 1..n: Whole(loop[k])
      /\ Map \notin In(loop[k])
    <2>1. DOMAIN order = 1..n /\ \A k \in 1..n: order[k] \in Market
        OBVIOUS
    <2>2. DOMAIN loop = 1..n /\ \A k \in 1..n: loop[k] \in Parts /\ Whole(loop[k])
          /\ Map \notin In(loop[k])
        BY <1>1, <2>1
    <2>3. loop \in [1..n -> Parts]
        BY <2>2
    <2> HIDE DEF loop
    <2>4. QED
        BY <2>2, <2>3
<1>3. last \in Parts /\ In(last) = {Unlock(LockMarketsKey)}
    BY KeysOfMarket, LocksAreInstructions, OneInstruction DEF Unlock
<1>4. Whole(last) /\ Map \notin In(last)
    BY <1>3 DEF Whole, Map, Rows, Book, Unlock, Do
<1>5. end \in Seq(Parts) /\ Len(end) = 1 /\ end[1] = last
    BY <1>3
<1>6. SyncEach(order) = loop \o end
    BY DEF SyncEach
<1> HIDE DEF loop, end, last
<1>7. /\ loop \o end \in Seq(Parts) /\ Len(loop \o end) = n + 1
      /\ \A j \in 1..(n + 1): (loop \o end)[j] = IF j <= n THEN loop[j] ELSE end[j - n]
    BY <1>2, <1>5, ConcatProperties
<1>8. ASSUME NEW j \in 1..(n + 1)
      PROVE  Whole((loop \o end)[j]) /\ Map \notin In((loop \o end)[j])
    <2>1. CASE j <= n
        BY <1>2, <1>7, <2>1
    <2>2. CASE ~(j <= n)
        <3>1. j - n = 1
            BY <2>2
        <3>2. QED
            BY <1>4, <1>5, <1>7, <2>2, <3>1
    <2>3. QED
        BY <2>1, <2>2
<1>9. QED
    BY <1>6, <1>7, <1>8, LenProperties

LEMMA HandlerPrograms ==
    ASSUME NEW e \in Event
    PROVE  /\ Program(e) \in Seq(Parts) /\ Program(e) # <<>>
           /\ \A j \in DOMAIN Program(e):
                /\ Whole(Program(e)[j])
                /\ Map \in In(Program(e)[j]) => Lock(LockMarketsKey) \in In(Program(e)[j])
<1>1. e.market \in Market /\ e.type \in EventType
    BY DEF Event
<1> DEFINE Fine == {part \in Parts: /\ Whole(part)
                                    /\ Map \in In(part) => Lock(LockMarketsKey) \in In(part)}
<1>2. SyncMarkets \in Fine /\ RefreshMarkets \in Fine
    BY MarketsPart, RefreshPart
    DEF Asking, Connection, Whole, Map, List, Rows, Firsts, Book, Lock, Unlock, Do
<1>3. SyncHistory(e.market) \in Fine
    BY <1>1, HistoryPart DEF Connection, Whole, Map, Rows, Book, Lock, Unlock, Do
<1>4. SyncIntervals(e.market) \in Fine
    BY <1>1, IntervalsPart DEF Whole, Map, Rows, Book, Lock, Unlock, Do
<1>5. SyncMarket(e.market) \in Fine
    BY <1>1, OrdersPart DEF Connection, Whole, Map, Rows, Book, Buys, Lock, Unlock, Do
<1> HIDE DEF Fine
<1>6. \/ Program(e) = <<SyncMarkets, RefreshMarkets>>
      \/ Program(e) = <<SyncHistory(e.market), SyncIntervals(e.market), SyncMarket(e.market)>>
      \/ Program(e) = <<SyncMarket(e.market)>>
    BY <1>1 DEF Program, EventType, OrderExecuted
<1>7. Program(e) \in Seq(Fine) /\ Program(e) # <<>>
    <2>1. ASSUME NEW a \in Fine, NEW b \in Fine, NEW c \in Fine
          PROVE  /\ <<a>> \in Seq(Fine) /\ <<a, b>> \in Seq(Fine) /\ <<a, b, c>> \in Seq(Fine)
                 /\ <<a>> # <<>> /\ <<a, b>> # <<>> /\ <<a, b, c>> # <<>>
        OBVIOUS
    <2>2. QED
        BY <1>2, <1>3, <1>4, <1>5, <1>6, <2>1
<1>8. \A j \in DOMAIN Program(e): Program(e)[j] \in Fine
    BY <1>7
<1>9. Fine \subseteq Parts
    BY DEF Fine
<1>10. Program(e) \in Seq(Parts)
    BY <1>7, <1>9, SeqMonotonic
<1>11. QED
    BY <1>7, <1>8, <1>10 DEF Fine

-----------------------------------------------------------------------------
(* Every action keeps the programs. *)

ProgramsOK ==
    /\ todo \in [Goroutine -> Seq(Parts)]
    /\ \A g \in Goroutine: InTheLocker(g) /\ ProgramOK(g)

LEMMA CallKeepsPrograms ==
    ASSUME ListenerInv, NEW g \in Goroutine, Call(g)
    PROVE  ProgramsOK'
<1>1. /\ TypeOK /\ todo \in [Goroutine -> Seq(Parts)] /\ \A h \in Goroutine: InTheLocker(h)
    BY DEF ListenerInv
<1>2. /\ running /\ pc[g] = "run" /\ todo[g] # <<>>
      /\ UNCHANGED <<lockerVars, chainVars, running>>
    BY DEF Call, Runs, StoreHistory, StoreIntervals, GetBuys, StoreBook, GetAllMarkets, DateMarkets,
           AskFirstTrades, StoreMarkets, StoreMap
<1>3. UNCHANGED <<owns, pc, key, event, first, created>>
    BY <1>2 DEF lockerVars, chainVars
<1>4. /\ list \in [Goroutine -> SUBSET Market] /\ dates \in [Goroutine -> [Market -> 0..MaxEvents]]
      /\ height \in [Goroutine -> 0..MaxEvents] /\ book \in [Market -> 0..MaxEvents]
    BY <1>1 DEF TypeOK
<1>5. ASSUME todo' = [todo EXCEPT ![g] = Rest(todo[g])], Executes(g),
             \A h \in Goroutine \ {g}: list'[h] = list[h] /\ height'[h] = height[h]
                   /\ dates'[h] = dates[h],
             markets' = markets \/ Next1(g).do = "map",
             book' = book \/ (Next1(g).do = "book" /\ book' = [book EXCEPT ![Next1(g).on] = height[g]])
      PROVE  ProgramsOK'
    <2>1. \A h \in Goroutine \ {g}: markets' = markets \/ LockMarketsKey \notin owns[h]
        BY <1>2, <1>5, WritesAreLocked
    <2>2. \A h \in Goroutine \ {g}: \A m \in Market: book'[m] = book[m]
          \/ GetOrderLockKey(m) \notin owns[h]
        BY <1>2, <1>4, <1>5, WritesAreLocked
    <2>3. \A h \in Goroutine \ {g}: owns'[h] = owns[h]
        BY <1>3
    <2>4. todo' \in [Goroutine -> Seq(Parts)] /\ \A h \in Goroutine: ProgramOK(h)'
        BY <1>2, <1>5, <2>1, <2>2, <2>3, DoneKeepsPrograms
    <2>5. \A h \in Goroutine: InTheLocker(h)'
        BY <1>1, <1>2, <1>3, <1>5 DEF InTheLocker, Next1
    <2>6. QED
        BY <2>4, <2>5 DEF ProgramsOK
<1>6. CASE StoreHistory(g) \/ StoreIntervals(g)
    BY <1>3, <1>5, <1>6 DEF StoreHistory, StoreIntervals, Runs, Done, GoOn, Executes, Forgetting
<1>7. CASE GetBuys(g)
    BY <1>3, <1>4, <1>5, <1>7 DEF GetBuys, Runs, Done, GoOn, Executes, Forgetting, tables
<1>8. CASE StoreBook(g)
    BY <1>3, <1>4, <1>5, <1>8 DEF StoreBook, Runs, Done, GoOn, Forget, Executes, Forgetting
<1>9. CASE GetAllMarkets(g)
    BY <1>3, <1>4, <1>5, <1>9 DEF GetAllMarkets, Runs, Done, GoOn, Executes, Forgetting, tables
<1>10. CASE DateMarkets(g)
    BY <1>3, <1>4, <1>5, <1>10 DEF DateMarkets, Runs, Done, GoOn, Executes, Forgetting, tables
<1>11. CASE AskFirstTrades(g)
    BY <1>3, <1>4, <1>5, <1>11 DEF AskFirstTrades, Runs, Done, GoOn, Executes, Forgetting, tables
<1>12. CASE StoreMarkets(g)
    BY <1>3, <1>4, <1>5, <1>12 DEF StoreMarkets, Runs, Done, GoOn, Forget, Executes, Forgetting
<1>13. CASE StoreMap(g) /\ Done(g)
    BY <1>3, <1>4, <1>5, <1>13 DEF StoreMap, Runs, Done, GoOn, Forget, Executes, Forgetting, tables
<1>14. CASE StoreMap(g) /\ ~Done(g)
    <2>1. PICK order \in [1..Cardinality(list[g]) -> list[g]]: GoOn(g, SyncEach(order))
        BY <1>14 DEF StoreMap
    <2>2. Cardinality(list[g]) \in Nat
        BY FS_Subset, FS_CardinalityType DEF ListenerInv, NothingIsNewer
    <2>3. order \in [1..Cardinality(list[g]) -> Market]
        BY <1>4, <2>1
    <2>4. /\ todo' = [todo EXCEPT ![g] = SyncEach(order)]
          /\ SyncEach(order) \in Seq(Parts)
          /\ \A j \in DOMAIN SyncEach(order):
               Whole(SyncEach(order)[j]) /\ Map \notin In(SyncEach(order)[j])
        BY <2>1, <2>2, <2>3, LoopIsProgram DEF GoOn
    <2>5. todo' \in [Goroutine -> Seq(Parts)] /\ todo'[g] = SyncEach(order)
        BY <1>1, <2>4
    <2>6. ProgramOK(g)'
        <3>1. todo'[g] # <<>> => 1 \in DOMAIN todo'[g]
            BY <2>4, <2>5, LenProperties, EmptySeq
        <3>2. todo'[g] # <<>> => Fits(g, todo[g][1])'
            BY <2>4, <2>5, <3>1 DEF Fits, Whole
        <3>3. MapIsLocked(g)'
            BY <2>4, <2>5 DEF MapIsLocked
        <3>4. QED
            BY <2>4, <2>5, <3>2, <3>3 DEF ProgramOK
    <2>7. ASSUME NEW h \in Goroutine, h # g
          PROVE  ProgramOK(h)'
        <3>1. /\ todo'[h] = todo[h] /\ owns'[h] = owns[h] /\ list'[h] = list[h]
              /\ height'[h] = height[h] /\ dates'[h] = dates[h] /\ book' = book
            BY <1>1, <1>3, <1>4, <1>14, <2>4, <2>7 DEF StoreMap, Forget, tables
        <3>2. LockMarketsKey \notin owns[h]
            BY <1>2, <1>14, <2>7, WritesAreLocked DEF StoreMap, Runs
        <3>3. \A m \in Market: event[m] \in Nat /\ event'[m] = event[m] /\ height[h] \in Nat
              /\ first'[m] = first[m]
            BY <1>1, <1>3, <1>4, ListenerAssumption DEF TypeOK
        <3>4. ProgramOK(h) /\ list[h] \subseteq Market
            BY <1>4 DEF ListenerInv
        <3>5. QED
            BY <3>1, <3>2, <3>3, <3>4, OthersKeepFitting
    <2>8. \A h \in Goroutine: InTheLocker(h)'
        BY <1>1, <1>2, <1>3, <2>4 DEF InTheLocker, Next1
    <2>9. QED
        BY <2>5, <2>6, <2>7, <2>8 DEF ProgramsOK
<1>15. QED
    BY <1>6, <1>7, <1>8, <1>9, <1>10, <1>11, <1>12, <1>13, <1>14 DEF Call

LEMMA LockKeepsPrograms ==
    ASSUME ListenerInv, NEW g \in Goroutine, AcquireLock(g) \/ ReleaseLock(g)
    PROVE  ProgramsOK'
<1>1. /\ TypeOK /\ LockerTypeOK /\ todo \in [Goroutine -> Seq(Parts)]
      /\ \A h \in Goroutine: InTheLocker(h) /\ ProgramOK(h)
    BY DEF ListenerInv, LockerInv
<1>2. /\ running
      /\ UNCHANGED <<chainVars, markets, book, list, dates, height, running>>
    BY DEF AcquireLock, ReleaseLock, Runs, local, tables
<1>3. UNCHANGED <<event, first>>
    BY <1>2 DEF chainVars
<1>4. ASSUME UNCHANGED <<owns, todo>>, Runs(g, "lock") \/ Runs(g, "unlock"),
             pc' = [pc EXCEPT ![g] = Next1(g).do], key' = [key EXCEPT ![g] = Next1(g).on]
      PROVE  ProgramsOK'
    <2>1. ASSUME NEW h \in Goroutine
          PROVE  ProgramOK(h)'
        BY <1>1, <1>2, <1>3, <1>4 DEF ProgramOK, Fits, MapIsLocked
    <2>2. todo[g] # <<>> /\ Next1(g).do \in {"lock", "unlock"}
        BY <1>4 DEF Runs
    <2>3. Next1(g) = Do(Next1(g).do, Next1(g).on) /\ Next1(g)' = Next1(g)
        BY <1>1, <1>4, <2>2, TypeOfNext, OperandOfLock DEF Next1
    <2>4. ASSUME NEW h \in Goroutine
          PROVE  InTheLocker(h)'
        BY <1>1, <1>2, <1>4, <2>2, <2>3 DEF InTheLocker, LockerTypeOK, Next1
    <2>5. QED
        BY <1>1, <1>4, <2>1, <2>4 DEF ProgramsOK
<1>5. ASSUME pc[g] # "run", Done(g), Next1(g).do = pc[g],
             pc' = [pc EXCEPT ![g] = "run"], key' = [key EXCEPT ![g] = None],
             owns' = [owns EXCEPT ![g] = IF pc[g] = "lock" THEN @ \union {key[g]} ELSE @ \ {key[g]}],
             pc[g] \in {"lock", "unlock"}
      PROVE  ProgramsOK'
    <2>1. todo[g] # <<>> /\ Next1(g) = Do(pc[g], key[g])
        BY <1>1, <1>2, <1>5 DEF InTheLocker
    <2>2. Executes(g)
        <3>1. Next1(g).on = key[g]
            BY <2>1 DEF Do
        <3>2. owns'[g] = IF pc[g] = "lock" THEN owns[g] \union {key[g]} ELSE owns[g] \ {key[g]}
            BY <1>1, <1>5 DEF LockerTypeOK
        <3>3. QED
            BY <1>2, <1>3, <1>5, <3>1, <3>2 DEF Executes
    <2>3. todo' = [todo EXCEPT ![g] = Rest(todo[g])]
        BY <1>5 DEF Done, GoOn
    <2>4. \A h \in Goroutine \ {g}:
              /\ owns'[h] = owns[h] /\ list'[h] = list[h] /\ height'[h] = height[h]
                    /\ dates'[h] = dates[h]
              /\ markets' = markets /\ book' = book
        BY <1>1, <1>2, <1>5 DEF LockerTypeOK
    <2>5. todo' \in [Goroutine -> Seq(Parts)] /\ \A h \in Goroutine: ProgramOK(h)'
        BY <2>1, <2>2, <2>3, <2>4, DoneKeepsPrograms
    <2>6. ASSUME NEW h \in Goroutine
          PROVE  InTheLocker(h)'
        BY <1>1, <1>2, <1>5, <2>3 DEF InTheLocker, LockerTypeOK, Next1
    <2>7. QED
        BY <2>5, <2>6 DEF ProgramsOK
<1>6. CASE Runs(g, "lock") /\ FindForLock(g, Next1(g).on) /\ UNCHANGED todo
    BY <1>4, <1>6 DEF FindForLock, Runs
<1>7. CASE Runs(g, "unlock") /\ FindForUnlock(g, Next1(g).on) /\ UNCHANGED todo
    BY <1>4, <1>7 DEF FindForUnlock, Runs
<1>8. CASE LockMutex(g) /\ Done(g)
    <2>1. pc[g] = "lock" /\ Next1(g) = Do("lock", key[g])
        BY <1>1, <1>2, <1>8 DEF LockMutex, InTheLocker
    <2>2. QED
        BY <1>5, <1>8, <2>1 DEF LockMutex, Returns, Do
<1>9. CASE UnlockMutex(g) /\ Done(g)
    <2>1. pc[g] = "unlock" /\ Next1(g) = Do("unlock", key[g])
        BY <1>1, <1>2, <1>9 DEF UnlockMutex, InTheLocker
    <2>2. QED
        BY <1>5, <1>9, <2>1 DEF UnlockMutex, Returns, Do
<1>10. QED
    BY <1>6, <1>7, <1>8, <1>9 DEF AcquireLock, ReleaseLock

\* Steps that run no instruction of a program.
LEMMA FailureKeepsPrograms ==
    ASSUME ListenerInv, NEW g \in Goroutine, CallFails(g) \/ MapFails(g)
    PROVE  ProgramsOK'
<1>1. /\ TypeOK /\ todo \in [Goroutine -> Seq(Parts)]
      /\ \A h \in Goroutine: InTheLocker(h) /\ ProgramOK(h)
    BY DEF ListenerInv
<1>2. /\ running /\ todo[g] # <<>> /\ pc[g] = "run" /\ Next1(g).do \notin {"lock", "unlock"}
      /\ todo' = [todo EXCEPT ![g] = Deferred(g)]
      /\ UNCHANGED <<lockerVars, chainVars, book>>
      /\ markets' \subseteq markets
      /\ running' \in BOOLEAN
    BY <1>1 DEF CallFails, MapFails, Runs, TypeOK, tables
<1>3. UNCHANGED <<owns, pc, key, event, first, book>>
    BY <1>2 DEF lockerVars, chainVars
<1>4. \A h \in Goroutine \ {g}: list'[h] = list[h] /\ height'[h] = height[h] /\ dates'[h] = dates[h]
    BY <1>1 DEF CallFails, MapFails, Forget, TypeOK
<1>5. todo'[g] \in Seq(Parts) /\ ProgramOK(g)'
    BY <1>1, <1>2, <1>3, AfterFailure
<1>6. ASSUME NEW h \in Goroutine, h # g
      PROVE  ProgramOK(h)'
    <2>1. \A m \in Market: event[m] \in Nat /\ height[h] \in Nat
        BY <1>1, ListenerAssumption DEF TypeOK
    <2>2. todo'[h] = todo[h] /\ owns'[h] = owns[h]
        BY <1>1, <1>2, <1>3, <1>6
    <2>3. \A m \in Market: event[m] <= event'[m] /\ event'[m] \in Nat
        BY <1>3, <2>1
    <2>4. QED
        BY <1>1, <1>2, <1>3, <1>4, <1>6, <2>1, <2>2, <2>3, OthersKeepFitting
<1>7. ASSUME NEW h \in Goroutine
      PROVE  InTheLocker(h)'
    BY <1>1, <1>2, <1>3 DEF InTheLocker, Next1
<1>8. QED
    BY <1>1, <1>2, <1>5, <1>6, <1>7 DEF ProgramsOK

LEMMA EmitKeepsPrograms ==
    ASSUME ListenerInv, NEW type \in EventType, NEW m \in Market, NEW stream \in Stream,
           Emit(type, m, stream)
    PROVE  ProgramsOK'
<1>1. /\ TypeOK /\ NothingIsNewer /\ todo \in [Goroutine -> Seq(Parts)]
      /\ \A h \in Goroutine: InTheLocker(h) /\ ProgramOK(h)
    BY DEF ListenerInv
<1>2. UNCHANGED <<lockerVars, todo, local, markets, tables, running>>
    BY DEF Emit
<1>3. UNCHANGED <<owns, pc, key, list, dates, height, book>>
    BY <1>2 DEF lockerVars, local, tables
<1>4. \A k \in Market: /\ event[k] \in Nat /\ first[k] \in Nat /\ emitted \in Nat
                       /\ event[k] <= emitted
                       /\ event'[k] \in {event[k], emitted + 1}
                       /\ first'[k] = first[k] \/ first'[k] = emitted + 1
    BY <1>1, ListenerAssumption DEF TypeOK, NothingIsNewer, Emit
<1>5. ASSUME NEW h \in Goroutine
      PROVE  ProgramOK(h)'
    <2>1. \A k \in Market: event[k] <= event'[k] /\ event'[k] \in Nat /\ height[h] \in Nat
        <3>1. height[h] \in Nat
            BY <1>1, ListenerAssumption DEF TypeOK
        <3>2. \A k \in Market: event'[k] = event[k] \/ event'[k] = emitted + 1
            BY <1>4
        <3>3. QED
            BY <1>4, <3>1, <3>2
    <2>2. list[h] \subseteq Market /\ \A k \in Market: dates[h][k] <= emitted /\ dates[h][k] \in Nat
        BY <1>1, ListenerAssumption DEF TypeOK, NothingIsNewer
    <2>3. \A k \in list[h]: first'[k] = first[k] \/ dates[h][k] < first'[k]
        BY <1>4, <2>2
    <2>4. QED
        BY <1>1, <1>2, <1>3, <1>4, <2>1, <2>3, OthersKeepFitting
<1>6. ASSUME NEW h \in Goroutine
      PROVE  InTheLocker(h)'
    BY <1>1, <1>2, <1>3 DEF InTheLocker, Next1
<1>7. QED
    BY <1>1, <1>2, <1>5, <1>6 DEF ProgramsOK

LEMMA HandleKeepsPrograms ==
    ASSUME ListenerInv, NEW g \in Handler, Listen(g)
    PROVE  ProgramsOK'
<1>1. /\ TypeOK /\ LockerInv /\ todo \in [Goroutine -> Seq(Parts)]
      /\ \A h \in Goroutine: InTheLocker(h) /\ ProgramOK(h)
    BY DEF ListenerInv
<1>2. PICK e \in pending: HandleMessage(g, e)
    BY DEF Listen
<1>3. /\ e \in Event /\ g \in Goroutine /\ todo[g] = <<>> /\ running
      /\ todo' \in {todo, [todo EXCEPT ![g] = Program(e)]}
      /\ UNCHANGED <<lockerVars, event, first, markets, book, list, dates, height, running>>
    BY <1>1, <1>2 DEF TypeOK, HandleMessage, Handler, chainVars, tables
<1>4. UNCHANGED <<owns, pc, key>>
    BY <1>3 DEF lockerVars
<1>5. CASE todo' = todo
    BY <1>1, <1>3, <1>4, <1>5 DEF ProgramsOK, InTheLocker, Next1, ProgramOK, Fits, MapIsLocked
<1>6. CASE todo' = [todo EXCEPT ![g] = Program(e)]
    <2>1. /\ Program(e) \in Seq(Parts) /\ Program(e) # <<>>
          /\ \A j \in DOMAIN Program(e):
               /\ Whole(Program(e)[j])
               /\ Map \in In(Program(e)[j]) => Lock(LockMarketsKey) \in In(Program(e)[j])
        BY <1>3, HandlerPrograms
    <2>2. todo'[g] = Program(e) /\ todo' \in [Goroutine -> Seq(Parts)] /\ 1 \in DOMAIN Program(e)
        BY <1>1, <1>3, <1>6, <2>1, LenProperties, EmptySeq
    <2>3. ProgramOK(g)'
        <3>1. Fits(g, todo[g][1])'
            BY <2>1, <2>2 DEF Fits, Whole
        <3>2. MapIsLocked(g)'
            BY <2>1, <2>2 DEF MapIsLocked
        <3>3. QED
            BY <2>1, <2>2, <3>1, <3>2 DEF ProgramOK
    <2>4. ASSUME NEW h \in Goroutine, h # g
          PROVE  ProgramOK(h)' /\ InTheLocker(h)'
        <3>1. todo'[h] = todo[h]
            BY <1>1, <1>6, <2>4
        <3>2. QED
            BY <1>1, <1>3, <1>4, <3>1 DEF InTheLocker, Next1, ProgramOK, Fits, MapIsLocked
    <2>5. InTheLocker(g)'
        BY <1>1, <1>3, <1>4 DEF InTheLocker
    <2>6. QED
        BY <2>2, <2>3, <2>4, <2>5 DEF ProgramsOK
<1>7. QED
    BY <1>3, <1>5, <1>6

LEMMA NextKeepsPrograms == ListenerInv /\ [Next]_vars => ProgramsOK'
<1> SUFFICES ASSUME ListenerInv, [Next]_vars
             PROVE  ProgramsOK'
    OBVIOUS
<1>1. CASE Stop
    <2>1. todo' = [g \in Goroutine |-> <<>>] /\ running' = FALSE
        BY <1>1 DEF Stop
    <2>2. <<>> \in Seq(Parts)
        OBVIOUS
    <2>3. QED
        BY <2>1, <2>2 DEF ProgramsOK, InTheLocker, ProgramOK, MapIsLocked
<1>2. ASSUME NEW stream \in Stream, Subscribe(stream)
      PROVE  ProgramsOK'
    BY <1>2 DEF Subscribe, lockerVars, chainVars, tables, local, ListenerInv,
                ProgramsOK, InTheLocker, Next1, ProgramOK, Fits, MapIsLocked
<1>3. CASE UNCHANGED vars
    BY <1>3 DEF vars, lockerVars, chainVars, tables, local, ListenerInv,
                ProgramsOK, InTheLocker, Next1, ProgramOK, Fits, MapIsLocked
<1>4. QED
    BY <1>1, <1>2, <1>3, CallKeepsPrograms, LockKeepsPrograms, FailureKeepsPrograms,
       EmitKeepsPrograms, HandleKeepsPrograms DEF Next, Run

-----------------------------------------------------------------------------
(* Types. *)

\* A call changes its tables and what its goroutine has got.
LEMMA CallKeepsTypes ==
    ASSUME ListenerInv, NEW g \in Goroutine, Call(g), LockerTypeOK'
    PROVE  TypeOK'
<1>1. /\ TypeOK /\ running /\ todo[g] # <<>>
      /\ UNCHANGED <<created, emitted, event, trade, first, bare, pending, subscribed, running,
                     missed, faults>>
    BY DEF ListenerInv, Call, Runs, StoreHistory, StoreIntervals, GetBuys, StoreBook, GetAllMarkets,
           DateMarkets, AskFirstTrades, StoreMarkets, StoreMap, chainVars
<1>2. Next1(g) \in Instruction
    BY <1>1, TypeOfNext DEF ListenerInv
<1>3. /\ created \subseteq Market /\ markets \subseteq Market /\ rows \subseteq Market
      /\ emitted \in 0..MaxEvents /\ MaxEvents \in Nat \ {0}
      /\ event \in [Market -> 0..MaxEvents] /\ trade \in [Market -> 0..MaxEvents]
      /\ first \in [Market -> 0..MaxEvents]
      /\ createdAt \in [Market -> 0..MaxEvents] /\ history \in [Market -> 0..MaxEvents]
      /\ intervals \in [Market -> 0..MaxEvents] /\ book \in [Market -> 0..MaxEvents]
      /\ list \in [Goroutine -> SUBSET Market] /\ dates \in [Goroutine -> [Market -> 0..MaxEvents]]
      /\ height \in [Goroutine -> 0..MaxEvents] /\ hasBuys \in [Goroutine -> BOOLEAN]
      /\ handles \in [Goroutine -> Event \union {NoEvent}]
    BY <1>1, ListenerAssumption DEF TypeOK
<1>4. handles' \in [Goroutine -> Event \union {NoEvent}]
    BY <1>3 DEF Call, StoreHistory, StoreIntervals, GetBuys, StoreBook, GetAllMarkets, DateMarkets,
                AskFirstTrades, StoreMarkets, StoreMap, Done, GoOn
<1> DEFINE Typed == /\ markets' \subseteq Market /\ rows' \subseteq Market
                    /\ createdAt' \in [Market -> 0..MaxEvents]
                          /\ history' \in [Market -> 0..MaxEvents]
                    /\ intervals' \in [Market -> 0..MaxEvents] /\ book' \in [Market -> 0..MaxEvents]
                    /\ list' \in [Goroutine -> SUBSET Market]
                    /\ dates' \in [Goroutine -> [Market -> 0..MaxEvents]]
                    /\ height' \in [Goroutine -> 0..MaxEvents]
                    /\ hasBuys' \in [Goroutine -> BOOLEAN]
<1>5. ASSUME StoreHistory(g)
      PROVE  Typed
    <2>1. Next1(g).on \in Market
        BY <1>2, <1>5, OperandOfTable DEF StoreHistory, Runs
    <2>2. QED
        BY <1>3, <1>5, <2>1 DEF StoreHistory
<1>6. ASSUME StoreIntervals(g)
      PROVE  Typed
    <2>1. Next1(g).on \in Market
        BY <1>2, <1>6, OperandOfTable DEF StoreIntervals, Runs
    <2>2. QED
        BY <1>3, <1>6, <2>1 DEF StoreIntervals
<1>7. ASSUME GetBuys(g)
      PROVE  Typed
    <2>1. Next1(g).on \in Market
        BY <1>2, <1>7, OperandOfTable DEF GetBuys, Runs
    <2>2. QED
        BY <1>3, <1>7, <2>1 DEF GetBuys, tables, Empty
<1>8. ASSUME StoreBook(g)
      PROVE  Typed
    <2>1. height[g] \in 0..MaxEvents /\ 0 \in 0..MaxEvents
        BY <1>3
    <2>2. NoDates \in [Market -> 0..MaxEvents]
        BY <2>1 DEF NoDates
    <2>3. book' \in [Market -> 0..MaxEvents]
        BY <1>3, <1>8, <2>1 DEF StoreBook
    <2>4. UNCHANGED <<rows, createdAt, history, intervals, markets>>
        BY <1>8 DEF StoreBook
    <2>5. /\ list' \in [Goroutine -> SUBSET Market] /\ height' \in [Goroutine -> 0..MaxEvents]
          /\ dates' \in [Goroutine -> [Market -> 0..MaxEvents]]
          /\ hasBuys' \in [Goroutine -> BOOLEAN]
        BY <1>3, <1>8, <2>1, <2>2 DEF StoreBook, Forget
    <2>6. QED
        BY <1>3, <2>3, <2>4, <2>5
<1>9. ASSUME GetAllMarkets(g)
      PROVE  Typed
    BY <1>3, <1>9 DEF GetAllMarkets, tables
<1>10. ASSUME DateMarkets(g)
      PROVE  Typed
    <2>1. [m \in Market |-> IF m \in list[g] THEN emitted ELSE 0] \in [Market -> 0..MaxEvents]
        BY <1>3
    <2>2. QED
        BY <1>3, <1>10, <2>1 DEF DateMarkets, tables
<1>11. ASSUME AskFirstTrades(g)
      PROVE  Typed
    <2>1. \A m \in Market: first[m] # 0 => first[m] - 1 \in 0..MaxEvents
        <3>1. \A m \in Market: first[m] \in 0..MaxEvents
            BY <1>3
        <3>2. \A n \in 0..MaxEvents: n # 0 => n - 1 \in 0..MaxEvents
            BY <1>3
        <3>3. QED
            BY <3>1, <3>2
    <2>2. [m \in Market |-> IF m \in list[g] /\ first[m] # 0 THEN first[m] - 1 ELSE dates[g][m]]
              \in [Market -> 0..MaxEvents]
        BY <1>3, <2>1
    <2>3. QED
        BY <1>3, <1>11, <2>2 DEF AskFirstTrades, tables
<1>12. ASSUME StoreMarkets(g)
      PROVE  Typed
    BY <1>3, <1>12 DEF StoreMarkets, Forget, NoDates
<1>13. ASSUME StoreMap(g)
      PROVE  Typed
    BY <1>3, <1>13 DEF StoreMap, Forget, NoDates, tables
<1>14. Typed
    BY <1>5, <1>6, <1>7, <1>8, <1>9, <1>10, <1>11, <1>12, <1>13 DEF Call
<1>15. QED
    BY <1>1, <1>4, <1>14 DEF TypeOK

LEMMA NextKeepsTypes == ListenerInv /\ [Next]_vars /\ LockerTypeOK' => TypeOK'
<1> SUFFICES ASSUME ListenerInv, [Next]_vars, LockerTypeOK'
             PROVE  TypeOK'
    OBVIOUS
<1>1. TypeOK /\ MaxEvents \in Nat \ {0} /\ MaxFaults \in Nat
    BY ListenerAssumption DEF ListenerInv
<1>2. ASSUME NEW g \in Goroutine, AcquireLock(g) \/ ReleaseLock(g)
      PROVE  TypeOK'
    BY <1>1, <1>2 DEF TypeOK, AcquireLock, ReleaseLock, Done, GoOn, chainVars, tables, local
<1>3. ASSUME NEW g \in Goroutine, CallFails(g)
      PROVE  TypeOK'
    <2>1. \A m \in Market: missed[m] \in 0..MaxEvents /\ event[m] \in 0..MaxEvents
        BY <1>1 DEF TypeOK
    <2>2. handles[g] # NoEvent => handles[g].number \in 0..MaxEvents
        BY <1>1 DEF TypeOK, Event
    <2>3. missed' \in [Market -> 0..MaxEvents]
        BY <1>3, <2>1, <2>2 DEF CallFails, Later
    <2>4. faults' \in 0..MaxFaults
        BY <1>1, <1>3 DEF CallFails, TypeOK
    <2>5. /\ handles' \in [Goroutine -> Event \union {NoEvent}]
          /\ list' \in [Goroutine -> SUBSET Market]
          /\ height' \in [Goroutine -> 0..MaxEvents]
          /\ hasBuys' \in [Goroutine -> BOOLEAN]
        BY <1>1, <1>3 DEF CallFails, TypeOK, Forget
    <2>6. dates' \in [Goroutine -> [Market -> 0..MaxEvents]]
        BY <1>1, <1>3 DEF CallFails, TypeOK, Forget, NoDates
    <2>7. /\ UNCHANGED <<chainVars, pending, subscribed, markets, running>>
          /\ UNCHANGED <<rows, createdAt, intervals, book>>
        BY <1>3 DEF CallFails
    <2>8. history' \in [Market -> 0..MaxEvents]
        <3>1. history \in [Market -> 0..MaxEvents] /\ trade \in [Market -> 0..MaxEvents]
            BY <1>1 DEF TypeOK
        <3>2. CASE history' = history
            BY <3>1, <3>2
        <3>3. CASE /\ Runs(g, "history")
                   /\ history' = [history EXCEPT ![Next1(g).on] = trade[Next1(g).on]]
            <4>1. Next1(g).on \in Market
                <5>1. todo[g] # <<>> /\ Next1(g).do = "history"
                    BY <3>3 DEF Runs
                <5>2. Next1(g) \in Instruction
                    BY <5>1, TypeOfNext DEF ListenerInv
                <5>3. QED
                    BY <5>1, <5>2, OperandOfTable
            <4>2. QED
                BY <3>1, <3>3, <4>1
        <3>4. QED
            BY <1>3, <3>2, <3>3 DEF CallFails
    <2>9. QED
        BY <1>1, <2>3, <2>4, <2>5, <2>6, <2>7, <2>8 DEF TypeOK, chainVars
<1>4. ASSUME NEW g \in Goroutine, MapFails(g)
      PROVE  TypeOK'
    <2>1. faults' \in 0..MaxFaults /\ markets' = {} /\ running' \in BOOLEAN
        BY <1>1, <1>4 DEF MapFails, TypeOK
    <2>2. /\ handles' \in [Goroutine -> Event \union {NoEvent}]
          /\ list' \in [Goroutine -> SUBSET Market]
          /\ height' \in [Goroutine -> 0..MaxEvents]
          /\ hasBuys' \in [Goroutine -> BOOLEAN]
        BY <1>1, <1>4 DEF MapFails, TypeOK, Forget
    <2>3. dates' \in [Goroutine -> [Market -> 0..MaxEvents]]
        BY <1>1, <1>4 DEF MapFails, TypeOK, Forget, NoDates
    <2>4. UNCHANGED <<chainVars, pending, subscribed, tables, missed>>
        BY <1>4 DEF MapFails
    <2>5. QED
        BY <1>1, <2>1, <2>2, <2>3, <2>4 DEF TypeOK, chainVars, tables
<1>5. ASSUME NEW g \in Handler, Listen(g)
      PROVE  TypeOK'
    <2>1. PICK e \in pending: HandleMessage(g, e)
        BY <1>5 DEF Listen
    <2>2. e \in Event /\ e.number \in 0..MaxEvents
        BY <1>1, <2>1 DEF TypeOK, Event
    <2>3. missed' \in [Market -> 0..MaxEvents]
        BY <1>1, <2>1, <2>2 DEF TypeOK, HandleMessage, Later
    <2>4. handles' \in [Goroutine -> Event \union {NoEvent}]
        BY <1>1, <2>1, <2>2 DEF TypeOK, HandleMessage
    <2>5. pending' \subseteq Event
        BY <1>1, <2>1 DEF TypeOK, HandleMessage
    <2>6. UNCHANGED <<chainVars, subscribed, markets, tables, list, dates, height, hasBuys,
                      running, faults>>
        BY <2>1 DEF HandleMessage
    <2>7. QED
        BY <1>1, <2>3, <2>4, <2>5, <2>6 DEF TypeOK, chainVars, tables
<1>6. ASSUME NEW type \in EventType, NEW m \in Market, NEW stream \in Stream, Emit(type, m, stream)
      PROVE  TypeOK'
    <2>1. emitted + 1 \in 1..MaxEvents /\ emitted' = emitted + 1
        BY <1>1, <1>6 DEF TypeOK, Emit
    <2>2. [type |-> type, market |-> m, number |-> emitted + 1] \in Event
        BY <2>1 DEF Event
    <2>3. pending' \subseteq Event
        BY <1>1, <1>6, <2>2 DEF TypeOK, Emit
    <2>4. /\ event' \in [Market -> 0..MaxEvents] /\ trade' \in [Market -> 0..MaxEvents]
          /\ first' \in [Market -> 0..MaxEvents] /\ missed' \in [Market -> 0..MaxEvents]
        BY <1>1, <1>6, <2>1 DEF TypeOK, Emit
    <2>5. created' \subseteq Market
        BY <1>1, <1>6 DEF TypeOK, Emit
    <2>6. UNCHANGED <<subscribed, markets, tables, local, running, faults>>
        BY <1>6 DEF Emit
    <2>7. bare' \in [Side -> [Market -> 0..MaxEvents]]
        <3>1. bare \in [Side -> [Market -> 0..MaxEvents]]
            BY <1>1 DEF TypeOK
        <3>2. CASE bare' = bare
            BY <3>1, <3>2
        <3>3. ASSUME NEW left,
                     bare' = [s \in Side |-> IF s \in left THEN [bare[s] EXCEPT ![m] = emitted + 1]
                                            ELSE bare[s]]
              PROVE  bare' \in [Side -> [Market -> 0..MaxEvents]]
            BY <1>1, <2>1, <3>1, <3>3
        <3>4. QED
            BY <1>6, <3>2, <3>3 DEF Emit
    <2>8. QED
        BY <1>1, <2>1, <2>3, <2>4, <2>5, <2>6, <2>7 DEF TypeOK, tables, local
<1>7. ASSUME NEW stream \in Stream, Subscribe(stream)
      PROVE  TypeOK'
    BY <1>1, <1>7 DEF TypeOK, Subscribe, chainVars, tables, local
<1>8. CASE Stop
    <2>1. faults' \in 0..MaxFaults
        BY <1>1, <1>8 DEF Stop, TypeOK
    <2>2. NoDates \in [Market -> 0..MaxEvents]
        BY <1>1 DEF NoDates
    <2>3. /\ pending' = {} /\ subscribed' = {} /\ markets' = {} /\ running' = FALSE
          /\ handles' = [g \in Goroutine |-> NoEvent] /\ list' = [g \in Goroutine |-> {}]
          /\ dates' = [g \in Goroutine |-> NoDates] /\ height' = [g \in Goroutine |-> 0]
          /\ hasBuys' = [g \in Goroutine |-> FALSE]
          /\ UNCHANGED <<chainVars, tables, missed>>
        BY <1>8 DEF Stop
    <2>4. /\ handles' \in [Goroutine -> Event \union {NoEvent}]
          /\ list' \in [Goroutine -> SUBSET Market]
          /\ dates' \in [Goroutine -> [Market -> 0..MaxEvents]]
          /\ height' \in [Goroutine -> 0..MaxEvents]
          /\ hasBuys' \in [Goroutine -> BOOLEAN]
        BY <1>1, <2>2, <2>3
    <2>5. /\ created' \subseteq Market /\ rows' \subseteq Market /\ emitted' \in 0..MaxEvents
          /\ {event, trade, first, createdAt, history, intervals, book, missed}'
                 \subseteq [Market -> 0..MaxEvents]
          /\ bare' \in [Side -> [Market -> 0..MaxEvents]]
        BY <1>1, <2>3 DEF TypeOK, chainVars, tables
    <2>6. QED
        BY <2>1, <2>3, <2>4, <2>5 DEF TypeOK
<1>9. CASE UNCHANGED vars
    BY <1>1, <1>9 DEF TypeOK, vars, chainVars, tables, local
<1>10. QED
    BY <1>2, <1>3, <1>4, <1>5, <1>6, <1>7, <1>8, <1>9, CallKeepsTypes DEF Next, Run

-----------------------------------------------------------------------------
(* What is in the tables is not newer than the chain. *)

Numbers ==
    /\ emitted \in Nat /\ created \subseteq Market
    /\ event \in [Market -> Nat] /\ trade \in [Market -> Nat] /\ first \in [Market -> Nat]
    /\ createdAt \in [Market -> Nat] /\ history \in [Market -> Nat]
    /\ intervals \in [Market -> Nat] /\ book \in [Market -> Nat]
    /\ list \in [Goroutine -> SUBSET Market] /\ dates \in [Goroutine -> [Market -> Nat]]
    /\ height \in [Goroutine -> Nat] /\ bare \in [Side -> [Market -> Nat]]

LEMMA TypesAreNumbers == TypeOK => Numbers
<1> SUFFICES ASSUME TypeOK
             PROVE  Numbers
    OBVIOUS
<1>1. 0..MaxEvents \subseteq Nat
    BY ListenerAssumption
<1>2. /\ emitted \in 0..MaxEvents /\ created \subseteq Market
      /\ event \in [Market -> 0..MaxEvents] /\ trade \in [Market -> 0..MaxEvents]
      /\ first \in [Market -> 0..MaxEvents] /\ createdAt \in [Market -> 0..MaxEvents]
      /\ history \in [Market -> 0..MaxEvents] /\ intervals \in [Market -> 0..MaxEvents]
      /\ book \in [Market -> 0..MaxEvents]
    BY DEF TypeOK
<1>3. /\ list \in [Goroutine -> SUBSET Market] /\ dates \in [Goroutine -> [Market -> 0..MaxEvents]]
      /\ height \in [Goroutine -> 0..MaxEvents]
      /\ bare \in [Side -> [Market -> 0..MaxEvents]]
    BY DEF TypeOK
<1>4. dates \in [Goroutine -> [Market -> Nat]] /\ bare \in [Side -> [Market -> Nat]]
    BY <1>1, <1>3
<1>5. QED
    BY <1>1, <1>2, <1>3, <1>4 DEF Numbers

LEMMA CallKeepsOrder ==
    ASSUME ListenerInv, NEW g \in Goroutine, Call(g)
    PROVE  NothingIsNewer' /\ DatedInTime'
<1>1. /\ Numbers /\ NothingIsNewer /\ DatedInTime /\ running /\ todo[g] # <<>>
      /\ UNCHANGED <<created, emitted, event, trade, first>>
    BY TypesAreNumbers
    DEF ListenerInv, Call, Runs, StoreHistory, StoreIntervals, GetBuys, StoreBook, GetAllMarkets,
        DateMarkets, AskFirstTrades, StoreMarkets, StoreMap, chainVars
<1>2. Next1(g) \in Instruction
    BY <1>1, TypeOfNext DEF ListenerInv
<1>3. ASSUME StoreHistory(g)
      PROVE  NothingIsNewer' /\ DatedInTime'
    <2>1. UNCHANGED <<rows, createdAt, intervals, book, list, dates, markets>>
        BY <1>3 DEF StoreHistory
    <2>2. \A m \in Market: history'[m] = history[m] \/ history'[m] = trade[m]
        BY <1>1, <1>3 DEF StoreHistory, Numbers
    <2>3. \A m \in Market: history'[m] <= trade[m] /\ intervals[m] <= history'[m]
        <3>1. ASSUME NEW m \in Market
              PROVE  /\ history[m] \in Nat /\ trade[m] \in Nat /\ intervals[m] \in Nat
                     /\ history[m] <= trade[m] /\ intervals[m] <= history[m]
            BY <1>1 DEF NothingIsNewer, Numbers
        <3>2. QED
            BY <2>2, <3>1
    <2>4. QED
        BY <1>1, <2>1, <2>3 DEF NothingIsNewer, DatedInTime
<1>4. ASSUME StoreIntervals(g)
      PROVE  NothingIsNewer' /\ DatedInTime'
    <2>1. UNCHANGED <<rows, createdAt, history, book, list, dates, markets>>
        BY <1>4 DEF StoreIntervals
    <2>2. \A m \in Market: intervals'[m] = intervals[m] \/ intervals'[m] = history[m]
        BY <1>1, <1>4 DEF StoreIntervals, Numbers
    <2>3. \A m \in Market: intervals'[m] <= history[m]
        <3>1. ASSUME NEW m \in Market
              PROVE  history[m] \in Nat /\ intervals[m] \in Nat /\ intervals[m] <= history[m]
            BY <1>1 DEF NothingIsNewer, Numbers
        <3>2. QED
            BY <2>2, <3>1
    <2>4. QED
        BY <1>1, <2>1, <2>3 DEF NothingIsNewer, DatedInTime
<1>5. ASSUME GetBuys(g)
      PROVE  NothingIsNewer' /\ DatedInTime'
    BY <1>1, <1>5 DEF GetBuys, tables, NothingIsNewer, DatedInTime
<1>6. ASSUME NEW h \in Goroutine
      PROVE  Forget(g) => list'[h] \subseteq created /\ \A m \in Market: dates'[h][m] <= emitted
    BY <1>1 DEF Forget, NoDates, NothingIsNewer, Numbers
<1>7. ASSUME StoreBook(g)
      PROVE  NothingIsNewer' /\ DatedInTime'
    <2>1. UNCHANGED <<rows, createdAt, history, intervals, markets>> /\ Forget(g)
        BY <1>7 DEF StoreBook
    <2>2. Next1(g).on \in Market /\ height[g] <= event[Next1(g).on]
        BY <1>1, <1>7, WritesAreLocked DEF StoreBook, Runs
    <2>3. \A m \in Market: book'[m] <= event[m]
        BY <1>1, <1>7, <2>2 DEF StoreBook, NothingIsNewer, Numbers
    <2>4. QED
        BY <1>1, <1>6, <2>1, <2>3 DEF NothingIsNewer, DatedInTime
<1>8. ASSUME GetAllMarkets(g)
      PROVE  NothingIsNewer' /\ DatedInTime'
    <2>1. UNCHANGED <<tables, dates, markets>>
        BY <1>8 DEF GetAllMarkets
    <2>2. \A h \in Goroutine: list'[h] \subseteq created
        BY <1>1, <1>8 DEF GetAllMarkets, NothingIsNewer, Numbers
    <2>3. QED
        BY <1>1, <2>1, <2>2 DEF tables, NothingIsNewer, DatedInTime
<1>9. ASSUME DateMarkets(g)
      PROVE  NothingIsNewer' /\ DatedInTime'
    <2>1. UNCHANGED <<tables, list, markets>>
        BY <1>9 DEF DateMarkets
    <2>2. \A h \in Goroutine, m \in Market: dates'[h][m] <= emitted
        BY <1>1, <1>9 DEF DateMarkets, NothingIsNewer, Numbers
    <2>3. QED
        BY <1>1, <2>1, <2>2 DEF tables, NothingIsNewer, DatedInTime
<1>10. ASSUME AskFirstTrades(g)
      PROVE  NothingIsNewer' /\ DatedInTime'
    <2>1. UNCHANGED <<tables, list, markets>>
        BY <1>10 DEF AskFirstTrades
    <2>2. \A m \in Market: first[m] - 1 <= emitted
        BY <1>1 DEF NothingIsNewer, Numbers
    <2>3. ASSUME NEW h \in Goroutine, NEW m \in Market
          PROVE  dates'[h][m] = dates[h][m] \/ dates'[h][m] = first[m] - 1
        BY <1>1, <1>10 DEF AskFirstTrades, Numbers
    <2>4. \A h \in Goroutine, m \in Market: dates'[h][m] <= emitted
        BY <1>1, <2>2, <2>3 DEF NothingIsNewer
    <2>5. QED
        BY <1>1, <2>1, <2>4 DEF tables, NothingIsNewer, DatedInTime
<1>11. ASSUME StoreMarkets(g)
      PROVE  NothingIsNewer' /\ DatedInTime'
    <2>1. /\ UNCHANGED <<history, intervals, book, markets>> /\ Forget(g)
          /\ rows' = rows \union list[g]
          /\ createdAt' = [m \in Market |-> IF m \in list[g] THEN dates[g][m] ELSE createdAt[m]]
        BY <1>11 DEF StoreMarkets
    <2>2. \A m \in list[g]: first[m] # 0 => dates[g][m] < first[m]
        BY <1>1, <1>11, WritesAreLocked DEF StoreMarkets, Runs
    <2>3. \A m \in Market: createdAt'[m] <= emitted
        BY <1>1, <2>1 DEF NothingIsNewer
    <2>4. NothingIsNewer'
        BY <1>1, <1>6, <2>1, <2>3 DEF NothingIsNewer
    <2>5. rows \subseteq Market /\ list[g] \subseteq Market
        BY <1>1 DEF ListenerInv, TypeOK
    <2>6. \A m \in rows': first[m] # 0 => createdAt'[m] < first[m]
        BY <1>1, <2>1, <2>2, <2>5 DEF DatedInTime
    <2>7. QED
        BY <1>1, <2>4, <2>6 DEF DatedInTime
<1>12. ASSUME StoreMap(g)
      PROVE  NothingIsNewer' /\ DatedInTime'
    <2>1. UNCHANGED tables /\ Forget(g) /\ markets' = list[g]
        BY <1>12 DEF StoreMap
    <2>2. markets' \subseteq created
        BY <1>1, <2>1 DEF NothingIsNewer
    <2>3. QED
        BY <1>1, <1>6, <2>1, <2>2 DEF tables, NothingIsNewer, DatedInTime
<1>13. QED
    BY <1>3, <1>4, <1>5, <1>7, <1>8, <1>9, <1>10, <1>11, <1>12 DEF Call

LEMMA EmitKeepsOrder ==
    ASSUME ListenerInv, NEW type \in EventType, NEW m \in Market, NEW stream \in Stream,
           Emit(type, m, stream)
    PROVE  NothingIsNewer' /\ DatedInTime'
<1>1. /\ Numbers /\ NothingIsNewer /\ DatedInTime
      /\ UNCHANGED <<markets, rows, createdAt, history, intervals, book, list, dates>>
      /\ emitted' = emitted + 1 /\ created' = created \union {m}
    BY TypesAreNumbers DEF ListenerInv, Emit, tables, local
<1>2. created' \subseteq Market /\ IsFiniteSet(created')
    BY <1>1, FS_AddElement DEF NothingIsNewer
<1>3. \A n \in Market: /\ event'[n] = event[n] \/ event'[n] = emitted + 1
                       /\ trade'[n] = trade[n] \/ trade'[n] = emitted + 1
                       /\ first'[n] = first[n] \/ first'[n] = emitted + 1
    BY <1>1 DEF Emit, Numbers
<1>4. \A n \in Market: /\ event'[n] <= emitted + 1 /\ trade'[n] <= emitted + 1
                             /\ first'[n] <= emitted + 1
                       /\ createdAt[n] <= emitted + 1
                       /\ book[n] <= event'[n] /\ history[n] <= trade'[n]
    BY <1>1, <1>3 DEF NothingIsNewer, Numbers
<1>5. \A h \in Goroutine: list[h] \subseteq created' /\ \A n \in Market: dates[h][n] <= emitted + 1
    BY <1>1 DEF NothingIsNewer, Numbers
<1>6. NothingIsNewer'
    BY <1>1, <1>2, <1>4, <1>5 DEF NothingIsNewer
<1>7. ASSUME NEW n \in rows, first'[n] # 0
      PROVE  createdAt[n] < first'[n]
    <2>1. n \in Market
        BY DEF ListenerInv, TypeOK
    <2>2. CASE first'[n] = first[n]
        BY <1>1, <1>7, <2>2 DEF DatedInTime
    <2>3. CASE first'[n] = emitted + 1
        BY <1>1, <2>1, <2>3 DEF NothingIsNewer, Numbers
    <2>4. QED
        BY <1>3, <2>1, <2>2, <2>3
<1>8. QED
    BY <1>1, <1>6, <1>7 DEF DatedInTime

LEMMA NextKeepsOrder == ListenerInv /\ [Next]_vars => NothingIsNewer' /\ DatedInTime'
<1> SUFFICES ASSUME ListenerInv, [Next]_vars
             PROVE  NothingIsNewer' /\ DatedInTime'
    OBVIOUS
<1>1. Numbers /\ NothingIsNewer /\ DatedInTime
    BY TypesAreNumbers DEF ListenerInv
<1>2. ASSUME NEW g \in Goroutine, AcquireLock(g) \/ ReleaseLock(g)
      PROVE  NothingIsNewer' /\ DatedInTime'
    <2>1. UNCHANGED <<chainVars, markets, tables, list, dates>>
        BY <1>2 DEF AcquireLock, ReleaseLock, local
    <2>2. QED
        BY <1>1, <2>1 DEF NothingIsNewer, DatedInTime, chainVars, tables
<1>3. ASSUME NEW g \in Goroutine, CallFails(g) \/ MapFails(g)
      PROVE  NothingIsNewer' /\ DatedInTime'
    <2>1. /\ UNCHANGED <<chainVars, rows, createdAt, intervals, book>>
          /\ Forget(g) /\ markets' \subseteq markets
        BY <1>3 DEF CallFails, MapFails, tables
    <2>2. \A h \in Goroutine: list'[h] \subseteq created /\ \A m \in Market: dates'[h][m] <= emitted
        BY <1>1, <2>1 DEF Forget, NoDates, NothingIsNewer, Numbers
    <2>3. \A m \in Market: history'[m] = history[m] \/ history'[m] = trade[m]
        <3>1. CASE history' = history
            BY <3>1
        <3>2. CASE history' = [history EXCEPT ![Next1(g).on] = trade[Next1(g).on]]
            BY <1>1, <3>2 DEF Numbers
        <3>3. QED
            BY <1>3, <3>1, <3>2 DEF CallFails, MapFails, tables
    <2>4. \A m \in Market: history'[m] <= trade[m] /\ intervals[m] <= history'[m]
        <3>1. ASSUME NEW m \in Market
              PROVE  /\ history[m] \in Nat /\ trade[m] \in Nat /\ intervals[m] \in Nat
                     /\ history[m] <= trade[m] /\ intervals[m] <= history[m]
            BY <1>1 DEF NothingIsNewer, Numbers
        <3>2. QED
            BY <2>3, <3>1
    <2>5. QED
        BY <1>1, <2>1, <2>2, <2>4 DEF NothingIsNewer, DatedInTime, chainVars
<1>4. ASSUME NEW g \in Handler, Listen(g)
      PROVE  NothingIsNewer' /\ DatedInTime'
    <2>1. UNCHANGED <<chainVars, markets, tables, list, dates>>
        BY <1>4 DEF Listen, HandleMessage
    <2>2. QED
        BY <1>1, <2>1 DEF NothingIsNewer, DatedInTime, chainVars, tables
<1>5. ASSUME NEW stream \in Stream, Subscribe(stream)
      PROVE  NothingIsNewer' /\ DatedInTime'
    BY <1>1, <1>5 DEF Subscribe, NothingIsNewer, DatedInTime, chainVars, tables, local
<1>6. CASE Stop
    <2>1. /\ UNCHANGED <<chainVars, tables>> /\ markets' = {}
          /\ list' = [g \in Goroutine |-> {}] /\ dates' = [g \in Goroutine |-> NoDates]
        BY <1>6 DEF Stop
    <2>2. \A h \in Goroutine: list'[h] = {} /\ \A m \in Market: dates'[h][m] <= emitted
        BY <1>1, <2>1 DEF NoDates, Numbers
    <2>3. QED
        BY <1>1, <2>1, <2>2 DEF NothingIsNewer, DatedInTime, chainVars, tables
<1>7. CASE UNCHANGED vars
    BY <1>1, <1>7 DEF vars, NothingIsNewer, DatedInTime, chainVars, tables, local
<1>8. QED
    BY <1>2, <1>3, <1>4, <1>5, <1>6, <1>7, CallKeepsOrder, EmitKeepsOrder DEF Next, Run

\* Only the chain empties a book, and the event that does is the market's last.
LEMMA NextKeepsBare ==
    ListenerInv /\ [Next]_vars =>
        BareIsPast' /\ \A s \in Side, m \in Market: bare[s][m] <= bare'[s][m]
<1> SUFFICES ASSUME ListenerInv, [Next]_vars
             PROVE  BareIsPast' /\ \A s \in Side, m \in Market: bare[s][m] <= bare'[s][m]
    OBVIOUS
<1>1. /\ emitted \in Nat
      /\ \A m \in Market: event[m] \in Nat /\ event[m] <= emitted
      /\ \A s \in Side, m \in Market: bare[s][m] \in Nat /\ bare[s][m] <= event[m]
    BY TypesAreNumbers DEF ListenerInv, Numbers, NothingIsNewer, BareIsPast
<1>2. ASSUME UNCHANGED <<event, bare>>
      PROVE  BareIsPast' /\ \A s \in Side, m \in Market: bare[s][m] <= bare'[s][m]
    BY <1>1, <1>2 DEF BareIsPast
<1>3. ASSUME NEW type \in EventType, NEW m \in Market, NEW stream \in Stream, Emit(type, m, stream)
      PROVE  BareIsPast' /\ \A s \in Side, n \in Market: bare[s][n] <= bare'[s][n]
    <2>1. CASE type = "MarketCreated"
        BY <1>2, <1>3, <2>1 DEF Emit
    <2>2. CASE type # "MarketCreated"
        <3>1. PICK left \in Leaves[type]:
                  bare' = [s \in Side |-> IF s \in left THEN [bare[s] EXCEPT ![m] = emitted + 1]
                                         ELSE bare[s]]
            BY <1>3, <2>2 DEF Emit
        <3>2. event \in [Market -> Nat] /\ bare \in [Side -> [Market -> Nat]]
            BY TypesAreNumbers DEF ListenerInv, Numbers
        <3>3. event'[m] = emitted + 1 /\ \A n \in Market: n # m => event'[n] = event[n]
            BY <1>3, <2>2, <3>2 DEF Emit
        <3>4. ASSUME NEW s \in Side, NEW n \in Market
              PROVE  bare'[s][n] = bare[s][n] \/ (n = m /\ bare'[s][n] = emitted + 1)
            BY <3>1, <3>2
        <3>5. ASSUME NEW s \in Side, NEW n \in Market
              PROVE  bare[s][n] <= bare'[s][n] /\ bare'[s][n] <= event'[n]
            BY <1>1, <3>3, <3>4
        <3>6. QED
            BY <3>5 DEF BareIsPast
    <2>3. QED
        BY <2>1, <2>2
<1>4. ASSUME NEW g \in Goroutine,
             AcquireLock(g) \/ ReleaseLock(g) \/ Call(g) \/ CallFails(g) \/ MapFails(g)
      PROVE  UNCHANGED <<event, bare>>
    BY <1>4 DEF AcquireLock, ReleaseLock, Call, CallFails, MapFails, chainVars
<1>5. ASSUME NEW g \in Handler, Listen(g)
      PROVE  UNCHANGED <<event, bare>>
    BY <1>5 DEF Listen, HandleMessage, chainVars
<1>6. ASSUME NEW stream \in Stream, Subscribe(stream)
      PROVE  UNCHANGED <<event, bare>>
    BY <1>6 DEF Subscribe, chainVars
<1>7. CASE Stop \/ UNCHANGED vars
    BY <1>2, <1>7 DEF Stop, vars, chainVars
<1>8. QED
    BY <1>2, <1>3, <1>4, <1>5, <1>6, <1>7 DEF Next, Run

-----------------------------------------------------------------------------
(* The invariant. *)

LEMMA InitPrograms == Init => todo \in [Goroutine -> Seq(Parts)] /\ \A g \in Goroutine: ProgramOK(g)
<1> SUFFICES ASSUME Init
             PROVE  todo \in [Goroutine -> Seq(Parts)] /\ \A g \in Goroutine: ProgramOK(g)
    OBVIOUS
<1> DEFINE first1 == <<Do("lock", LockMarketsKey)>> \o SyncMarkets
<1>1. /\ first1 \in Parts /\ In(first1) = {Lock(LockMarketsKey)} \union Asking
      /\ GetMarketsMap \in Parts /\ In(GetMarketsMap) = {List, Map} \union Connection
    BY FirstPart, MapPart DEF List, Map
<1>2. InitialSync = <<first1, GetMarketsMap>>
    BY DEF InitialSync
<1> HIDE DEF first1
<1>3. /\ InitialSync \in Seq(Parts) /\ InitialSync # <<>> /\ DOMAIN InitialSync = 1..2
      /\ InitialSync[1] = first1 /\ InitialSync[2] = GetMarketsMap
    BY <1>1, <1>2
<1>4. todo = [g \in Goroutine |-> IF g = Main THEN InitialSync ELSE <<>>]
    BY DEF Init
<1>5. todo \in [Goroutine -> Seq(Parts)]
    BY <1>3, <1>4
<1>6. /\ Map \notin In(first1) /\ Firsts \in In(first1) /\ Lock(LockMarketsKey) \in In(first1)
      /\ Unlock(LockMarketsKey) \notin In(first1)
      /\ \A m \in Market: Book(m) \notin In(first1) /\ Book(m) \notin In(GetMarketsMap)
      /\ List \in In(GetMarketsMap) /\ Rows \notin In(GetMarketsMap)
    BY <1>1 DEF Asking, Connection, Map, List, Dates, Firsts, Rows, Book, Lock, Unlock, Do,
                GrpcLockName, LockMarketsKey
<1>7. ProgramOK(Main)
    <2>1. Main \in Goroutine /\ todo[Main] = InitialSync
        BY <1>4, ListenerAssumption
    <2>2. Fits(Main, first1)
        BY <1>6 DEF Fits
    <2>3. \A j \in 1..2: j # 1 => j = 2 /\ Whole(InitialSync[j])
        BY <1>3, <1>6 DEF Whole
    <2>4. QED
        BY <1>3, <1>6, <2>1, <2>2, <2>3 DEF ProgramOK, MapIsLocked
<1>8. ASSUME NEW g \in Goroutine, g # Main
      PROVE  ProgramOK(g)
    <2>1. todo[g] = <<>> /\ DOMAIN todo[g] = {}
        BY <1>4, <1>8
    <2>2. QED
        BY <2>1 DEF ProgramOK, MapIsLocked
<1>9. QED
    BY <1>5, <1>7, <1>8

LEMMA InitListenerInv == Init => ListenerInv
<1> SUFFICES ASSUME Init
             PROVE  ListenerInv
    OBVIOUS
<1>1. LockerInv
    BY InitLockerInv DEF Init
<1>2. MaxEvents \in Nat \ {0} /\ MaxFaults \in Nat /\ Listed \subseteq Market /\ IsFiniteSet(Listed)
    BY ListenerAssumption
<1>3. /\ event = [m \in Market |-> IF m \in Listed THEN 1 ELSE 0] /\ trade = event /\ first = event
      /\ emitted = (IF Listed = {} THEN 0 ELSE 1) /\ created = Listed /\ markets = Listed
            /\ rows = Listed
      /\ createdAt = [m \in Market |-> 0] /\ history = [m \in Market |-> 0]
      /\ intervals = [m \in Market |-> 0] /\ book = [m \in Market |-> 0]
            /\ missed = [m \in Market |-> 0]
      /\ list = [g \in Goroutine |-> {}] /\ dates = [g \in Goroutine |-> [m \in Market |-> 0]]
    BY DEF Init, NoDates
<1>4. 0 \in 0..MaxEvents /\ 1 \in 0..MaxEvents /\ 0 \in 0..MaxFaults
    BY <1>2
<1>5. /\ event \in [Market -> 0..MaxEvents] /\ createdAt \in [Market -> 0..MaxEvents]
      /\ dates \in [Goroutine -> [Market -> 0..MaxEvents]]
    BY <1>3, <1>4
<1>11. PICK left: bare = [s \in Side |->
                            [m \in Market |-> IF m \in created /\ s \in left[m] THEN 1 ELSE 0]]
    BY DEF Init
<1>6. TypeOK
    <2>1. {event, trade, first, createdAt, history, intervals, book, missed}
          \subseteq [Market -> 0..MaxEvents]
        BY <1>3, <1>5
    <2>2. /\ pending = {} /\ subscribed = {} /\ running = TRUE /\ faults = 0
          /\ handles = [g \in Goroutine |-> NoEvent] /\ height = [g \in Goroutine |-> 0]
          /\ hasBuys = [g \in Goroutine |-> FALSE]
        BY DEF Init
    <2>3. /\ handles \in [Goroutine -> Event \union {NoEvent}]
                /\ list \in [Goroutine -> SUBSET Market]
          /\ height \in [Goroutine -> 0..MaxEvents] /\ hasBuys \in [Goroutine -> BOOLEAN]
        BY <1>3, <1>4, <2>2
    <2>4. bare \in [Side -> [Market -> 0..MaxEvents]]
        BY <1>4, <1>11
    <2>5. emitted \in 0..MaxEvents
        BY <1>3, <1>4
    <2>6. QED
        BY <1>1, <1>2, <1>3, <1>4, <1>5, <2>1, <2>2, <2>3, <2>4, <2>5 DEF TypeOK, LockerInv
<1>7. \A g \in Goroutine: InTheLocker(g)
    BY DEF Init, LockerInit, InTheLocker
<1>8. NothingIsNewer
    <2>1. \A m \in Market: event[m] <= emitted
        BY <1>2, <1>3
    <2>2. emitted \in Nat
        BY <1>3
    <2>3. QED
        BY <1>2, <1>3, <2>1, <2>2 DEF NothingIsNewer
<1>12. BareIsPast
    BY <1>3, <1>11 DEF BareIsPast
<1>9. DatedInTime
    BY <1>2, <1>3 DEF DatedInTime
<1>10. QED
    BY <1>1, <1>6, <1>7, <1>8, <1>9, <1>12, InitPrograms DEF ListenerInv

LEMMA NextListenerInv == ListenerInv /\ [Next]_vars => ListenerInv'
<1> SUFFICES ASSUME ListenerInv, [Next]_vars
             PROVE  ListenerInv'
    OBVIOUS
<1>1. LockerInv'
    BY NextIsLockerNext, NextLockerInv DEF ListenerInv
<1>2. TypeOK'
    BY <1>1, NextKeepsTypes DEF LockerInv
<1>3. QED
    BY <1>1, <1>2, NextKeepsPrograms, NextKeepsOrder, NextKeepsBare DEF ListenerInv, ProgramsOK

LEMMA ListenerInvHolds == Spec => []ListenerInv
BY InitListenerInv, NextListenerInv, PTL DEF Spec

\* Every variable of the process keeps its type.
THEOREM TypesHold == Spec => []TypeOK
BY ListenerInvHolds, PTL DEF ListenerInv

\* No row of table market is ever dated at or after the first trade of its
\* market, whichever of two concurrent syncs of the markets stores its answer last.
THEOREM RowsAreDatedInTime == Spec => []DatedInTime
BY ListenerInvHolds, PTL DEF ListenerInv

\* What the process does with its locks is what InMemoryLocker allows.
THEOREM ListenerUsesLocker == Spec => LockerSpec
<1>1. Init => LockerInit
    BY DEF Init
<1>2. QED
    BY <1>1, ListenerInvHolds, NextIsLockerNext, PTL DEF Spec, LockerSpec

\* No goroutine of the process ever unlocks a mutex that is not locked, which
\* would end it: not by a deferred Unlock after a failed call either.
THEOREM NoUnlockIsFatal == Spec => []NoFatalUnlock
BY ListenerUsesLocker, UnlocksAreSafe, PTL

\* The keys of lock.go are locks with one holder each, in the process that uses
\* them as well.
THEOREM LocksAreExclusive == Spec => ImplementsLocks
BY ListenerUsesLocker, KeysAreLocks, PTL

LEMMA MapsAreKept == ListenerInv /\ [Next]_vars => (faults' = faults => markets \subseteq markets')
<1> SUFFICES ASSUME ListenerInv, [Next]_vars, faults' = faults
             PROVE  markets \subseteq markets'
    OBVIOUS
<1>1. faults \in Nat
    BY ListenerAssumption DEF ListenerInv, TypeOK
<1>2. ASSUME NEW g \in Goroutine, Call(g)
      PROVE  markets \subseteq markets'
    <2>1. CASE StoreMap(g)
        <3>1. todo[g] # <<>> /\ Next1(g).do = "map" /\ markets' = list[g]
            BY <2>1 DEF StoreMap, Runs
        <3>2. QED
            BY <3>1, WritesAreLocked
    <2>2. CASE ~StoreMap(g)
        BY <1>2, <2>2 DEF Call, StoreHistory, StoreIntervals, GetBuys, StoreBook, GetAllMarkets,
                          DateMarkets, AskFirstTrades, StoreMarkets
    <2>3. QED
        BY <2>1, <2>2
<1>3. ASSUME NEW g \in Goroutine, MapFails(g)
      PROVE  FALSE
    BY <1>1, <1>3 DEF MapFails
<1>4. CASE Stop
    BY <1>1, <1>4 DEF Stop
<1>5. ASSUME NEW g \in Goroutine, AcquireLock(g) \/ ReleaseLock(g) \/ CallFails(g) \/ Listen(g)
      PROVE  markets' = markets
    BY <1>5 DEF AcquireLock, ReleaseLock, CallFails, Listen, HandleMessage
<1>6. ASSUME NEW type, NEW m, NEW stream, Emit(type, m, stream) \/ Subscribe(stream)
      PROVE  markets' = markets
    BY <1>6 DEF Emit, Subscribe
<1>7. CASE UNCHANGED vars
    BY <1>7 DEF vars
<1>8. QED
    BY <1>2, <1>3, <1>4, <1>5, <1>6, <1>7 DEF Next, Run, Handler

\* No refresh of the map that succeeds takes a market from it: the list that is
\* stored was got under the lock of the markets, so it is the newest.
THEOREM NoMarketIsForgottenTheorem == Spec => NoMarketIsForgotten
BY ListenerInvHolds, MapsAreKept, PTL DEF Spec, NoMarketIsForgotten

-----------------------------------------------------------------------------
(* What a handler none of whose calls failed still has to do for its event. *)

History(m) == Do("history", m)
Intervals(m) == Do("intervals", m)

HistoryComes(g, e) ==
    \/ e.number <= history[e.market]
    \/ History(e.market) \in In(todo[g][1])

IntervalsCome(g, e) ==
    \/ e.number <= intervals[e.market]
    \/ Intervals(e.market) \in In(todo[g][1])

\* The buys were asked for since event n: if there were none, the chain has
\* emptied that side since.
BuysAreSince(g, m, n) == n <= height[g] /\ (hasBuys[g] \/ n <= bare["buy"][m])

\* Its buys are still to be asked for, or were asked for after the event.
BookComes(g, e) ==
    \/ BookReaches(e.market, e.number)
    \/ /\ Book(e.market) \in In(todo[g][1])
       /\ \/ Buys(e.market) \in In(todo[g][1])
          \/ BuysAreSince(g, e.market, e.number)

RowComes(g, e) ==
    \/ e.market \in rows
    \/ /\ Rows \in In(todo[g][1])
       /\ List \in In(todo[g][1]) \/ e.market \in list[g]

\* Until its lock is unlocked nobody else replaces the map.
MapComes(g, e) ==
    \/ e.market \in markets /\ LockMarketsKey \in owns[g]
    \/ /\ Map \in In(todo[g][1])
       /\ List \in In(todo[g][1]) \/ e.market \in list[g]

Progress(g, e) ==
    /\ e.type = "MarketCreated" =>
         \/ Len(todo[g]) = 2 /\ RowComes(g, e) /\ Map \in In(todo[g][2])
         \/ Len(todo[g]) = 1 /\ e.market \in rows /\ MapComes(g, e)
    /\ e.type = "OrderExecuted" =>
         \/ /\ Len(todo[g]) = 3 /\ HistoryComes(g, e)
            /\ Intervals(e.market) \in In(todo[g][2]) /\ Book(e.market) \in In(todo[g][3])
         \/ /\ Len(todo[g]) = 2 /\ e.number <= history[e.market] /\ IntervalsCome(g, e)
            /\ Book(e.market) \in In(todo[g][2])
         \/ /\ Len(todo[g]) = 1 /\ e.number <= history[e.market]
            /\ e.number <= intervals[e.market] /\ BookComes(g, e)
    /\ e.type = "OrderSaved" => Len(todo[g]) = 1 /\ BookComes(g, e)

\* An event that was received has happened.
Happened(e) ==
    /\ e.type = "MarketCreated" => e.market \in created
    /\ e.type = "OrderExecuted" => e.number <= trade[e.market]
    /\ e.type # "MarketCreated" => e.number <= event[e.market]

HandlersInv ==
    /\ \A e \in pending: Happened(e)
    /\ \A g \in Handler: handles[g] # NoEvent => Happened(handles[g]) /\ Progress(g, handles[g])

\* An event whose handler has returned is in the tables, if no call failed.
Kept(h) ==
    /\ handles'[h] # NoEvent => Happened(handles[h])' /\ Progress(h, handles[h])'
    /\ \A e \in Event: handles[h] = e /\ handles'[h] = NoEvent /\ faults' = faults => Reflects(e)'

Grows ==
    /\ created \subseteq created' /\ rows \subseteq rows'
    /\ \A m \in Market: /\ event[m] <= event'[m] /\ trade[m] <= trade'[m]
                        /\ history[m] <= history'[m] /\ intervals[m] <= intervals'[m]
                        /\ book[m] <= book'[m]
    /\ \A s \in Side, m \in Market: bare[s][m] <= bare'[s][m]

\* The chain and the tables only grow.
LEMMA NextGrows == ListenerInv /\ [Next]_vars => Grows
<1> SUFFICES ASSUME ListenerInv, [Next]_vars
             PROVE  Grows
    OBVIOUS
<1>1. Numbers /\ NothingIsNewer
    BY TypesAreNumbers DEF ListenerInv
<1>2. \A m \in Market: /\ event[m] <= event[m] /\ trade[m] <= trade[m] /\ history[m] <= history[m]
                       /\ intervals[m] <= intervals[m] /\ book[m] <= book[m]
    BY <1>1 DEF Numbers
<1>12. \A s \in Side, m \in Market: bare[s][m] <= bare'[s][m]
    BY NextKeepsBare
<1>3. ASSUME UNCHANGED <<chainVars, tables>>
      PROVE  Grows
    BY <1>2, <1>3, <1>12 DEF Grows, chainVars, tables
<1>4. ASSUME NEW g \in Goroutine, Call(g)
      PROVE  Grows
    <2>1. UNCHANGED chainVars
        BY <1>4 DEF Call
    <2>2. CASE UNCHANGED tables
        BY <1>3, <2>1, <2>2
    <2>3. CASE StoreHistory(g)
        <3>1. UNCHANGED <<rows, intervals, book>>
            BY <2>3 DEF StoreHistory
        <3>2. \A m \in Market: history'[m] = history[m] \/ history'[m] = trade[m]
            BY <1>1, <2>3 DEF StoreHistory, Numbers
        <3>3. \A m \in Market: history[m] <= history'[m]
            BY <1>1, <1>2, <3>2 DEF NothingIsNewer
        <3>4. QED
            BY <1>2, <1>12, <2>1, <3>1, <3>3 DEF Grows, chainVars
    <2>4. CASE StoreIntervals(g)
        <3>1. UNCHANGED <<rows, history, book>>
            BY <2>4 DEF StoreIntervals
        <3>2. \A m \in Market: intervals'[m] = intervals[m] \/ intervals'[m] = history[m]
            BY <1>1, <2>4 DEF StoreIntervals, Numbers
        <3>3. \A m \in Market: intervals[m] <= intervals'[m]
            BY <1>1, <1>2, <3>2 DEF NothingIsNewer
        <3>4. QED
            BY <1>2, <1>12, <2>1, <3>1, <3>3 DEF Grows, chainVars
    <2>5. CASE StoreBook(g)
        <3>1. UNCHANGED <<rows, history, intervals>>
            BY <2>5 DEF StoreBook
        <3>2. book[Next1(g).on] <= height[g]
            BY <2>5, WritesAreLocked DEF StoreBook, Runs
        <3>3. \A m \in Market: book[m] <= book'[m]
            BY <1>1, <1>2, <2>5, <3>2 DEF StoreBook, Numbers
        <3>4. QED
            BY <1>2, <1>12, <2>1, <3>1, <3>3 DEF Grows, chainVars
    <2>6. CASE StoreMarkets(g)
        BY <1>2, <1>12, <2>1, <2>6 DEF StoreMarkets, Grows, chainVars
    <2>7. CASE GetBuys(g) \/ GetAllMarkets(g) \/ DateMarkets(g) \/ AskFirstTrades(g) \/ StoreMap(g)
        <3>1. UNCHANGED tables
            BY <2>7 DEF GetBuys, GetAllMarkets, DateMarkets, AskFirstTrades, StoreMap
        <3>2. QED
            BY <2>2, <3>1
    <2>8. QED
        BY <1>4, <2>3, <2>4, <2>5, <2>6, <2>7 DEF Call
<1>5. ASSUME NEW g \in Goroutine, AcquireLock(g) \/ ReleaseLock(g) \/ MapFails(g)
      PROVE  Grows
    <2>1. UNCHANGED <<chainVars, tables>>
        BY <1>5 DEF AcquireLock, ReleaseLock, MapFails
    <2>2. QED
        BY <1>3, <2>1
<1>13. ASSUME NEW g \in Goroutine, CallFails(g)
       PROVE  Grows
    <2>1. UNCHANGED <<chainVars, rows, intervals, book>>
        BY <1>13 DEF CallFails
    <2>2. \A m \in Market: history'[m] = history[m] \/ history'[m] = trade[m]
        BY <1>1, <1>13 DEF CallFails, Numbers
    <2>3. \A m \in Market: history[m] <= history'[m]
        BY <1>1, <1>2, <2>2 DEF NothingIsNewer
    <2>4. QED
        BY <1>2, <1>12, <2>1, <2>3 DEF Grows, chainVars
<1>6. ASSUME NEW g \in Handler, Listen(g)
      PROVE  Grows
    <2>1. UNCHANGED <<chainVars, tables>>
        BY <1>6 DEF Listen, HandleMessage
    <2>2. QED
        BY <1>3, <2>1
<1>7. ASSUME NEW type \in EventType, NEW m \in Market, NEW stream \in Stream, Emit(type, m, stream)
      PROVE  Grows
    <2>1. UNCHANGED tables /\ created \subseteq created'
        BY <1>7 DEF Emit
    <2>2. \A n \in Market: /\ event'[n] = event[n] \/ event'[n] = emitted + 1
                           /\ trade'[n] = trade[n] \/ trade'[n] = emitted + 1
        BY <1>1, <1>7 DEF Emit, Numbers
    <2>3. \A n \in Market: event[n] <= event'[n] /\ trade[n] <= trade'[n]
        <3>1. \A n \in Market: /\ event[n] \in Nat /\ trade[n] \in Nat /\ emitted \in Nat
                               /\ event[n] <= emitted /\ trade[n] <= emitted
            BY <1>1 DEF NothingIsNewer, Numbers
        <3>2. QED
            BY <2>2, <3>1
    <2>4. QED
        BY <1>2, <1>12, <2>1, <2>3 DEF Grows, tables
<1>8. ASSUME NEW stream \in Stream, Subscribe(stream)
      PROVE  Grows
    BY <1>3, <1>8 DEF Subscribe
<1>9. CASE Stop
    BY <1>3, <1>9 DEF Stop
<1>10. CASE UNCHANGED vars
    BY <1>3, <1>10 DEF vars
<1>11. QED
    BY <1>4, <1>5, <1>6, <1>7, <1>8, <1>9, <1>10, <1>13 DEF Next, Run

LEMMA EventIsSomething ==
    ASSUME NEW e \in Event
    PROVE  e # NoEvent /\ e.market \in Market /\ e.type \in EventType /\ e.number \in Nat
<1>1. e.market \in Market /\ e.type \in EventType /\ e.number \in Nat
    BY ListenerAssumption DEF Event
<1>2. DOMAIN e = {"type", "market", "number"} /\ DOMAIN NoEvent = {}
    BY DEF Event, NoEvent
<1>3. QED
    BY <1>1, <1>2

LEMMA HappenedStays ==
    ASSUME Numbers, Numbers', Grows, NEW e \in Event, Happened(e)
    PROVE  Happened(e)'
<1>1. /\ e.market \in Market /\ e.number \in Nat
      /\ event[e.market] \in Nat /\ trade[e.market] \in Nat
      /\ event'[e.market] \in Nat /\ trade'[e.market] \in Nat
      /\ event[e.market] <= event'[e.market] /\ trade[e.market] <= trade'[e.market]
      /\ created \subseteq created'
    BY EventIsSomething DEF Numbers, Grows
<1>2. /\ e.number <= trade[e.market] => e.number <= trade'[e.market]
      /\ e.number <= event[e.market] => e.number <= event'[e.market]
    BY <1>1
<1>3. QED
    BY <1>1, <1>2 DEF Happened

\* A book is never stored over a newer one, and emptied sides stay on record.
LEMMA BookStays ==
    ASSUME TypeOK, Numbers', Grows, NEW m \in Market, NEW n \in Nat, BookReaches(m, n)
    PROVE  BookReaches(m, n)'
<1>1. /\ book[m] \in Nat /\ book'[m] \in Nat /\ book[m] <= book'[m]
      /\ \A s \in Side: bare[s][m] \in Nat /\ bare'[s][m] \in Nat /\ bare[s][m] <= bare'[s][m]
    BY TypesAreNumbers DEF Numbers, Grows
<1>2. n <= book[m] => n <= book'[m]
    BY <1>1
<1>3. ASSUME NEW s \in Side, n <= bare[s][m]
      PROVE  n <= bare'[s][m]
    BY <1>1, <1>3
<1>4. QED
    BY <1>2, <1>3 DEF BookReaches

LEMMA BuysStay ==
    ASSUME TypeOK, Numbers', Grows, NEW g \in Goroutine, NEW m \in Market, NEW n \in Nat,
           height'[g] = height[g], hasBuys'[g] = hasBuys[g], BuysAreSince(g, m, n)
    PROVE  BuysAreSince(g, m, n)'
<1>1. bare["buy"][m] \in Nat /\ bare'["buy"][m] \in Nat /\ bare["buy"][m] <= bare'["buy"][m]
    BY TypesAreNumbers DEF Numbers, Grows, Side
<1>2. n <= bare["buy"][m] => n <= bare'["buy"][m]
    BY <1>1
<1>3. QED
    BY <1>2 DEF BuysAreSince

\* A handler that does nothing keeps what it has done, while others go on.
LEMMA OthersProgress ==
    ASSUME ListenerInv, HandlersInv, Numbers', Grows, NEW h \in Handler,
           handles'[h] = handles[h], todo'[h] = todo[h], owns'[h] = owns[h],
           list'[h] = list[h], height'[h] = height[h], hasBuys'[h] = hasBuys[h],
           markets \subseteq markets' \/ LockMarketsKey \notin owns[h]
    PROVE  Kept(h)
<1>1. ASSUME NEW e \in Event, handles[h] = e
      PROVE  Happened(e)' /\ Progress(h, e)'
    <2>1. Numbers /\ Happened(e) /\ Progress(h, e)
        BY <1>1, TypesAreNumbers, EventIsSomething DEF ListenerInv, HandlersInv
    <2>2. /\ e.market \in Market /\ e.number \in Nat
          /\ history[e.market] \in Nat /\ history'[e.market] \in Nat
          /\ intervals[e.market] \in Nat /\ intervals'[e.market] \in Nat
        BY <2>1, EventIsSomething DEF Numbers
    <2>3. /\ rows \subseteq rows' /\ history[e.market] <= history'[e.market]
          /\ intervals[e.market] <= intervals'[e.market]
        BY <2>2 DEF Grows
    <2>4. /\ e.number <= history[e.market] => e.number <= history'[e.market]
          /\ e.number <= intervals[e.market] => e.number <= intervals'[e.market]
        BY <2>2, <2>3
    <2>10. /\ BookReaches(e.market, e.number) => BookReaches(e.market, e.number)'
           /\ BuysAreSince(h, e.market, e.number) => BuysAreSince(h, e.market, e.number)'
        BY <2>2, BookStays, BuysStay DEF ListenerInv, Handler
    <2>5. /\ HistoryComes(h, e) => HistoryComes(h, e)'
          /\ IntervalsCome(h, e) => IntervalsCome(h, e)'
          /\ BookComes(h, e) => BookComes(h, e)'
        BY <2>4, <2>10 DEF HistoryComes, IntervalsCome, BookComes
    <2>6. RowComes(h, e) => RowComes(h, e)'
        BY <2>3 DEF RowComes
    <2>7. MapComes(h, e) => MapComes(h, e)'
        BY DEF MapComes
    <2>8. Happened(e)'
        BY <2>1, HappenedStays
    <2>9. QED
        BY <2>1, <2>3, <2>4, <2>5, <2>6, <2>7, <2>8 DEF Progress
<1>2. handles[h] \in Event \union {NoEvent}
    BY DEF ListenerInv, TypeOK, Handler
<1>3. QED
    BY <1>1, <1>2, EventIsSomething DEF Kept

\* What one instruction of g does to the tables, and to what g has got.
Stores(g) ==
    LET i == Next1(g)
    IN  /\ \A m \in Market:
             /\ history'[m] = IF i = History(m) THEN trade[m] ELSE history[m]
             /\ intervals'[m] = IF i = Intervals(m) THEN history[m] ELSE intervals[m]
             /\ book'[m] = IF i = Book(m) /\ SomeOrders(g) THEN height[g] ELSE book[m]
        /\ rows' = IF i = Rows THEN rows \union list[g] ELSE rows
        /\ markets' = IF i = Map THEN list[g] ELSE markets
        /\ i.do \notin Forgetting =>
             /\ list'[g] = IF i.do = "list" THEN created ELSE list[g]
             /\ height'[g] = IF i.do = "buys" THEN event[i.on] ELSE height[g]
             /\ hasBuys'[g] = IF i.do = "buys" THEN ~Empty("buy", i.on) ELSE hasBuys[g]
        /\ \A k: k \in owns[g] /\ i # Unlock(k) => k \in owns'[g]
        /\ todo'[g] = Rest(todo[g])
        /\ handles'[g] = IF Rest(todo[g]) = <<>> THEN NoEvent ELSE handles[g]

\* Instructions that store nothing in a table.
LEMMA OnlyStoresStore ==
    ASSUME NEW i, i.do \notin {"history", "intervals", "book", "rows", "map"}
    PROVE  /\ i # Rows /\ i # Map
           /\ \A m: i # History(m) /\ i # Intervals(m) /\ i # Book(m)
BY DEF Rows, Map, History, Intervals, Book, Do

LEMMA OneStoreStores ==
    ASSUME NEW i
    PROVE  /\ i.do # "history" => \A m: i # History(m)
           /\ i.do # "intervals" => \A m: i # Intervals(m)
           /\ i.do # "book" => \A m: i # Book(m)
           /\ i.do # "rows" => i # Rows
           /\ i.do # "map" => i # Map
           /\ i.do # "unlock" => \A k: i # Unlock(k)
BY DEF Rows, Map, History, Intervals, Book, Unlock, Do

LEMMA CallStores ==
    ASSUME ListenerInv, NEW g \in Goroutine, Call(g), g # Main \/ ~StoreMap(g)
    PROVE  Stores(g)
<1> DEFINE i == Next1(g)
<1>1. /\ running /\ todo[g] # <<>>
      /\ UNCHANGED <<lockerVars, chainVars>>
    BY DEF Call, Runs, StoreHistory, StoreIntervals, GetBuys, StoreBook, GetAllMarkets, DateMarkets,
           AskFirstTrades, StoreMarkets, StoreMap
<1>2. i \in Instruction
    BY <1>1, TypeOfNext DEF ListenerInv
<1>3. /\ todo \in [Goroutine -> Seq(Parts)] /\ handles \in [Goroutine -> Event \union {NoEvent}]
      /\ list \in [Goroutine -> SUBSET Market] /\ height \in [Goroutine -> 0..MaxEvents]
      /\ history \in [Market -> 0..MaxEvents] /\ intervals \in [Market -> 0..MaxEvents]
      /\ book \in [Market -> 0..MaxEvents] /\ hasBuys \in [Goroutine -> BOOLEAN]
    BY DEF ListenerInv, TypeOK
<1>4. Done(g)
    BY <1>1 DEF Call, StoreHistory, StoreIntervals, GetBuys, StoreBook, GetAllMarkets, DateMarkets,
                AskFirstTrades, StoreMarkets, StoreMap
<1>5. /\ todo'[g] = Rest(todo[g])
      /\ handles'[g] = IF Rest(todo[g]) = <<>> THEN NoEvent ELSE handles[g]
    BY <1>1, <1>3, <1>4 DEF Done, GoOn
<1>6. i.do \notin {"lock", "unlock"} /\ owns' = owns
    BY <1>1 DEF Call, Runs, StoreHistory, StoreIntervals, GetBuys, StoreBook, GetAllMarkets,
       DateMarkets,
                AskFirstTrades, StoreMarkets, StoreMap, lockerVars
<1>7. \A k: k \in owns[g] /\ i # Unlock(k) => k \in owns'[g]
    BY <1>6
<1> DEFINE Tables ==
             /\ \A m \in Market:
                  /\ history'[m] = IF i = History(m) THEN trade[m] ELSE history[m]
                  /\ intervals'[m] = IF i = Intervals(m) THEN history[m] ELSE intervals[m]
                  /\ book'[m] = IF i = Book(m) /\ SomeOrders(g) THEN height[g] ELSE book[m]
             /\ rows' = IF i = Rows THEN rows \union list[g] ELSE rows
             /\ markets' = IF i = Map THEN list[g] ELSE markets
           Got ==
             i.do \notin Forgetting =>
                 /\ list'[g] = IF i.do = "list" THEN created ELSE list[g]
                 /\ height'[g] = IF i.do = "buys" THEN event[i.on] ELSE height[g]
                 /\ hasBuys'[g] = IF i.do = "buys" THEN ~Empty("buy", i.on) ELSE hasBuys[g]
<1>8. ASSUME StoreHistory(g)
      PROVE  Tables /\ Got
    <2>1. i.do = "history" /\ UNCHANGED <<rows, intervals, book, list, height, hasBuys, markets>>
        BY <1>8 DEF StoreHistory, Runs
    <2>2. i = History(i.on) /\ \A m: i = History(m) <=> i.on = m
        BY <1>2, <2>1, OperandOfTable DEF History, Do
    <2>3. \A m \in Market: history'[m] = IF i = History(m) THEN trade[m] ELSE history[m]
        BY <1>3, <1>8, <2>2 DEF StoreHistory
    <2>4. QED
        BY <2>1, <2>3, OneStoreStores
<1>9. ASSUME StoreIntervals(g)
      PROVE  Tables /\ Got
    <2>1. i.do = "intervals" /\ UNCHANGED <<rows, history, book, list, height, hasBuys, markets>>
        BY <1>9 DEF StoreIntervals, Runs
    <2>2. i = Intervals(i.on) /\ \A m: i = Intervals(m) <=> i.on = m
        BY <1>2, <2>1, OperandOfTable DEF Intervals, Do
    <2>3. \A m \in Market: intervals'[m] = IF i = Intervals(m) THEN history[m] ELSE intervals[m]
        BY <1>3, <1>9, <2>2 DEF StoreIntervals
    <2>4. QED
        BY <2>1, <2>3, OneStoreStores
<1>10. ASSUME GetBuys(g)
       PROVE  Tables /\ Got
    <2>1. /\ i.do = "buys" /\ UNCHANGED <<tables, list, markets>>
          /\ height'[g] = event[i.on] /\ hasBuys'[g] = ~Empty("buy", i.on)
        BY <1>1, <1>3, <1>10 DEF GetBuys, Runs
    <2>2. QED
        BY <2>1, OnlyStoresStore DEF tables
<1>11. ASSUME StoreBook(g)
       PROVE  Tables /\ Got
    <2>1. i.do = "book" /\ UNCHANGED <<rows, history, intervals, markets>>
        BY <1>11 DEF StoreBook, Runs
    <2>2. i = Book(i.on) /\ \A m: i = Book(m) <=> i.on = m
        BY <1>2, <2>1, OperandOfTable DEF Book, Do
    <2>3. \A m \in Market: book'[m] = IF i = Book(m) /\ SomeOrders(g) THEN height[g] ELSE book[m]
        BY <1>3, <1>11, <2>2 DEF StoreBook
    <2>4. QED
        BY <2>1, <2>3, OneStoreStores DEF Forgetting
<1>12. ASSUME GetAllMarkets(g)
       PROVE  Tables /\ Got
    <2>1. i.do = "list" /\ UNCHANGED <<tables, height, hasBuys, markets>> /\ list'[g] = created
        BY <1>1, <1>3, <1>12 DEF GetAllMarkets, Runs
    <2>2. QED
        BY <2>1, OnlyStoresStore DEF tables
<1>13. ASSUME DateMarkets(g)
       PROVE  Tables /\ Got
    <2>1. i.do = "dates" /\ UNCHANGED <<tables, list, height, hasBuys, markets>>
        BY <1>13 DEF DateMarkets, Runs
    <2>2. QED
        BY <2>1, OnlyStoresStore DEF tables
<1>14. ASSUME AskFirstTrades(g)
       PROVE  Tables /\ Got
    <2>1. i.do = "firsts" /\ UNCHANGED <<tables, list, height, hasBuys, markets>>
        BY <1>14 DEF AskFirstTrades, Runs
    <2>2. QED
        BY <2>1, OnlyStoresStore DEF tables
<1>15. ASSUME StoreMarkets(g)
       PROVE  Tables /\ Got
    <2>1. /\ i.do = "rows" /\ UNCHANGED <<history, intervals, book, markets>>
          /\ rows' = rows \union list[g]
        BY <1>15 DEF StoreMarkets, Runs
    <2>2. i = Rows
        BY <1>2, <2>1, OperandOfMarkets DEF Rows
    <2>3. QED
        BY <2>1, <2>2, OneStoreStores DEF Forgetting
<1>16. ASSUME StoreMap(g)
       PROVE  Tables /\ Got
    <2>1. i.do = "map" /\ UNCHANGED tables /\ markets' = list[g]
        BY <1>16 DEF StoreMap, Runs
    <2>2. i = Map
        BY <1>2, <2>1, OperandOfMarkets DEF Map
    <2>3. QED
        BY <2>1, <2>2, OneStoreStores DEF Forgetting, tables
<1>17. Tables /\ Got
    BY <1>8, <1>9, <1>10, <1>11, <1>12, <1>13, <1>14, <1>15, <1>16 DEF Call
<1>18. QED
    BY <1>5, <1>7, <1>17 DEF Stores

LEMMA LockStores ==
    ASSUME ListenerInv, NEW g \in Goroutine, running, Done(g), LockMutex(g) \/ UnlockMutex(g),
           UNCHANGED <<markets, tables, list, height, hasBuys>>
    PROVE  todo[g] # <<>> /\ Stores(g)
<1>1. /\ pc[g] \in {"lock", "unlock"} /\ LockerTypeOK /\ InTheLocker(g)
      /\ todo \in [Goroutine -> Seq(Parts)] /\ handles \in [Goroutine -> Event \union {NoEvent}]
    BY DEF LockMutex, UnlockMutex, ListenerInv, LockerInv, TypeOK
<1>2. todo[g] # <<>> /\ Next1(g) = Do(pc[g], key[g])
    BY <1>1 DEF InTheLocker
<1>3. Next1(g).do \in {"lock", "unlock"}
    BY <1>1, <1>2 DEF Do
<1>4. \A k: k \in owns[g] /\ Next1(g) # Unlock(k) => k \in owns'[g]
    <2>1. CASE LockMutex(g)
        BY <1>1, <2>1 DEF LockMutex, LockerTypeOK
    <2>2. CASE UnlockMutex(g)
        <3>1. pc[g] = "unlock" /\ owns'[g] = owns[g] \ {key[g]}
            BY <1>1, <2>2 DEF UnlockMutex, LockerTypeOK
        <3>2. Next1(g) = Unlock(key[g])
            BY <1>2, <3>1 DEF Unlock
        <3>3. QED
            BY <3>1, <3>2
    <2>3. QED
        BY <2>1, <2>2
<1>5. /\ todo'[g] = Rest(todo[g])
      /\ handles'[g] = IF Rest(todo[g]) = <<>> THEN NoEvent ELSE handles[g]
    BY <1>1 DEF Done, GoOn
<1>6. QED
    BY <1>2, <1>3, <1>4, <1>5, OnlyStoresStore DEF Stores, tables

\* What comes is stored by the head of the program, or comes still.
LEMMA ComesNext ==
    ASSUME ListenerInv, Numbers', Grows, NEW g \in Goroutine, todo[g] # <<>>, Stores(g),
           NEW e \in Event, Happened(e), NEW B, B = In(Tail(todo[g][1]))
    PROVE  /\ e.type = "OrderExecuted" /\ HistoryComes(g, e) =>
                e.number <= history'[e.market] \/ History(e.market) \in B
           /\ e.number <= history[e.market] /\ IntervalsCome(g, e) =>
                e.number <= intervals'[e.market] \/ Intervals(e.market) \in B
           /\ e.type # "MarketCreated" /\ BookComes(g, e) =>
                \/ BookReaches(e.market, e.number)'
                \/ /\ Book(e.market) \in B
                   /\ Buys(e.market) \in B \/ BuysAreSince(g, e.market, e.number)'
           /\ e.type = "MarketCreated" /\ RowComes(g, e) =>
                \/ e.market \in rows'
                \/ Rows \in B /\ (List \in B \/ e.market \in list'[g])
           /\ e.type = "MarketCreated" /\ MapComes(g, e) =>
                \/ e.market \in markets' /\ (LockMarketsKey \in owns'[g] \/ B = {})
                \/ Map \in B /\ (List \in B \/ e.market \in list'[g])
<1> DEFINE i == Next1(g)
           m == e.market
<1>1. /\ i \in Instruction /\ In(todo[g][1]) = {i} \union B /\ \A b \in B: ~Never(i, b)
      /\ Fits(g, todo[g][1])
    BY TypeOfNext, TailOfPart DEF ListenerInv, ProgramOK
<1>2. m \in Market /\ e.number \in Nat
    BY EventIsSomething
<1>3. /\ history[m] \in Nat /\ history'[m] \in Nat /\ intervals[m] \in Nat /\ intervals'[m] \in Nat
      /\ trade[m] \in Nat /\ event[m] \in Nat /\ height[g] \in Nat
      /\ history[m] <= history'[m] /\ intervals[m] <= intervals'[m]
      /\ rows \subseteq rows'
    BY <1>2, TypesAreNumbers DEF ListenerInv, Numbers, Grows
<1>4. /\ e.number <= history[m] => e.number <= history'[m]
      /\ e.number <= intervals[m] => e.number <= intervals'[m]
    <2> HIDE DEF m
    <2>1. QED
        BY <1>2, <1>3
<1>14. BookReaches(m, e.number) => BookReaches(m, e.number)'
    BY <1>2, BookStays DEF ListenerInv
<1>5. ASSUME e.type = "OrderExecuted", HistoryComes(g, e)
      PROVE  e.number <= history'[m] \/ History(m) \in B
    <2>1. CASE i = History(m)
        BY <1>2, <1>5, <2>1 DEF Stores, Happened
    <2>2. CASE i # History(m)
        BY <1>1, <1>4, <1>5, <2>2 DEF HistoryComes
    <2>3. QED
        BY <2>1, <2>2
<1>6. ASSUME e.number <= history[m], IntervalsCome(g, e)
      PROVE  e.number <= intervals'[m] \/ Intervals(m) \in B
    <2>1. CASE i = Intervals(m)
        BY <1>2, <1>6, <2>1 DEF Stores
    <2>2. CASE i # Intervals(m)
        BY <1>1, <1>4, <1>6, <2>2 DEF IntervalsCome
    <2>3. QED
        BY <2>1, <2>2
<1>7. ASSUME e.type # "MarketCreated", Book(m) \in In(todo[g][1]),
             Buys(m) \in In(todo[g][1]) \/ BuysAreSince(g, m, e.number)
      PROVE  \/ BookReaches(m, e.number)'
             \/ Book(m) \in B /\ (Buys(m) \in B \/ BuysAreSince(g, m, e.number)')
    <2>1. CASE i = Book(m)
        <3>1. Buys(m) \notin B /\ i # Buys(m)
            BY <1>1, <2>1 DEF Never, Book, Buys, Do
        <3>2. BuysAreSince(g, m, e.number)
            BY <1>1, <1>7, <3>1
        <3>3. CASE SomeOrders(g)
            <4>1. e.number <= height[g] /\ book'[m] = height[g]
                BY <1>2, <2>1, <3>2, <3>3 DEF Stores, BuysAreSince
            <4>2. QED
                BY <4>1 DEF BookReaches
        <3>4. CASE ~SomeOrders(g)
            <4>1. i.on = m
                BY <2>1 DEF Book, Do
            <4>2. ~hasBuys[g] /\ bare["sell"][m] = event[m]
                BY <3>4, <4>1 DEF SomeOrders, Empty
            <4>3. e.number <= bare["buy"][m] /\ e.number <= bare["sell"][m]
                BY <1>7, <3>2, <4>2 DEF BuysAreSince, Happened
            <4>4. BookReaches(m, e.number)
                BY <4>3 DEF BookReaches, Side
            <4>5. QED
                BY <1>14, <4>4
        <3>5. QED
            BY <3>3, <3>4
    <2>2. CASE i # Book(m)
        <3>1. Book(m) \in B
            BY <1>1, <1>7, <2>2
        <3>2. i.do \notin Forgetting
            BY <1>1, <3>1 DEF Never, Forgetting, Book, Do
        <3>3. CASE i.do = "buys"
            <4>1. i = Buys(i.on) /\ i.on \in Market
                BY <1>1, <3>3, OperandOfTable DEF Buys
            <4>2. CASE i.on = m
                <5>1. height'[g] = event[m] /\ e.number <= event[m]
                    BY <1>7, <3>2, <3>3, <4>2 DEF Stores, Happened
                <5>2. hasBuys'[g] \/ bare["buy"][m] = event[m]
                    BY <3>2, <3>3, <4>2 DEF Stores, Empty
                <5>3. bare["buy"][m] \in Nat /\ bare'["buy"][m] \in Nat
                      /\ bare["buy"][m] <= bare'["buy"][m]
                    BY <1>2, TypesAreNumbers DEF ListenerInv, Numbers, Grows, Side
                <5>4. hasBuys'[g] \/ e.number <= bare'["buy"][m]
                    <6> HIDE DEF m
                    <6>1. QED
                        BY <1>2, <5>1, <5>2, <5>3
                <5>5. QED
                    BY <3>1, <5>1, <5>4 DEF BuysAreSince
            <4>3. CASE i.on # m
                <5>1. Buys(m) \in In(todo[g][1])
                    BY <1>1, <1>2, <1>7, <4>1 DEF Fits
                <5>2. i # Buys(m)
                    BY <4>1, <4>3 DEF Buys, Do
                <5>3. QED
                    BY <1>1, <3>1, <5>1, <5>2
            <4>4. QED
                BY <4>2, <4>3
        <3>4. CASE i.do # "buys"
            <4>1. height'[g] = height[g] /\ hasBuys'[g] = hasBuys[g] /\ i # Buys(m)
                BY <3>2, <3>4 DEF Stores, Buys, Do
            <4>2. BuysAreSince(g, m, e.number) => BuysAreSince(g, m, e.number)'
                BY <1>2, <4>1, BuysStay DEF ListenerInv
            <4>3. QED
                BY <1>1, <1>7, <3>1, <4>1, <4>2
        <3>5. QED
            BY <3>3, <3>4
    <2>3. QED
        BY <2>1, <2>2
<1>8. ASSUME e.type = "MarketCreated", NEW what \in {Rows, Map}, what \in In(todo[g][1]), what # i,
             List \in In(todo[g][1]) \/ m \in list[g]
      PROVE  what \in B /\ (List \in B \/ m \in list'[g])
    <2>1. what \in B
        BY <1>1, <1>8
    <2>2. i.do \notin Forgetting
        BY <1>1, <2>1 DEF Never, Forgetting, Rows, Map, Do
    <2>3. CASE i = List
        <3>1. list'[g] = created /\ m \in created
            BY <1>8, <2>2, <2>3 DEF Stores, List, Do, Happened
        <3>2. QED
            BY <2>1, <3>1
    <2>4. CASE i # List
        <3>1. i.do # "list"
            BY <1>1, <2>4, OperandOfMarkets DEF List
        <3>2. list'[g] = list[g]
            BY <2>2, <3>1 DEF Stores
        <3>3. QED
            BY <1>1, <1>8, <2>1, <2>4, <3>2
    <2>5. QED
        BY <2>3, <2>4
<1>9. ASSUME NEW what \in {Rows, Map}, what = i, List \in In(todo[g][1]) \/ m \in list[g]
      PROVE  m \in list[g]
    <2>1. List \notin B /\ i # List
        BY <1>1, <1>9 DEF Never, Rows, Map, List, Do
    <2>2. QED
        BY <1>1, <1>9, <2>1
<1>10. ASSUME e.type = "MarketCreated", RowComes(g, e)
       PROVE  m \in rows' \/ (Rows \in B /\ (List \in B \/ m \in list'[g]))
    <2>1. CASE m \in rows
        BY <1>3, <2>1
    <2>2. CASE Rows \in In(todo[g][1]) /\ (List \in In(todo[g][1]) \/ m \in list[g])
        <3>1. CASE i = Rows
            BY <1>9, <2>2, <3>1 DEF Stores
        <3>2. CASE i # Rows
            BY <1>8, <1>10, <2>2, <3>2
        <3>3. QED
            BY <3>1, <3>2
    <2>3. QED
        BY <1>10, <2>1, <2>2 DEF RowComes
<1>11. ASSUME e.type = "MarketCreated", MapComes(g, e)
       PROVE  \/ m \in markets' /\ (LockMarketsKey \in owns'[g] \/ B = {})
              \/ Map \in B /\ (List \in B \/ m \in list'[g])
    <2>1. CASE i = Map
        <3>1. i.do = "map"
            BY <2>1 DEF Map, Do
        <3>2. LockMarketsKey \in owns[g] /\ markets \subseteq list[g]
            BY <3>1, WritesAreLocked
        <3>3. m \in list[g]
            BY <1>9, <1>11, <2>1, <3>2 DEF MapComes
        <3>4. i # Unlock(LockMarketsKey)
            BY <3>1 DEF Unlock, Do
        <3>5. QED
            BY <2>1, <3>2, <3>3, <3>4 DEF Stores
    <2>2. CASE i # Map /\ m \in markets /\ LockMarketsKey \in owns[g]
        <3>1. m \in markets'
            BY <2>2 DEF Stores
        <3>2. i = Unlock(LockMarketsKey) => B = {}
            BY <1>1 DEF Never
        <3>3. i # Unlock(LockMarketsKey) => LockMarketsKey \in owns'[g]
            BY <2>2 DEF Stores
        <3>4. QED
            BY <3>1, <3>2, <3>3
    <2>3. CASE i # Map /\ Map \in In(todo[g][1]) /\ (List \in In(todo[g][1]) \/ m \in list[g])
        BY <1>8, <1>11, <2>3
    <2>4. QED
        BY <1>11, <2>1, <2>2, <2>3 DEF MapComes
<1>12. ASSUME e.type # "MarketCreated", BookComes(g, e)
       PROVE  \/ BookReaches(m, e.number)'
              \/ Book(m) \in B /\ (Buys(m) \in B \/ BuysAreSince(g, m, e.number)')
    BY <1>7, <1>12, <1>14 DEF BookComes
<1>13. QED
    BY <1>5, <1>6, <1>10, <1>11, <1>12

LEMMA LengthOfRest ==
    ASSUME NEW parts \in Seq(Parts), parts # <<>>
    PROVE  /\ Len(parts) \in Nat \ {0} /\ DOMAIN parts = 1..Len(parts) /\ parts[1] \in Parts
           /\ Len(parts[1]) = 1 =>
                /\ Len(Rest(parts)) = Len(parts) - 1
                /\ Rest(parts) = <<>> <=> Len(parts) = 1
                /\ \A j \in 1..(Len(parts) - 1): Rest(parts)[j] = parts[j + 1]
           /\ Len(parts[1]) # 1 =>
                /\ Len(Rest(parts)) = Len(parts) /\ Rest(parts) # <<>>
                /\ Rest(parts)[1] = Tail(parts[1])
                /\ \A j \in 2..Len(parts): Rest(parts)[j] = parts[j]
<1>1. /\ Head(parts) = parts[1] /\ parts[1] \in Parts /\ 1 \in DOMAIN parts
      /\ Tail(parts) \in Seq(Parts) /\ Len(Tail(parts)) = Len(parts) - 1
      /\ Len(parts) \in Nat \ {0} /\ DOMAIN parts = 1..Len(parts)
      /\ \A j \in 1..(Len(parts) - 1): Tail(parts)[j] = parts[j + 1]
    BY HeadTailProperties, LenProperties, EmptySeq
<1>2. ASSUME NEW s \in Seq(Parts)
      PROVE  s = <<>> <=> Len(s) = 0
    BY EmptySeq
<1>3. CASE Len(parts[1]) = 1
    <2>1. Rest(parts) = Tail(parts)
        BY <1>1, <1>3 DEF Rest
    <2>2. Tail(parts) = <<>> <=> Len(Tail(parts)) = 0
        BY <1>1, <1>2, Zenon
    <2>3. Len(Tail(parts)) = 0 <=> Len(parts) = 1
        BY <1>1
    <2>4. Tail(parts) = <<>> <=> Len(parts) = 1
        BY <2>2, <2>3, Zenon
    <2>5. QED
        BY <1>1, <1>3, <2>1, <2>4
<1>4. CASE Len(parts[1]) # 1
    <2>1. /\ Rest(parts) \in Seq(Parts) /\ DOMAIN Rest(parts) = DOMAIN parts
          /\ \A j \in DOMAIN parts: Rest(parts)[j] = IF j = 1 THEN Tail(parts[1]) ELSE parts[j]
        BY <1>4, RestOfProgram
    <2>2. DOMAIN Rest(parts) = 1..Len(Rest(parts)) /\ Len(Rest(parts)) \in Nat
        BY <2>1, LenProperties
    <2>3. Len(Rest(parts)) = Len(parts)
        BY <1>1, <2>1, <2>2
    <2>4. Rest(parts) # <<>>
        <3>1. Rest(parts) = <<>> <=> Len(Rest(parts)) = 0
            BY <1>2, <2>1, Zenon
        <3>2. Len(Rest(parts)) # 0
            BY <1>1, <2>3
        <3>3. QED
            BY <3>1, <3>2, Zenon
    <2>5. \A j \in 2..Len(parts): j \in DOMAIN parts /\ j # 1
        BY <1>1
    <2>6. \A j \in 2..Len(parts): Rest(parts)[j] = parts[j]
        BY <2>1, <2>5
    <2>7. Rest(parts)[1] = Tail(parts[1])
        BY <1>1, <2>1
    <2>8. QED
        BY <1>1, <1>4, <2>3, <2>4, <2>6, <2>7, Zenon
<1>5. QED
    BY <1>1, <1>3, <1>4

\* The end of a part, after which the next one begins.
LEMMA EndOfPart ==
    ASSUME ListenerInv, Numbers', Grows, NEW g \in Goroutine, todo[g] # <<>>, Stores(g),
           NEW e \in Event, Happened(e), Progress(g, e), Len(todo[g][1]) = 1
    PROVE  /\ Len(todo[g]) = 1 => Reflects(e)'
           /\ Len(todo[g]) # 1 => Progress(g, e)'
<1> DEFINE m == e.market
           n == Len(todo[g])
           B == In(Tail(todo[g][1]))
<1>1. /\ n \in Nat \ {0} /\ Len(todo'[g]) = n - 1
      /\ \A j \in 1..(n - 1): todo'[g][j] = todo[g][j + 1]
      /\ \A j \in 2..n: Whole(todo[g][j])
    BY LengthOfRest DEF ListenerInv, ProgramOK, Stores
<1>2. B = {}
    <2>1. todo[g][1] \in Parts
        BY LengthOfRest DEF ListenerInv
    <2>2. Tail(todo[g][1]) = <<>>
        BY <2>1, TailOfPart
    <2>3. QED
        BY <2>2 DEF In
<1>3. m \in Market /\ e.number \in Nat /\ e.type \in EventType
    BY EventIsSomething
<1>4. /\ e.number <= history[m] => e.number <= history'[m]
      /\ e.number <= intervals[m] => e.number <= intervals'[m]
    <2>1. /\ history[m] \in Nat /\ history'[m] \in Nat /\ intervals[m] \in Nat
                /\ intervals'[m] \in Nat
          /\ history[m] <= history'[m] /\ intervals[m] <= intervals'[m]
        BY <1>3, TypesAreNumbers DEF ListenerInv, Numbers, Grows
    <2> HIDE DEF m
    <2>2. QED
        BY <1>3, <2>1
<1>5. rows \subseteq rows'
    BY DEF Grows
<1>6. /\ e.type = "OrderExecuted" /\ HistoryComes(g, e) => e.number <= history'[m]
      /\ e.number <= history[m] /\ IntervalsCome(g, e) => e.number <= intervals'[m]
      /\ e.type # "MarketCreated" /\ BookComes(g, e) => BookReaches(m, e.number)'
      /\ e.type = "MarketCreated" /\ RowComes(g, e) => m \in rows'
      /\ e.type = "MarketCreated" /\ MapComes(g, e) => m \in markets'
    BY <1>2, ComesNext
<1> HIDE DEF B
<1>7. CASE n = 1
    <2>1. e.type = "MarketCreated" => m \in markets' /\ m \in rows'
        BY <1>5, <1>6, <1>7 DEF Progress
    <2>2. e.type = "OrderSaved" => BookReaches(m, e.number)'
        BY <1>6, <1>7 DEF Progress
    <2>3. e.type = "OrderExecuted" =>
            BookReaches(m, e.number)' /\ e.number <= history'[m] /\ e.number <= intervals'[m]
        BY <1>4, <1>6, <1>7 DEF Progress
    <2>4. QED
        BY <1>3, <1>7, <2>1, <2>2, <2>3 DEF Reflects, EventType
<1>8. CASE n = 2
    <2>1. Len(todo'[g]) = 1 /\ todo'[g][1] = todo[g][2] /\ Whole(todo[g][2])
        BY <1>1, <1>8
    <2>2. e.type # "OrderSaved"
        BY <1>8 DEF Progress
    <2>3. ASSUME e.type = "MarketCreated"
          PROVE  m \in rows' /\ MapComes(g, e)'
        <3>1. RowComes(g, e) /\ Map \in In(todo[g][2])
            BY <1>8, <2>3 DEF Progress
        <3>2. List \in In(todo[g][2])
            BY <2>1, <3>1 DEF Whole
        <3>3. QED
            BY <1>6, <2>1, <2>3, <3>1, <3>2 DEF MapComes
    <2>4. ASSUME e.type = "OrderExecuted"
          PROVE  e.number <= history'[m] /\ e.number <= intervals'[m] /\ BookComes(g, e)'
        <3>1. e.number <= history[m] /\ IntervalsCome(g, e) /\ Book(m) \in In(todo[g][2])
            BY <1>8, <2>4 DEF Progress
        <3>2. Buys(m) \in In(todo[g][2])
            BY <1>3, <2>1, <3>1 DEF Whole
        <3>3. QED
            BY <1>4, <1>6, <2>1, <3>1, <3>2 DEF BookComes
    <2>5. QED
        BY <1>8, <2>1, <2>2, <2>3, <2>4 DEF Progress
<1>9. CASE n \notin {1, 2}
    <2>1. e.type = "OrderExecuted" /\ n = 3
        BY <1>3, <1>9 DEF Progress, EventType
    <2>2. Len(todo'[g]) = 2 /\ todo'[g][1] = todo[g][2] /\ todo'[g][2] = todo[g][3]
        BY <1>1, <2>1
    <2>3. HistoryComes(g, e) /\ Intervals(m) \in In(todo[g][2]) /\ Book(m) \in In(todo[g][3])
        BY <2>1 DEF Progress
    <2>4. IntervalsCome(g, e)'
        BY <2>2, <2>3 DEF IntervalsCome
    <2>5. QED
        BY <1>6, <2>1, <2>2, <2>3, <2>4 DEF Progress
<1>10. QED
    BY <1>7, <1>8, <1>9

\* An instruction with others of its part after it.
LEMMA WithinPart ==
    ASSUME ListenerInv, Numbers', Grows, NEW g \in Goroutine, todo[g] # <<>>, Stores(g),
           NEW e \in Event, Happened(e), Progress(g, e), Len(todo[g][1]) # 1
    PROVE  Progress(g, e)'
<1> DEFINE m == e.market
           n == Len(todo[g])
           B == In(Tail(todo[g][1]))
<1>1. /\ n \in Nat \ {0} /\ Len(todo'[g]) = n /\ todo'[g][1] = Tail(todo[g][1])
      /\ \A j \in 2..n: todo'[g][j] = todo[g][j]
    BY LengthOfRest DEF ListenerInv, Stores
<1>2. B # {}
    <2>1. todo[g][1] \in Parts
        BY LengthOfRest DEF ListenerInv
    <2>2. Tail(todo[g][1]) \in Parts
        BY <2>1, TailOfPart
    <2>3. Head(Tail(todo[g][1])) \in B
        BY <2>2, TailOfPart
    <2>4. QED
        BY <2>3
<1>3. m \in Market /\ e.number \in Nat /\ e.type \in EventType
    BY EventIsSomething
<1>4. /\ e.number <= history[m] => e.number <= history'[m]
      /\ e.number <= intervals[m] => e.number <= intervals'[m]
    <2>1. /\ history[m] \in Nat /\ history'[m] \in Nat /\ intervals[m] \in Nat
                /\ intervals'[m] \in Nat
          /\ history[m] <= history'[m] /\ intervals[m] <= intervals'[m]
        BY <1>3, TypesAreNumbers DEF ListenerInv, Numbers, Grows
    <2> HIDE DEF m
    <2>2. QED
        BY <1>3, <2>1
<1>5. In(todo[g][1])' = B
    BY <1>1
<1>6. rows \subseteq rows'
    BY DEF Grows
<1>7. /\ e.type = "OrderExecuted" /\ HistoryComes(g, e) => HistoryComes(g, e)'
      /\ e.number <= history[m] /\ IntervalsCome(g, e) => IntervalsCome(g, e)'
      /\ e.type # "MarketCreated" /\ BookComes(g, e) => BookComes(g, e)'
    <2> HIDE DEF B
    <2>1. QED
        BY <1>5, ComesNext DEF HistoryComes, IntervalsCome, BookComes, B
<1>8. e.type = "MarketCreated" /\ RowComes(g, e) => RowComes(g, e)'
    BY <1>5, ComesNext DEF RowComes
<1>9. e.type = "MarketCreated" /\ MapComes(g, e) => MapComes(g, e)'
    BY <1>2, <1>5, ComesNext DEF MapComes
<1> HIDE DEF B
<1>10. ASSUME e.type = "MarketCreated"
       PROVE  Progress(g, e)'
    <2>1. CASE n = 2 /\ RowComes(g, e) /\ Map \in In(todo[g][2])
        <3>1. todo'[g][2] = todo[g][2]
            BY <1>1, <2>1
        <3>2. QED
            BY <1>1, <1>8, <1>10, <2>1, <3>1 DEF Progress
    <2>2. CASE n = 1 /\ m \in rows /\ MapComes(g, e)
        BY <1>1, <1>6, <1>9, <1>10, <2>2 DEF Progress
    <2>3. QED
        BY <1>10, <2>1, <2>2 DEF Progress
<1>11. ASSUME e.type = "OrderExecuted"
       PROVE  Progress(g, e)'
    <2>1. CASE n = 3
        <3>1. todo'[g][2] = todo[g][2] /\ todo'[g][3] = todo[g][3]
            BY <1>1, <2>1
        <3>2. HistoryComes(g, e) /\ Intervals(m) \in In(todo[g][2]) /\ Book(m) \in In(todo[g][3])
            BY <1>11, <2>1 DEF Progress
        <3>3. QED
            BY <1>1, <1>7, <1>11, <2>1, <3>1, <3>2 DEF Progress
    <2>2. CASE n = 2
        <3>1. todo'[g][2] = todo[g][2]
            BY <1>1, <2>2
        <3>2. e.number <= history[m] /\ IntervalsCome(g, e) /\ Book(m) \in In(todo[g][2])
            BY <1>11, <2>2 DEF Progress
        <3>3. QED
            BY <1>1, <1>4, <1>7, <1>11, <2>2, <3>1, <3>2 DEF Progress
    <2>3. CASE n = 1
        <3>1. e.number <= history[m] /\ e.number <= intervals[m] /\ BookComes(g, e)
            BY <1>11, <2>3 DEF Progress
        <3>2. QED
            BY <1>1, <1>4, <1>7, <1>11, <2>3, <3>1 DEF Progress
    <2>4. QED
        BY <1>11, <2>1, <2>2, <2>3 DEF Progress
<1>12. ASSUME e.type = "OrderSaved"
       PROVE  Progress(g, e)'
    BY <1>1, <1>7, <1>12 DEF Progress
<1>13. QED
    BY <1>3, <1>10, <1>11, <1>12 DEF EventType

LEMMA OwnProgress ==
    ASSUME ListenerInv, HandlersInv, Numbers', Grows, NEW g \in Handler, todo[g] # <<>>, Stores(g)
    PROVE  Kept(g)
<1>1. /\ g \in Goroutine /\ todo[g] \in Seq(Parts) /\ handles[g] \in Event \union {NoEvent}
      /\ handles'[g] = IF Rest(todo[g]) = <<>> THEN NoEvent ELSE handles[g]
    BY DEF Handler, ListenerInv, TypeOK, Stores
<1>2. CASE handles[g] = NoEvent
    BY <1>1, <1>2, EventIsSomething DEF Kept
<1>3. ASSUME NEW e \in Event, handles[g] = e
      PROVE  Kept(g)
    <2>1. Numbers /\ Happened(e) /\ Progress(g, e) /\ e # NoEvent
        BY <1>3, EventIsSomething, TypesAreNumbers DEF HandlersInv, ListenerInv
    <2>2. Happened(e)'
        BY <2>1, HappenedStays
    <2>3. CASE Len(todo[g][1]) = 1 /\ Len(todo[g]) = 1
        <3>1. handles'[g] = NoEvent
            BY <1>1, <2>3, LengthOfRest
        <3>2. Reflects(e)'
            BY <1>1, <2>1, <2>3, EndOfPart
        <3>3. QED
            BY <1>3, <3>1, <3>2 DEF Kept
    <2>4. CASE Len(todo[g][1]) # 1 \/ Len(todo[g]) # 1
        <3>1. handles'[g] = e
            BY <1>1, <1>3, <2>4, LengthOfRest
        <3>2. Progress(g, e)'
            BY <1>1, <2>1, <2>4, EndOfPart, WithinPart
        <3>3. QED
            BY <2>1, <2>2, <3>1, <3>2 DEF Kept
    <2>5. QED
        BY <2>3, <2>4
<1>4. QED
    BY <1>1, <1>2, <1>3

\* Nobody else touches the map of a goroutine that has locked it.
LEMMA MapIsOnes ==
    ASSUME ListenerInv, NEW g \in Goroutine, NEW h \in Goroutine, g # h, LockMarketsKey \in owns[h],
           Call(g) \/ MapFails(g)
    PROVE  markets' = markets
<1>1. LockMarketsKey \notin owns[g]
    BY DEF ListenerInv, LockerInv, MutualExclusion
<1>2. ASSUME StoreMap(g)
      PROVE  FALSE
    <2>1. todo[g] # <<>> /\ Next1(g).do = "map"
        BY <1>2 DEF StoreMap, Runs
    <2>2. QED
        BY <1>1, <2>1, WritesAreLocked
<1>3. ASSUME MapFails(g)
      PROVE  FALSE
    <2>1. /\ todo[g] # <<>> /\ Next1(g).do = "list"
          /\ Len(Head(todo[g])) > 1 /\ Head(todo[g])[2].do = "map"
        BY <1>3 DEF MapFails, Runs
    <2>2. /\ Head(todo[g]) = todo[g][1] /\ todo[g][1] \in Parts /\ Next1(g) \in Instruction
          /\ In(todo[g][1]) = {Next1(g)} \union In(Tail(todo[g][1]))
          /\ \A b \in In(Tail(todo[g][1])): ~Never(Next1(g), b)
          /\ Fits(g, todo[g][1])
        BY <2>1, TypeOfNext, TailOfPart DEF ListenerInv, ProgramOK
    <2>3. todo[g][1] \in Seq(Instruction) /\ 2 \in DOMAIN todo[g][1]
        BY <2>1, <2>2, LenProperties DEF Parts
    <2>4. todo[g][1][2] \in Instruction /\ todo[g][1][2].do = "map"
        BY <2>1, <2>2, <2>3, ElementOfSeq
    <2>5. todo[g][1][2] = Map /\ Map \in In(todo[g][1])
        BY <2>3, <2>4, OperandOfMarkets DEF Map, In
    <2>6. Lock(LockMarketsKey) \notin In(todo[g][1])
        BY <2>1, <2>2 DEF Never, Lock, Do
    <2>7. QED
        BY <1>1, <2>2, <2>5, <2>6 DEF Fits
<1>4. QED
    BY <1>2, <1>3 DEF Call, StoreHistory, StoreIntervals, GetBuys, StoreBook, GetAllMarkets,
                      DateMarkets, AskFirstTrades, StoreMarkets

LEMMA AfterLocking ==
    ASSUME ListenerInv, HandlersInv, Numbers', Grows, NEW g \in Goroutine,
           AcquireLock(g) \/ ReleaseLock(g),
           NEW h \in Handler
    PROVE  Kept(h)
<1>1. UNCHANGED <<markets, tables, list, height, hasBuys>> /\ running /\ h \in Goroutine
    BY DEF AcquireLock, ReleaseLock, local, Runs, Handler
<1>2. /\ todo \in [Goroutine -> Seq(Parts)] /\ handles \in [Goroutine -> Event \union {NoEvent}]
      /\ LockerTypeOK
    BY DEF ListenerInv, LockerInv, TypeOK
<1>3. CASE UNCHANGED <<todo, handles, owns>>
    BY <1>1, <1>3, OthersProgress
<1>4. ASSUME Done(g), LockMutex(g) \/ UnlockMutex(g)
      PROVE  Kept(h)
    <2>1. CASE h = g
        BY <1>1, <1>4, <2>1, LockStores, OwnProgress
    <2>2. CASE h # g
        <3>1. todo'[h] = todo[h] /\ handles'[h] = handles[h]
            BY <1>1, <1>2, <1>4, <2>2 DEF Done, GoOn
        <3>2. owns'[h] = owns[h]
            BY <1>1, <1>2, <1>4, <2>2 DEF LockMutex, UnlockMutex, LockerTypeOK
        <3>3. QED
            BY <1>1, <3>1, <3>2, OthersProgress
    <2>3. QED
        BY <2>1, <2>2
<1>5. QED
    BY <1>3, <1>4 DEF AcquireLock, ReleaseLock, FindForLock, FindForUnlock, local

LEMMA AfterCalling ==
    ASSUME ListenerInv, HandlersInv, Numbers', Grows, NEW g \in Goroutine,
           Call(g) \/ CallFails(g) \/ MapFails(g), NEW h \in Handler
    PROVE  Kept(h)
<1>1. /\ todo \in [Goroutine -> Seq(Parts)] /\ handles \in [Goroutine -> Event \union {NoEvent}]
      /\ list \in [Goroutine -> SUBSET Market] /\ height \in [Goroutine -> 0..MaxEvents]
      /\ hasBuys \in [Goroutine -> BOOLEAN] /\ faults \in Nat /\ h \in Goroutine
    BY ListenerAssumption DEF ListenerInv, TypeOK, Handler
<1>2. owns' = owns /\ todo[g] # <<>>
    BY DEF Call, CallFails, MapFails, lockerVars, Runs, StoreHistory, StoreIntervals, GetBuys,
       StoreBook,
           GetAllMarkets, DateMarkets, AskFirstTrades, StoreMarkets, StoreMap
<1>3. CASE h # g
    <2>1. markets' = markets \/ LockMarketsKey \notin owns[h]
        <3>1. CallFails(g) => markets' = markets
            BY DEF CallFails
        <3>2. QED
            BY <1>1, <1>3, <3>1, MapIsOnes
    <2>2. todo'[h] = todo[h] /\ handles'[h] = handles[h] /\ list'[h] = list[h]
          /\ height'[h] = height[h] /\ hasBuys'[h] = hasBuys[h]
        <3>1. CASE CallFails(g) \/ MapFails(g)
            BY <1>1, <1>3, <3>1 DEF CallFails, MapFails, Forget
        <3>2. CASE Call(g)
            <4>1. todo'[h] = todo[h] /\ handles'[h] = handles[h]
                BY <1>1, <1>3, <3>2 DEF Call, StoreHistory, StoreIntervals, GetBuys, StoreBook,
                     GetAllMarkets, DateMarkets, AskFirstTrades, StoreMarkets, StoreMap, Done, GoOn
            <4>2. list'[h] = list[h] /\ height'[h] = height[h] /\ hasBuys'[h] = hasBuys[h]
                BY <1>1, <1>3, <3>2 DEF Call, StoreHistory, StoreIntervals, GetBuys, StoreBook,
                     GetAllMarkets, DateMarkets, AskFirstTrades, StoreMarkets, StoreMap, Forget
            <4>3. QED
                BY <4>1, <4>2
        <3>3. QED
            BY <3>1, <3>2
    <2>3. QED
        BY <1>2, <2>1, <2>2, OthersProgress
<1>4. CASE h = g /\ Call(g)
    BY <1>1, <1>2, <1>4, CallStores, OwnProgress DEF Handler
<1>5. CASE h = g /\ (CallFails(g) \/ MapFails(g))
    <2>1. handles'[g] = NoEvent /\ faults' # faults
        BY <1>1, <1>5 DEF CallFails, MapFails
    <2>2. QED
        BY <1>5, <2>1 DEF Kept
<1>6. QED
    BY <1>3, <1>4, <1>5

\* A handler begins with all of its event's program before it.
LEMMA ProgramProgresses ==
    ASSUME NEW g \in Goroutine, NEW e \in Event, todo'[g] = Program(e)
    PROVE  Progress(g, e)'
<1>1. e.market \in Market /\ e.type \in EventType
    BY EventIsSomething
<1>2. CASE e.type = "MarketCreated"
    <2>1. todo'[g] = <<SyncMarkets, RefreshMarkets>>
        BY <1>2 DEF Program
    <2>2. Len(todo'[g]) = 2 /\ todo'[g][1] = SyncMarkets /\ todo'[g][2] = RefreshMarkets
        BY <2>1
    <2>3. Rows \in In(todo'[g][1]) /\ List \in In(todo'[g][1]) /\ Map \in In(todo'[g][2])
        BY <2>2, MarketsPart, RefreshPart DEF Asking, Rows, List, Map
    <2>4. QED
        BY <1>2, <2>2, <2>3 DEF Progress, RowComes
<1>3. CASE e.type = "OrderExecuted"
    <2>1. todo'[g] = <<SyncHistory(e.market), SyncIntervals(e.market), SyncMarket(e.market)>>
        BY <1>3 DEF Program, OrderExecuted
    <2>2. /\ Len(todo'[g]) = 3 /\ todo'[g][1] = SyncHistory(e.market)
          /\ todo'[g][2] = SyncIntervals(e.market) /\ todo'[g][3] = SyncMarket(e.market)
        BY <2>1
    <2>3. /\ History(e.market) \in In(todo'[g][1]) /\ Intervals(e.market) \in In(todo'[g][2])
          /\ Book(e.market) \in In(todo'[g][3])
        BY <1>1, <2>2, HistoryPart, IntervalsPart, OrdersPart DEF History, Intervals, Book
    <2>4. QED
        BY <1>3, <2>2, <2>3 DEF Progress, HistoryComes
<1>4. CASE e.type = "OrderSaved"
    <2>1. todo'[g] = <<SyncMarket(e.market)>>
        BY <1>4 DEF Program
    <2>2. Len(todo'[g]) = 1 /\ todo'[g][1] = SyncMarket(e.market)
        BY <2>1
    <2>3. Book(e.market) \in In(todo'[g][1]) /\ Buys(e.market) \in In(todo'[g][1])
        BY <1>1, <2>2, OrdersPart DEF Buys, Book
    <2>4. QED
        BY <1>4, <2>2, <2>3 DEF Progress, BookComes
<1>5. QED
    BY <1>1, <1>2, <1>3, <1>4 DEF EventType

LEMMA AfterListening ==
    ASSUME ListenerInv, HandlersInv, Numbers', Grows, NEW g \in Handler, Listen(g),
           NEW h \in Handler
    PROVE  Kept(h)
<1>1. PICK e \in pending: HandleMessage(g, e)
    BY DEF Listen
<1>2. /\ e \in Event /\ Happened(e) /\ Numbers /\ g \in Goroutine /\ h \in Goroutine
      /\ todo \in [Goroutine -> Seq(Parts)] /\ handles \in [Goroutine -> Event \union {NoEvent}]
    BY <1>1, TypesAreNumbers DEF ListenerInv, HandlersInv, TypeOK, Handler
<1>3. UNCHANGED <<owns, list, height, hasBuys, markets>>
    BY <1>1 DEF HandleMessage, lockerVars
<1>4. CASE todo'[h] = todo[h] /\ handles'[h] = handles[h]
    BY <1>3, <1>4, OthersProgress
<1>5. CASE h = g /\ todo' = [todo EXCEPT ![g] = Program(e)] /\ handles' = [handles EXCEPT ![g] = e]
    <2>1. todo'[g] = Program(e) /\ handles'[g] = e
        BY <1>2, <1>5
    <2>2. Progress(g, e)'
        BY <1>2, <2>1, ProgramProgresses
    <2>3. Happened(e)'
        BY <1>2, HappenedStays
    <2>4. QED
        BY <1>2, <1>5, <2>1, <2>2, <2>3, EventIsSomething DEF Kept
<1>6. \/ UNCHANGED <<todo, handles>>
      \/ todo' = [todo EXCEPT ![g] = Program(e)] /\ handles' = [handles EXCEPT ![g] = e]
    BY <1>1 DEF HandleMessage
<1>7. QED
    BY <1>2, <1>4, <1>5, <1>6

LEMMA NextKeepsHandlers ==
    ASSUME ListenerInv, HandlersInv, [Next]_vars, Numbers'
    PROVE  HandlersInv' /\ \A h \in Handler: Kept(h)
<1>1. Grows /\ Numbers /\ pending \subseteq Event /\ faults \in Nat
    <2>1. pending \subseteq Event /\ faults \in 0..MaxFaults /\ MaxFaults \in Nat
        BY ListenerAssumption DEF ListenerInv, TypeOK
    <2>2. QED
        BY <2>1, NextGrows, TypesAreNumbers DEF ListenerInv
<1>2. ASSUME NEW h \in Handler
      PROVE  Kept(h)
    <2>1. ASSUME UNCHANGED <<lockerVars, todo, handles, list, height, hasBuys, markets>>
          PROVE  Kept(h)
        BY <1>1, <2>1, OthersProgress DEF lockerVars
    <2>2. ASSUME NEW g \in Goroutine, AcquireLock(g) \/ Run(g) \/ CallFails(g) \/ MapFails(g)
          PROVE  Kept(h)
        BY <1>1, <2>2, AfterLocking, AfterCalling DEF Run
    <2>3. ASSUME NEW g \in Handler, Listen(g)
          PROVE  Kept(h)
        BY <1>1, <2>3, AfterListening
    <2>4. ASSUME NEW type, NEW m, NEW stream, Emit(type, m, stream) \/ Subscribe(stream)
          PROVE  Kept(h)
        BY <2>1, <2>4 DEF Emit, Subscribe, local
    <2>5. CASE Stop
        <3>1. handles'[h] = NoEvent /\ faults' # faults
            BY <1>1, <2>5 DEF Stop, Handler
        <3>2. QED
            BY <3>1 DEF Kept
    <2>6. CASE UNCHANGED vars
        BY <2>1, <2>6 DEF vars, local
    <2>7. QED
        BY <2>2, <2>3, <2>4, <2>5, <2>6 DEF Next
<1>3. ASSUME NEW e \in pending'
      PROVE  Happened(e)'
    <2>1. CASE e \in pending
        BY <1>1, <2>1, HappenedStays DEF HandlersInv
    <2>2. ASSUME NEW type \in EventType, NEW m \in Market, NEW stream \in Stream,
                 Emit(type, m, stream),
                 e = [type |-> type, market |-> m, number |-> emitted + 1]
          PROVE  Happened(e)'
        <3>1. e.type = type /\ e.market = m /\ e.number = emitted + 1
            BY <2>2
        <3>2. m \in created'
            BY <2>2 DEF Emit
        <3>3. type # "MarketCreated" => event'[m] = emitted + 1
            BY <1>1, <2>2 DEF Emit, Numbers
        <3>4. type = "OrderExecuted" => trade'[m] = emitted + 1
            BY <1>1, <2>2 DEF Emit, Numbers
        <3>5. emitted + 1 <= emitted + 1
            BY <1>1 DEF Numbers
        <3>6. QED
            BY <3>1, <3>2, <3>3, <3>4, <3>5 DEF Happened
    <2>3. ASSUME NEW type \in EventType, NEW m \in Market, NEW stream \in Stream,
                 Emit(type, m, stream)
          PROVE  e \in pending \/ e = [type |-> type, market |-> m, number |-> emitted + 1]
        BY <2>3 DEF Emit
    <2>4. ASSUME NEW g \in Goroutine, AcquireLock(g) \/ Run(g) \/ CallFails(g) \/ MapFails(g)
          PROVE  e \in pending
        BY <2>4 DEF AcquireLock, Run, ReleaseLock, Call, CallFails, MapFails
    <2>5. ASSUME NEW g \in Handler, Listen(g)
          PROVE  e \in pending
        BY <2>5 DEF Listen, HandleMessage
    <2>6. ASSUME NEW stream \in Stream, Subscribe(stream)
          PROVE  e \in pending
        BY <2>6 DEF Subscribe
    <2>7. CASE Stop
        BY <2>7 DEF Stop
    <2>8. CASE UNCHANGED vars
        BY <2>1, <2>8 DEF vars
    <2>9. QED
        BY <2>1, <2>2, <2>3, <2>4, <2>5, <2>6, <2>7, <2>8 DEF Next
<1>4. QED
    BY <1>2, <1>3 DEF HandlersInv, Kept

LEMMA NextIsNumbers == ListenerInv /\ [Next]_vars => Numbers'
<1>1. ListenerInv => Numbers
    BY TypesAreNumbers DEF ListenerInv
<1>2. QED
    BY <1>1, NextListenerInv, PTL

LEMMA HandlersInvHolds == Spec => [](ListenerInv /\ HandlersInv)
<1>1. Init => HandlersInv
    BY DEF Init, HandlersInv, Handler
<1>2. ListenerInv /\ HandlersInv /\ [Next]_vars => HandlersInv'
    BY NextIsNumbers, NextKeepsHandlers
<1>3. QED
    BY <1>1, <1>2, InitListenerInv, NextListenerInv, PTL DEF Spec

\* A handler that returns after no call of it has failed leaves its event in
\* every table it is about, whatever the other handlers and the chain do in the
\* meantime: they store nothing older, and keep to the locks.
THEOREM HandledIsSyncedTheorem == Spec => HandledIsSynced
<1>1. ListenerInv /\ HandlersInv /\ [Next]_vars =>
          \A g \in Handler, e \in Event:
              handles[g] = e /\ handles'[g] = NoEvent /\ faults' = faults => Reflects(e)'
    BY NextIsNumbers, NextKeepsHandlers DEF Kept
<1>2. QED
    BY <1>1, HandlersInvHolds, PTL DEF Spec, HandledIsSynced
-----------------------------------------------------------------------------
(* What becomes of every event, lost or received, until the process is quiet. *)

\* The event is in the tables, or a call that failed or a look at the map in
\* vain has left it to the market's next one.
Settled(e) ==
    \/ Reflects(e)
    \/ e.type # "MarketCreated" /\ e.number <= missed[e.market]
    \/ e.type = "MarketCreated" /\ (faults # 0 \/ missed[e.market] # 0)

\* The markets of the start wait for initialSync: first for its map,
UnlockGrpc == Do("unlock", GrpcLockName)
MapWaits ==
    \/ Len(todo[Main]) = 2 /\ todo[Main][2] = GetMarketsMap /\ Map \notin In(todo[Main][1])
    \/ /\ Len(todo[Main]) = 1
       /\ \/ todo[Main][1] \in {GetMarketsMap, <<UnlockGrpc, List, Map>>, <<List, Map>>}
          \/ todo[Main][1] = <<Map>> /\ Listed \subseteq list[Main]

\* then for the rounds of its loop before theirs,
RoundWaits(m) == \E j \in DOMAIN todo[Main]: j # 1 /\ todo[Main][j] = Each(m)

\* and then for theirs.
IsAbout(part, m) ==
    \A i \in In(part):
        i.do \notin {"lock", "unlock"} =>
            i.do \in {"history", "intervals", "buys", "book"} /\ i.on = m

RoundGoesOn(e) ==
    /\ todo[Main] # <<>> /\ IsAbout(todo[Main][1], e.market)
    /\ HistoryComes(Main, e) /\ IntervalsCome(Main, e) /\ BookComes(Main, e)

InitiallySynced(e) ==
    /\ e.type = "OrderExecuted" /\ e.number = 1 /\ e.market \in Listed
    /\ MapWaits \/ RoundWaits(e.market) \/ RoundGoesOn(e)

Waits(e) == e \in pending \/ (\E g \in Handler: handles[g] = e) \/ InitiallySynced(e)

Covered(e) == Settled(e) \/ Waits(e)

\* A handler of a market's orders does nothing else.
HandlesItsMarket(g) ==
    handles[g] # NoEvent /\ handles[g].type # "MarketCreated" =>
        \A j \in DOMAIN todo[g]: IsAbout(todo[g][j], handles[g].market)

\* The map is got once by initialSync.
MapComesOnce == \A j \in DOMAIN todo[Main]: Map \in In(todo[Main][j]) => MapWaits

EventOf(type, m, n) == [type |-> type, market |-> m, number |-> n]

\* The last trade of a market, the last change of its book and its creation.
MarketCovered(m) ==
    /\ \A n \in 1..MaxEvents: trade[m] = n => Covered(EventOf("OrderExecuted", m, n))
    /\ \A n \in 1..MaxEvents:
           event[m] = n /\ trade[m] # n => Covered(EventOf("OrderSaved", m, n))
    /\ \E n \in 1..MaxEvents: Covered(EventOf("MarketCreated", m, n))

ChainFits ==
    /\ Listed \subseteq created
    /\ \A m \in Market: trade[m] <= event[m] /\ (m \notin created => event[m] = 0)

CoverInv ==
    /\ ChainFits
    /\ running =>
         /\ MapComesOnce
         /\ \A g \in Handler: HandlesItsMarket(g)
         /\ \A m \in created: MarketCovered(m)

\* A round of the loop is about its market and stores it in every table.
LEMMA RoundOfMarket ==
    ASSUME NEW m \in Market
    PROVE  /\ Each(m) \in Parts /\ IsAbout(Each(m), m) /\ Map \notin In(Each(m))
           /\ {History(m), Intervals(m), Buys(m), Book(m)} \subseteq In(Each(m))
<1>1. /\ Each(m) \in Parts
      /\ In(Each(m)) = In(SyncHistory(m)) \union In(SyncMarket(m)) \union In(SyncIntervals(m))
    BY EachPart
<1>2. /\ Map \notin In(Each(m))
      /\ {History(m), Intervals(m), Buys(m), Book(m)} \subseteq In(Each(m))
    BY <1>1, HistoryPart, OrdersPart, IntervalsPart
    DEF Connection, Map, History, Intervals, Book, Buys, Lock, Unlock, Do
<1>3. ASSUME NEW i \in In(Each(m)), i.do \notin {"lock", "unlock"}
      PROVE  i.do \in {"history", "intervals", "buys", "book"} /\ i.on = m
    BY <1>1, <1>3, HistoryPart, OrdersPart, IntervalsPart DEF Connection, Lock, Unlock, Do
<1>4. QED
    BY <1>1, <1>2, <1>3 DEF IsAbout

\* The loop has a round for each market of its order.
LEMMA RoundsOfLoop ==
    ASSUME NEW n \in Nat, NEW order \in [1..n -> Market], NEW k \in 1..n
    PROVE  k \in DOMAIN SyncEach(order) /\ SyncEach(order)[k] = Each(order[k])
<1> DEFINE loop == [j \in DOMAIN order |->
                      SyncHistory(order[j]) \o SyncMarket(order[j]) \o SyncIntervals(order[j])]
           last == <<Do("unlock", LockMarketsKey)>>
           end == <<last>>
<1>1. DOMAIN order = 1..n /\ \A j \in 1..n: order[j] \in Market
    OBVIOUS
<1>2. \A j \in 1..n: loop[j] = Each(order[j]) /\ loop[j] \in Parts
    BY <1>1, EachPart DEF Each
<1>3. loop \in [1..n -> Parts]
    BY <1>1, <1>2
<1>4. last \in Parts
    BY KeysOfMarket, LocksAreInstructions, OneInstruction DEF Unlock
<1>5. end \in Seq(Parts) /\ Len(end) = 1
    BY <1>4
<1>6. SyncEach(order) = loop \o end
    BY DEF SyncEach
<1> HIDE DEF loop, end, last
<1>7. loop \in Seq(Parts) /\ Len(loop) = n
    BY <1>3
<1>8. /\ loop \o end \in Seq(Parts) /\ Len(loop \o end) = n + 1
      /\ \A j \in 1..(n + 1): (loop \o end)[j] = IF j <= n THEN loop[j] ELSE end[j - n]
    <2>1. /\ loop \o end \in Seq(Parts) /\ Len(loop \o end) = Len(loop) + Len(end)
          /\ \A j \in 1..(Len(loop) + Len(end)):
                (loop \o end)[j] = IF j <= Len(loop) THEN loop[j] ELSE end[j - Len(loop)]
        BY <1>5, <1>7, ConcatProperties, Zenon
    <2>2. QED
        BY <1>5, <1>7, <2>1
<1>9. k \in 1..(n + 1) /\ k <= n
    OBVIOUS
<1>10. DOMAIN (loop \o end) = 1..(n + 1)
    BY <1>8, LenProperties
<1>11. QED
    BY <1>2, <1>6, <1>8, <1>9, <1>10

\* What is left of a program after a call that failed.
LEMMA PartsAfterFailure ==
    ASSUME todo \in [Goroutine -> Seq(Parts)], NEW g \in Goroutine, todo[g] # <<>>
    PROVE  LET n == Len(todo[g])
               rest == Deferred(g)
           IN  /\ n \in Nat \ {0} /\ rest \in Seq(Parts)
               /\ \/ Len(rest) = n - 1 /\ \A j \in 1..(n - 1): rest[j] = todo[g][j + 1]
                  \/ /\ Len(rest) = n /\ \A j \in 2..n: rest[j] = todo[g][j]
                     /\ \A i \in In(rest[1]): i.do = "unlock"
<1> DEFINE n == Len(todo[g])
           part == todo[g][1]
           rest == Tail(todo[g])
<1>1. /\ todo[g] \in Seq(Parts) /\ part \in Parts /\ part = Head(todo[g])
      /\ part \in Seq(Instruction)
    BY TypeOfNext DEF Parts
<1>2. /\ n \in Nat \ {0} /\ rest \in Seq(Parts) /\ Len(rest) = n - 1
      /\ \A j \in 1..(n - 1): rest[j] = todo[g][j + 1]
    BY <1>1, HeadTailProperties, LenProperties, EmptySeq
<1>3. Deferred(g) = rest \/ \E i \in In(part): i.do = "unlock" /\ Deferred(g) = <<<<i>>>> \o rest
    <2> DEFINE owed == {k \in DOMAIN part: part[k].do = "unlock" /\ part[k].on \in owns[g]}
    <2>1. Deferred(g) = IF owed = {} THEN rest ELSE <<<<part[CHOOSE k \in owed: TRUE]>>>> \o rest
        BY <1>1 DEF Deferred
    <2>2. owed # {} => (CHOOSE k \in owed: TRUE) \in owed
        OBVIOUS
    <2>3. QED
        BY <2>1, <2>2 DEF In
<1> HIDE DEF rest
<1>4. CASE Deferred(g) = rest
    BY <1>2, <1>4
<1>5. ASSUME NEW i \in In(part), i.do = "unlock", Deferred(g) = <<<<i>>>> \o rest
      PROVE  /\ Deferred(g) \in Seq(Parts) /\ Len(Deferred(g)) = n
             /\ \A j \in 2..n: Deferred(g)[j] = todo[g][j]
             /\ \A a \in In(Deferred(g)[1]): a.do = "unlock"
    <2>1. i \in Instruction
        BY <1>1, ElementOfSeq DEF In
    <2>2. <<i>> \in Parts /\ In(<<i>>) = {i}
        BY <2>1, OneInstruction
    <2>3. /\ Deferred(g) \in Seq(Parts)
          /\ DOMAIN Deferred(g) = 1..(Len(rest) + 1) /\ Deferred(g)[1] = <<i>>
          /\ \A j \in 2..(Len(rest) + 1): Deferred(g)[j] = rest[j - 1]
        BY <1>2, <1>5, <2>2, PartBefore
    <2>4. Len(Deferred(g)) = n
        BY <1>2, <2>3, LenProperties
    <2>5. ASSUME NEW j \in 2..n
          PROVE  Deferred(g)[j] = todo[g][j]
        <3>1. j \in 2..(Len(rest) + 1) /\ j - 1 \in 1..(n - 1) /\ (j - 1) + 1 = j
            BY <1>2
        <3>2. QED
            BY <1>2, <2>3, <3>1
    <2>6. QED
        BY <1>5, <2>2, <2>3, <2>4, <2>5
<1>6. QED
    BY <1>2, <1>3, <1>4, <1>5

\* The rest of the part that gets the map.
LEMMA TailsOfMap ==
    /\ Len(GetMarketsMap) # 1 /\ Tail(GetMarketsMap) = <<UnlockGrpc, List, Map>>
    /\ Len(<<UnlockGrpc, List, Map>>) # 1 /\ Tail(<<UnlockGrpc, List, Map>>) = <<List, Map>>
    /\ Len(<<List, Map>>) # 1 /\ Tail(<<List, Map>>) = <<Map>>
    /\ Len(<<Map>>) = 1
    /\ GetMarketsMap[1] = Do("lock", GrpcLockName) /\ <<UnlockGrpc, List, Map>>[1] = UnlockGrpc
    /\ <<List, Map>>[1] = List /\ <<Map>>[1] = Map
    /\ <<List, Map>>[2] = Map
<1>1. GetMarketsMap = <<Do("lock", GrpcLockName), UnlockGrpc, List, Map>>
    <2>1. ASSUME NEW a, NEW b, NEW c, NEW d
          PROVE  (<<a>> \o <<>> \o <<b>>) \o <<c, d>> = <<a, b, c, d>>
        <3>1. <<a>> \o <<>> = <<a>>
            OBVIOUS
        <3>2. <<a>> \o <<b>> = <<a, b>>
            <4> DEFINE S == {a, b}
            <4>1. /\ <<a>> \in Seq(S) /\ <<b>> \in Seq(S) /\ <<a, b>> \in Seq(S)
                  /\ Len(<<a>>) = 1 /\ Len(<<b>>) = 1 /\ Len(<<a, b>>) = 2
                  /\ <<a>>[1] = a /\ <<b>>[1] = b /\ <<a, b>>[1] = a /\ <<a, b>>[2] = b
                OBVIOUS
            <4> DEFINE s == <<a>>
                       t == <<b>>
                       u == <<a, b>>
            <4> HIDE DEF s, t, u, S
            <4>2. s \o t = u
                <5>1. /\ s \o t \in Seq(S) /\ Len(s \o t) = Len(s) + Len(t)
                      /\ \A j \in 1..(Len(s) + Len(t)):
                            (s \o t)[j] = IF j <= Len(s) THEN s[j] ELSE t[j - Len(s)]
                    BY <4>1, ConcatProperties DEF s, t
                <5>2. Len(s) = 1 /\ Len(t) = 1 /\ Len(u) = 2
                      /\ s[1] = a /\ t[1] = b /\ u[1] = a /\ u[2] = b
                    BY <4>1 DEF s, t, u
                <5>3. Len(s \o t) = Len(u) /\ \A j \in 1..Len(s \o t): (s \o t)[j] = u[j]
                    BY <5>1, <5>2
                <5>4. QED
                    BY <4>1, <5>1, <5>3, SeqEqual DEF u
            <4>3. QED
                BY <4>2 DEF s, t, u
        <3>3. <<a, b>> \o <<c, d>> = <<a, b, c, d>>
            <4> DEFINE S == {a, b, c, d}
            <4>1. /\ <<a, b>> \in Seq(S) /\ <<c, d>> \in Seq(S) /\ <<a, b, c, d>> \in Seq(S)
                  /\ Len(<<a, b>>) = 2 /\ Len(<<c, d>>) = 2 /\ Len(<<a, b, c, d>>) = 4
                  /\ <<a, b>>[1] = a /\ <<a, b>>[2] = b /\ <<c, d>>[1] = c /\ <<c, d>>[2] = d
                  /\ <<a, b, c, d>>[1] = a /\ <<a, b, c, d>>[2] = b
                  /\ <<a, b, c, d>>[3] = c /\ <<a, b, c, d>>[4] = d
                OBVIOUS
            <4> DEFINE s == <<a, b>>
                       t == <<c, d>>
                       u == <<a, b, c, d>>
            <4> HIDE DEF s, t, u, S
            <4>2. s \o t = u
                <5>1. /\ s \o t \in Seq(S) /\ Len(s \o t) = Len(s) + Len(t)
                      /\ \A j \in 1..(Len(s) + Len(t)):
                            (s \o t)[j] = IF j <= Len(s) THEN s[j] ELSE t[j - Len(s)]
                    BY <4>1, ConcatProperties DEF s, t
                <5>2. Len(s \o t) = Len(u) /\ \A j \in 1..Len(s \o t): (s \o t)[j] = u[j]
                    BY <4>1, <5>1 DEF s, t, u
                <5>3. QED
                    BY <4>1, <5>1, <5>2, SeqEqual DEF u
            <4>3. QED
                BY <4>2 DEF s, t, u
        <3>4. QED
            BY <3>1, <3>2, <3>3
    <2>2. QED
        BY <2>1 DEF GetMarketsMap, GetConnection, WithLock, UnlockGrpc, List, Map
<1>2. QED
    BY <1>1

\* The instruction that g comes to, and the part it is of.
LEMMA HeadOfProgram ==
    ASSUME ListenerInv, NEW g \in Goroutine, todo[g] # <<>>
    PROVE  LET part == todo[g][1]
           IN  /\ part = Head(todo[g]) /\ part \in Parts /\ Next1(g) = part[1]
               /\ Next1(g) \in Instruction /\ Next1(g) \in In(part)
               /\ In(part) = {Next1(g)} \union In(Tail(part))
               /\ \A b \in In(Tail(part)): ~Never(Next1(g), b)
BY TypeOfNext, TailOfPart DEF ListenerInv

LEMMA OtherCalls ==
    ASSUME NEW g \in Goroutine, Call(g), ~StoreMap(g)
    PROVE  Next1(g).do # "map"
BY DEF Call, Runs, StoreHistory, StoreIntervals, GetBuys, StoreBook, GetAllMarkets, DateMarkets,
       AskFirstTrades, StoreMarkets

\* initialSync comes to its map with every market of the start in its list.
LEMMA MapWaitsOn ==
    ASSUME ListenerInv, todo[Main] # <<>>, Stores(Main), Next1(Main).do # "map",
           Listed \subseteq created, MapWaits
    PROVE  MapWaits'
<1> DEFINE n == Len(todo[Main])
           part == todo[Main][1]
<1>1. Main \in Goroutine /\ todo[Main] \in Seq(Parts) /\ todo'[Main] = Rest(todo[Main])
    BY ListenerAssumption DEF ListenerInv, Stores
<1>2. /\ part \in Parts
      /\ Len(part) = 1 => /\ Len(todo'[Main]) = n - 1
                          /\ \A j \in 1..(n - 1): todo'[Main][j] = todo[Main][j + 1]
      /\ Len(part) # 1 => /\ Len(todo'[Main]) = n /\ todo'[Main][1] = Tail(part)
                          /\ \A j \in 2..n: todo'[Main][j] = todo[Main][j]
    BY <1>1, LengthOfRest
<1>3. Next1(Main) = part[1] /\ In(Tail(part)) \subseteq In(part)
    BY <1>1, HeadOfProgram
<1>4. CASE n = 2 /\ todo[Main][2] = GetMarketsMap /\ Map \notin In(part)
    <2>1. CASE Len(part) = 1
        <3>1. Len(todo'[Main]) = 1 /\ todo'[Main][1] = GetMarketsMap
            BY <1>2, <1>4, <2>1
        <3>2. QED
            BY <3>1 DEF MapWaits
    <2>2. CASE Len(part) # 1
        <3>1. Len(todo'[Main]) = 2 /\ todo'[Main][1] = Tail(part) /\ todo'[Main][2] = GetMarketsMap
            BY <1>2, <1>4, <2>2
        <3>2. Map \notin In(Tail(part))
            BY <1>3, <1>4
        <3>3. QED
            BY <3>1, <3>2 DEF MapWaits
    <2>3. QED
        BY <2>1, <2>2
<1>5. ASSUME n = 1, Len(part) # 1
      PROVE  Len(todo'[Main]) = 1 /\ todo'[Main][1] = Tail(part)
    BY <1>2, <1>5
<1>6. CASE n = 1 /\ part = GetMarketsMap
    BY <1>5, <1>6, TailsOfMap DEF MapWaits
<1>7. CASE n = 1 /\ part = <<UnlockGrpc, List, Map>>
    BY <1>5, <1>7, TailsOfMap DEF MapWaits
<1>8. CASE n = 1 /\ part = <<List, Map>>
    <2>1. Next1(Main).do = "list"
        BY <1>3, <1>8, TailsOfMap DEF List, Do
    <2>2. list'[Main] = created
        BY <2>1 DEF Stores, Forgetting
    <2>3. Len(todo'[Main]) = 1 /\ todo'[Main][1] = <<Map>>
        BY <1>5, <1>8, TailsOfMap
    <2>4. QED
        BY <2>2, <2>3 DEF MapWaits
<1>9. CASE n = 1 /\ part = <<Map>>
    BY <1>3, <1>9, TailsOfMap DEF Map, Do
<1>10. QED
    BY <1>4, <1>6, <1>7, <1>8, <1>9 DEF MapWaits

\* A failure in its first part leaves the second.
LEMMA MapWaitsAfterFailure ==
    ASSUME ListenerInv, CallFails(Main), MapWaits
    PROVE  MapWaits'
<1> DEFINE n == Len(todo[Main])
           part == todo[Main][1]
<1>1. /\ Main \in Goroutine /\ todo \in [Goroutine -> Seq(Parts)] /\ todo[Main] # <<>>
      /\ todo'[Main] = Deferred(Main)
    BY ListenerAssumption DEF ListenerInv, CallFails, Runs
<1>2. /\ Next1(Main).do \in {"history", "intervals", "buys", "book", "list", "firsts", "rows"}
      /\ Next1(Main).do = "list" => part[2].do # "map"
      /\ Next1(Main) = part[1]
    BY <1>1, HeadOfProgram DEF CallFails, Runs
<1>3. \/ Len(todo'[Main]) = n - 1 /\ \A j \in 1..(n - 1): todo'[Main][j] = todo[Main][j + 1]
      \/ /\ Len(todo'[Main]) = n /\ \A j \in 2..n: todo'[Main][j] = todo[Main][j]
         /\ \A i \in In(todo'[Main][1]): i.do = "unlock"
    BY <1>1, PartsAfterFailure
<1>4. CASE n = 2 /\ todo[Main][2] = GetMarketsMap
    <2>1. CASE Len(todo'[Main]) = n - 1 /\ \A j \in 1..(n - 1): todo'[Main][j] = todo[Main][j + 1]
        <3>1. Len(todo'[Main]) = 1 /\ todo'[Main][1] = GetMarketsMap
            BY <1>4, <2>1
        <3>2. QED
            BY <3>1 DEF MapWaits
    <2>2. CASE /\ Len(todo'[Main]) = n /\ \A j \in 2..n: todo'[Main][j] = todo[Main][j]
               /\ \A i \in In(todo'[Main][1]): i.do = "unlock"
        <3>1. Len(todo'[Main]) = 2 /\ todo'[Main][2] = GetMarketsMap
            BY <1>4, <2>2
        <3>2. Map \notin In(todo'[Main][1])
            BY <2>2 DEF Map, Do
        <3>3. QED
            BY <3>1, <3>2 DEF MapWaits
    <2>3. QED
        BY <1>3, <2>1, <2>2
<1>5. ASSUME part \in {GetMarketsMap, <<UnlockGrpc, List, Map>>, <<List, Map>>, <<Map>>}
      PROVE  FALSE
    <2>1. \/ part[1].do \in {"lock", "unlock", "map"}
          \/ part[1].do = "list" /\ part[2].do = "map"
        BY <1>5, TailsOfMap DEF UnlockGrpc, List, Map, Do
    <2>2. QED
        BY <1>2, <2>1
<1>6. QED
    BY <1>4, <1>5 DEF MapWaits

\* The map comes when the list holds every market of the start.
LEMMA MapIsComplete ==
    ASSUME ListenerInv, StoreMap(Main), MapWaits
    PROVE  Listed \subseteq list[Main]
<1> DEFINE part == todo[Main][1]
<1>1. Main \in Goroutine /\ todo[Main] # <<>> /\ Next1(Main).do = "map"
    BY ListenerAssumption DEF StoreMap, Runs
<1>2. Next1(Main) = part[1] /\ Next1(Main) \in In(part) /\ Next1(Main) \in Instruction
    BY <1>1, HeadOfProgram
<1>3. Map \in In(part)
    BY <1>1, <1>2, OperandOfMarkets DEF Map
<1>4. ASSUME part \in {GetMarketsMap, <<UnlockGrpc, List, Map>>, <<List, Map>>}
      PROVE  FALSE
    <2>1. part[1].do \in {"lock", "unlock", "list"}
        BY <1>4, TailsOfMap DEF UnlockGrpc, List, Do
    <2>2. QED
        BY <1>1, <1>2, <2>1
<1>5. QED
    BY <1>3, <1>4 DEF MapWaits

\* A round that waits goes on waiting until it begins.
LEMMA RoundWaitsOn ==
    ASSUME ListenerInv, todo[Main] # <<>>, NEW m \in Market, RoundWaits(m),
           todo'[Main] \in {Rest(todo[Main]), Deferred(Main)}
    PROVE  RoundWaits(m)' \/ (todo'[Main] # <<>> /\ todo'[Main][1] = Each(m))
<1> DEFINE n == Len(todo[Main])
<1>1. Main \in Goroutine /\ todo \in [Goroutine -> Seq(Parts)] /\ todo[Main] \in Seq(Parts)
    BY ListenerAssumption DEF ListenerInv
<1>2. n \in Nat \ {0} /\ DOMAIN todo[Main] = 1..n
    BY <1>1, LengthOfRest
<1>3. /\ todo'[Main] \in Seq(Parts)
      /\ \/ Len(todo'[Main]) = n - 1 /\ \A j \in 1..(n - 1): todo'[Main][j] = todo[Main][j + 1]
         \/ Len(todo'[Main]) = n /\ \A j \in 2..n: todo'[Main][j] = todo[Main][j]
    <2>1. CASE todo'[Main] = Deferred(Main)
        BY <1>1, <2>1, PartsAfterFailure
    <2>2. CASE todo'[Main] = Rest(todo[Main])
        BY <1>1, <2>2, LengthOfRest, RestOfProgram
    <2>3. QED
        BY <2>1, <2>2
<1>4. PICK j \in 1..n: j # 1 /\ todo[Main][j] = Each(m)
    BY <1>2 DEF RoundWaits
<1>5. DOMAIN todo'[Main] = 1..Len(todo'[Main]) /\ (todo'[Main] = <<>> => Len(todo'[Main]) = 0)
    BY <1>3, LenProperties, EmptySeq
<1>6. CASE Len(todo'[Main]) = n /\ \A k \in 2..n: todo'[Main][k] = todo[Main][k]
    <2>1. j \in DOMAIN todo'[Main] /\ todo'[Main][j] = Each(m)
        BY <1>2, <1>4, <1>5, <1>6
    <2>2. QED
        BY <1>4, <2>1 DEF RoundWaits
<1>7. CASE Len(todo'[Main]) = n - 1 /\ \A k \in 1..(n - 1): todo'[Main][k] = todo[Main][k + 1]
    <2>1. j - 1 \in 1..(n - 1) /\ (j - 1) + 1 = j /\ Len(todo'[Main]) # 0
        BY <1>2, <1>4, <1>7
    <2>2. j - 1 \in DOMAIN todo'[Main] /\ todo'[Main][j - 1] = Each(m) /\ todo'[Main] # <<>>
        BY <1>4, <1>5, <1>7, <2>1
    <2>3. QED
        BY <2>2 DEF RoundWaits
<1>8. QED
    BY <1>3, <1>6, <1>7

LEMMA RoundBegins ==
    ASSUME NEW e \in Event, todo'[Main] # <<>>, todo'[Main][1] = Each(e.market)
    PROVE  RoundGoesOn(e)'
<1>1. e.market \in Market
    BY EventIsSomething
<1>2. IsAbout(todo'[Main][1], e.market)
    BY <1>1, RoundOfMarket
<1>3. {History(e.market), Intervals(e.market), Buys(e.market), Book(e.market)}
      \subseteq In(todo'[Main][1])
    BY <1>1, RoundOfMarket
<1>4. QED
    BY <1>2, <1>3 DEF RoundGoesOn, HistoryComes, IntervalsCome, BookComes

\* A round that has begun stores its market in every table: the history before
\* the intervals, and the book it has asked for since.
LEMMA RoundIsDone ==
    ASSUME ListenerInv, Numbers', Grows, todo[Main] # <<>>, Stores(Main),
           NEW e \in Event, e.type = "OrderExecuted", Happened(e), RoundGoesOn(e)
    PROVE  Reflects(e)' \/ RoundGoesOn(e)'
<1> DEFINE m == e.market
           part == todo[Main][1]
           B == In(Tail(part))
           i == Next1(Main)
<1>1. Main \in Goroutine /\ todo[Main] \in Seq(Parts) /\ todo'[Main] = Rest(todo[Main])
    BY ListenerAssumption DEF ListenerInv, Stores
<1>2. /\ part \in Parts /\ In(part) = {i} \union B /\ \A b \in B: ~Never(i, b)
      /\ IsAbout(part, m) /\ HistoryComes(Main, e) /\ IntervalsCome(Main, e) /\ BookComes(Main, e)
    BY <1>1, HeadOfProgram DEF RoundGoesOn
<1>3. /\ HistoryComes(Main, e) => e.number <= history'[m] \/ History(m) \in B
      /\ e.number <= history[m] /\ IntervalsCome(Main, e) =>
            e.number <= intervals'[m] \/ Intervals(m) \in B
      /\ BookComes(Main, e) =>
            \/ BookReaches(m, e.number)'
            \/ Book(m) \in B /\ (Buys(m) \in B \/ BuysAreSince(Main, m, e.number)')
    BY <1>1, ComesNext
<1>4. e.number <= intervals[m] => e.number <= intervals'[m]
    <2>1. /\ m \in Market /\ e.number \in Nat /\ intervals[m] \in Nat /\ intervals'[m] \in Nat
          /\ intervals[m] <= intervals'[m]
        BY EventIsSomething, TypesAreNumbers DEF ListenerInv, Numbers, Grows
    <2> HIDE DEF m
    <2>2. QED
        BY <2>1
<1>5. e.number <= intervals'[m] \/ Intervals(m) \in B
    <2>1. CASE e.number <= history[m]
        BY <1>2, <1>3, <2>1
    <2>2. CASE ~(e.number <= history[m])
        <3>1. History(m) \in In(part)
            BY <1>2, <2>2 DEF HistoryComes
        <3>2. i # Intervals(m)
            <4>1. ASSUME i = Intervals(m)
                  PROVE  FALSE
                <5>1. i.do = "intervals" /\ i # History(m)
                    BY <4>1 DEF Intervals, History, Do
                <5>2. History(m) \in B /\ History(m).do = "history"
                    BY <1>2, <3>1, <5>1 DEF History, Do
                <5>3. Never(i, History(m))
                    BY <5>1, <5>2 DEF Never
                <5>4. QED
                    BY <1>2, <5>2, <5>3
            <4>2. QED
                BY <4>1
        <3>3. QED
            BY <1>2, <1>4, <3>2 DEF IntervalsCome
    <2>3. QED
        BY <2>1, <2>2
<1>6. CASE Len(part) = 1
    <2>1. Tail(part) = <<>>
        BY <1>2, <1>6, TailOfPart
    <2>2. B = {}
        BY <2>1 DEF In
    <2> HIDE DEF B
    <2>3. e.number <= history'[m] /\ e.number <= intervals'[m] /\ BookReaches(m, e.number)'
        BY <1>2, <1>3, <1>5, <2>2
    <2>4. QED
        BY <2>3 DEF Reflects
<1>7. CASE Len(part) # 1
    <2>1. todo'[Main] # <<>> /\ todo'[Main][1] = Tail(part)
        BY <1>1, <1>7, LengthOfRest
    <2>2. In(todo[Main][1])' = B
        BY <2>1
    <2> HIDE DEF B
    <2>3. HistoryComes(Main, e)' /\ IntervalsCome(Main, e)' /\ BookComes(Main, e)'
        BY <1>2, <1>3, <1>5, <2>2 DEF HistoryComes, IntervalsCome, BookComes
    <2>4. IsAbout(todo'[Main][1], m)
        BY <1>2, <2>2 DEF IsAbout
    <2>5. QED
        BY <2>1, <2>3, <2>4 DEF RoundGoesOn
<1>8. QED
    BY <1>6, <1>7

\* A round that fails loses what its market has seen so far.
LEMMA RoundFails ==
    ASSUME ListenerInv, CallFails(Main), NEW e \in Event, e.type = "OrderExecuted", Happened(e),
           RoundGoesOn(e)
    PROVE  Settled(e)'
<1>1. Main \in Goroutine /\ todo[Main] # <<>> /\ e.market \in Market
      /\ Next1(Main).do \notin {"lock", "unlock"}
    BY ListenerAssumption, EventIsSomething DEF CallFails, Runs
<1>2. Next1(Main) \in In(todo[Main][1])
    BY <1>1, HeadOfProgram
<1>3. Next1(Main).on = e.market
    BY <1>1, <1>2 DEF RoundGoesOn, IsAbout
<1>4. missed'[e.market] = event[e.market] /\ e.number <= event[e.market]
    BY <1>1, <1>3 DEF CallFails, Happened
<1>5. QED
    BY <1>4 DEF Settled

\* The loop has a round for every market of the start.
LEMMA LoopBegins ==
    ASSUME ListenerInv, StoreMap(Main), MapWaits, NEW e \in Event, e.market \in Listed
    PROVE  RoundWaits(e.market)' \/ RoundGoesOn(e)'
<1>1. /\ Main \in Goroutine /\ todo \in [Goroutine -> Seq(Parts)]
      /\ list[Main] \subseteq Market /\ list[Main] \subseteq created /\ IsFiniteSet(created)
    BY ListenerAssumption DEF ListenerInv, TypeOK, NothingIsNewer
<1>2. Cardinality(list[Main]) \in Nat
    BY <1>1, FS_Subset, FS_CardinalityType
<1>3. PICK order \in [1..Cardinality(list[Main]) -> list[Main]]:
          /\ list[Main] = {order[n]: n \in DOMAIN order}
          /\ GoOn(Main, SyncEach(order))
    BY DEF StoreMap
<1>4. todo'[Main] = SyncEach(order)
    BY <1>1, <1>3 DEF GoOn
<1>5. PICK k \in 1..Cardinality(list[Main]): order[k] = e.market
    <2>1. e.market \in list[Main]
        BY MapIsComplete
    <2>2. DOMAIN order = 1..Cardinality(list[Main])
        OBVIOUS
    <2>3. QED
        BY <1>3, <2>1, <2>2
<1>6. order \in [1..Cardinality(list[Main]) -> Market]
    BY <1>1
<1>7. k \in DOMAIN todo'[Main] /\ todo'[Main][k] = Each(e.market)
    BY <1>2, <1>4, <1>5, <1>6, RoundsOfLoop
<1>8. CASE k = 1
    <2>1. todo'[Main] # <<>>
        BY <1>7
    <2>2. QED
        BY <1>7, <1>8, <2>1, RoundBegins
<1>9. CASE k # 1
    BY <1>7, <1>9 DEF RoundWaits
<1>10. QED
    BY <1>8, <1>9

\* After the loop has begun there is no map to come.
LEMMA NoMapInLoop ==
    ASSUME ListenerInv, StoreMap(Main)
    PROVE  MapComesOnce'
<1>1. /\ Main \in Goroutine /\ todo \in [Goroutine -> Seq(Parts)]
      /\ list[Main] \subseteq Market /\ list[Main] \subseteq created /\ IsFiniteSet(created)
    BY ListenerAssumption DEF ListenerInv, TypeOK, NothingIsNewer
<1>2. Cardinality(list[Main]) \in Nat
    BY <1>1, FS_Subset, FS_CardinalityType
<1>3. PICK order \in [1..Cardinality(list[Main]) -> list[Main]]: GoOn(Main, SyncEach(order))
    BY DEF StoreMap
<1>4. todo'[Main] = SyncEach(order)
    BY <1>1, <1>3 DEF GoOn
<1>5. order \in [1..Cardinality(list[Main]) -> Market]
    BY <1>1
<1>6. \A j \in DOMAIN SyncEach(order): Map \notin In(SyncEach(order)[j])
    BY <1>2, <1>5, LoopIsProgram
<1>7. QED
    BY <1>4, <1>6 DEF MapComesOnce

LEMMA MapComesOnceOn ==
    ASSUME ListenerInv, todo[Main] # <<>>, Listed \subseteq created, MapComesOnce,
           \/ Stores(Main) /\ Next1(Main).do # "map"
           \/ CallFails(Main)
    PROVE  MapComesOnce'
<1>1. Main \in Goroutine /\ todo \in [Goroutine -> Seq(Parts)] /\ todo[Main] \in Seq(Parts)
    BY ListenerAssumption DEF ListenerInv
<1>2. ASSUME NEW j \in DOMAIN todo'[Main], Map \in In(todo'[Main][j])
      PROVE  \E k \in DOMAIN todo[Main]: Map \in In(todo[Main][k])
    <2>1. CASE Stores(Main)
        <3>1. todo'[Main] = Rest(todo[Main])
            BY <2>1 DEF Stores
        <3>2. CASE Len(todo[Main][1]) = 1
            BY <1>1, <1>2, <3>1, <3>2, RestOfProgram
        <3>3. CASE Len(todo[Main][1]) # 1
            <4>1. DOMAIN todo'[Main] = DOMAIN todo[Main]
                  /\ todo'[Main][j] = IF j = 1 THEN Tail(todo[Main][1]) ELSE todo[Main][j]
                <5>1. /\ DOMAIN Rest(todo[Main]) = DOMAIN todo[Main]
                      /\ \A k \in DOMAIN todo[Main]: Rest(todo[Main])[k] =
                            IF k = 1 THEN Tail(todo[Main][1]) ELSE todo[Main][k]
                    BY <1>1, <3>3, RestOfProgram
                <5>2. j \in DOMAIN todo[Main]
                    BY <1>2, <3>1, <5>1
                <5>3. QED
                    BY <3>1, <5>1, <5>2
            <4>2. In(Tail(todo[Main][1])) \subseteq In(todo[Main][1])
                BY <1>1, HeadOfProgram
            <4>3. QED
                BY <1>2, <4>1, <4>2
        <3>4. QED
            BY <3>2, <3>3
    <2>2. CASE CallFails(Main)
        <3> DEFINE n == Len(todo[Main])
        <3>1. todo'[Main] = Deferred(Main)
            BY <1>1, <2>2 DEF CallFails
        <3>2. /\ n \in Nat \ {0} /\ todo'[Main] \in Seq(Parts)
              /\ \/ Len(todo'[Main]) = n - 1
                    /\ \A k \in 1..(n - 1): todo'[Main][k] = todo[Main][k + 1]
                 \/ /\ Len(todo'[Main]) = n /\ \A k \in 2..n: todo'[Main][k] = todo[Main][k]
                    /\ \A i \in In(todo'[Main][1]): i.do = "unlock"
            BY <1>1, <3>1, PartsAfterFailure
        <3>3. DOMAIN todo'[Main] = 1..Len(todo'[Main]) /\ DOMAIN todo[Main] = 1..n
            BY <1>1, <3>2, LenProperties
        <3>4. CASE Len(todo'[Main]) = n - 1
              /\ \A k \in 1..(n - 1): todo'[Main][k] = todo[Main][k + 1]
            <4>1. j \in 1..(n - 1) /\ j + 1 \in 1..n
                BY <1>2, <3>2, <3>3, <3>4
            <4>2. todo'[Main][j] = todo[Main][j + 1] /\ j + 1 \in DOMAIN todo[Main]
                BY <3>3, <3>4, <4>1
            <4>3. QED
                BY <1>2, <4>2
        <3>5. CASE /\ Len(todo'[Main]) = n /\ \A k \in 2..n: todo'[Main][k] = todo[Main][k]
                   /\ \A i \in In(todo'[Main][1]): i.do = "unlock"
            <4>1. j # 1
                BY <1>2, <3>5 DEF Map, Do
            <4>2. j \in 2..n /\ j \in 1..n
                BY <1>2, <3>2, <3>3, <3>5, <4>1
            <4>3. QED
                BY <1>2, <3>3, <3>5, <4>2
        <3>6. QED
            BY <3>2, <3>4, <3>5
    <2>3. QED
        BY <2>1, <2>2
<1>3. ASSUME NEW j \in DOMAIN todo'[Main], Map \in In(todo'[Main][j])
      PROVE  MapWaits'
    <2>1. MapWaits
        BY <1>2, <1>3 DEF MapComesOnce
    <2>2. QED
        BY <2>1, MapWaitsOn, MapWaitsAfterFailure
<1>4. QED
    BY <1>3 DEF MapComesOnce

\* The steps initialSync takes part in.
LEMMA StepsOfMain ==
    ASSUME ListenerInv, [Next]_vars, running'
    PROVE  \/ UNCHANGED <<todo[Main], list[Main], height[Main], hasBuys[Main]>>
           \/ todo[Main] # <<>> /\ Stores(Main) /\ Next1(Main).do # "map"
           \/ StoreMap(Main)
           \/ CallFails(Main)
<1>1. /\ todo \in [Goroutine -> Seq(Parts)] /\ list \in [Goroutine -> SUBSET Market]
      /\ height \in [Goroutine -> 0..MaxEvents] /\ hasBuys \in [Goroutine -> BOOLEAN]
      /\ Main \in Goroutine /\ LockerTypeOK /\ InTheLocker(Main)
    BY ListenerAssumption DEF ListenerInv, TypeOK, LockerInv
<1> DEFINE Rests == UNCHANGED <<todo[Main], list[Main], height[Main], hasBuys[Main]>>
           Moves == todo[Main] # <<>> /\ Stores(Main) /\ Next1(Main).do # "map"
<1>2. ASSUME NEW g \in Goroutine, AcquireLock(g) \/ ReleaseLock(g)
      PROVE  Rests \/ Moves
    <2>1. UNCHANGED <<markets, tables, list, height, hasBuys>> /\ running
        BY <1>2 DEF AcquireLock, ReleaseLock, local, Runs
    <2>2. CASE UNCHANGED todo
        BY <2>1, <2>2
    <2>3. CASE Done(g) /\ g # Main
        BY <1>1, <2>1, <2>3 DEF Done, GoOn
    <2>4. ASSUME Done(g), g = Main, LockMutex(g) \/ UnlockMutex(g)
          PROVE  Moves
        <3>1. todo[Main] # <<>> /\ Stores(Main)
            BY <1>1, <2>1, <2>4, LockStores
        <3>2. pc[Main] \in {"lock", "unlock"} /\ Next1(Main) = Do(pc[Main], key[Main])
            BY <1>1, <2>1, <2>4 DEF LockMutex, UnlockMutex, InTheLocker
        <3>3. QED
            BY <3>1, <3>2 DEF Do
    <2>5. QED
        BY <1>2, <2>2, <2>3, <2>4 DEF AcquireLock, ReleaseLock
<1>3. ASSUME NEW g \in Goroutine, g # Main, Call(g) \/ CallFails(g) \/ MapFails(g)
      PROVE  Rests
    <2>1. todo'[Main] = todo[Main]
        BY <1>1, <1>3 DEF Call, CallFails, MapFails, StoreHistory, StoreIntervals, GetBuys,
           StoreBook,
             GetAllMarkets, DateMarkets, AskFirstTrades, StoreMarkets, StoreMap, Done, GoOn
    <2>2. list'[Main] = list[Main] /\ height'[Main] = height[Main] /\ hasBuys'[Main] = hasBuys[Main]
        BY <1>1, <1>3 DEF Call, CallFails, MapFails, StoreHistory, StoreIntervals, GetBuys,
           StoreBook,
             GetAllMarkets, DateMarkets, AskFirstTrades, StoreMarkets, StoreMap, Forget
    <2>3. QED
        BY <2>1, <2>2
<1>4. ASSUME Call(Main), ~StoreMap(Main)
      PROVE  Moves
    <2>1. todo[Main] # <<>>
        BY <1>4 DEF Call, Runs, StoreHistory, StoreIntervals, GetBuys, StoreBook, GetAllMarkets,
                    DateMarkets, AskFirstTrades, StoreMarkets
    <2>2. QED
        BY <1>1, <1>4, <2>1, CallStores, OtherCalls
<1>5. ~MapFails(Main)
    BY DEF MapFails
<1>6. ASSUME NEW g \in Handler, Listen(g)
      PROVE  Rests
    BY <1>1, <1>6 DEF Listen, HandleMessage, Handler
<1>7. ASSUME NEW type, NEW m, NEW stream, Emit(type, m, stream) \/ Subscribe(stream)
      PROVE  Rests
    BY <1>7 DEF Emit, Subscribe, local
<1>8. ~Stop
    BY DEF Stop
<1>9. CASE UNCHANGED vars
    BY <1>9 DEF vars, local
<1>10. QED
    BY <1>2, <1>3, <1>4, <1>5, <1>6, <1>7, <1>8, <1>9 DEF Next, Run

\* A market of the start waits for initialSync until it is synced.
LEMMA InitialSyncGoesOn ==
    ASSUME ListenerInv, [Next]_vars, running', Numbers', Grows, Listed \subseteq created,
           MapComesOnce
    PROVE  /\ MapComesOnce'
           /\ \A e \in Event: Happened(e) /\ InitiallySynced(e) => Settled(e)'
                 \/ InitiallySynced(e)'
<1>1. Main \in Goroutine /\ todo \in [Goroutine -> Seq(Parts)]
    BY ListenerAssumption DEF ListenerInv
<1>2. ASSUME UNCHANGED <<todo[Main], list[Main], height[Main], hasBuys[Main]>>, NEW e \in Event,
             InitiallySynced(e)
      PROVE  InitiallySynced(e)'
    <2>1. /\ e.market \in Market /\ e.number \in Nat
          /\ history[e.market] \in Nat /\ history'[e.market] \in Nat
          /\ intervals[e.market] \in Nat /\ intervals'[e.market] \in Nat
        BY EventIsSomething, TypesAreNumbers DEF ListenerInv, Numbers
    <2>2. history[e.market] <= history'[e.market] /\ intervals[e.market] <= intervals'[e.market]
        BY <2>1 DEF Grows
    <2>3. /\ e.number <= history[e.market] => e.number <= history'[e.market]
          /\ e.number <= intervals[e.market] => e.number <= intervals'[e.market]
        BY <2>1, <2>2
    <2>8. /\ BookReaches(e.market, e.number) => BookReaches(e.market, e.number)'
          /\ BuysAreSince(Main, e.market, e.number) => BuysAreSince(Main, e.market, e.number)'
        BY <1>1, <1>2, <2>1, BookStays, BuysStay DEF ListenerInv
    <2>4. RoundGoesOn(e) => RoundGoesOn(e)'
        BY <1>2, <2>3, <2>8 DEF RoundGoesOn, HistoryComes, IntervalsCome, BookComes
    <2>5. MapWaits => MapWaits'
        BY <1>2 DEF MapWaits
    <2>6. RoundWaits(e.market) => RoundWaits(e.market)'
        BY <1>2 DEF RoundWaits
    <2>7. QED
        BY <1>2, <2>4, <2>5, <2>6 DEF InitiallySynced
<1>3. ASSUME UNCHANGED <<todo[Main], list[Main], height[Main], hasBuys[Main]>>
      PROVE  MapComesOnce'
    BY <1>3 DEF MapComesOnce, MapWaits
<1>4. ASSUME todo[Main] # <<>>, Stores(Main), Next1(Main).do # "map",
             NEW e \in Event, Happened(e), InitiallySynced(e)
      PROVE  Settled(e)' \/ InitiallySynced(e)'
    <2>1. e.market \in Market /\ e.type = "OrderExecuted"
        BY <1>4, EventIsSomething DEF InitiallySynced
    <2>2. CASE MapWaits
        BY <1>4, <2>2, MapWaitsOn DEF InitiallySynced
    <2>3. CASE RoundWaits(e.market)
        <3>1. todo'[Main] \in {Rest(todo[Main]), Deferred(Main)}
            BY <1>4 DEF Stores
        <3>2. RoundWaits(e.market)' \/ RoundGoesOn(e)'
            BY <1>4, <2>1, <2>3, <3>1, RoundWaitsOn, RoundBegins
        <3>3. QED
            BY <1>4, <3>2 DEF InitiallySynced
    <2>4. CASE RoundGoesOn(e)
        <3>1. Reflects(e)' \/ RoundGoesOn(e)'
            BY <1>4, <2>1, <2>4, RoundIsDone
        <3>2. QED
            BY <1>4, <3>1 DEF InitiallySynced, Settled
    <2>5. QED
        BY <1>4, <2>2, <2>3, <2>4 DEF InitiallySynced
<1>5. ASSUME StoreMap(Main), NEW e \in Event, InitiallySynced(e)
      PROVE  InitiallySynced(e)'
    <2>1. todo[Main] # <<>> /\ Next1(Main).do = "map"
        BY <1>5 DEF StoreMap, Runs
    <2>2. Next1(Main) \in Instruction /\ Next1(Main) \in In(todo[Main][1])
          /\ 1 \in DOMAIN todo[Main]
        BY <1>1, <2>1, TypeOfNext
    <2>3. Map \in In(todo[Main][1])
        BY <2>1, <2>2, OperandOfMarkets DEF Map
    <2>4. MapWaits
        BY <2>2, <2>3 DEF MapComesOnce
    <2>5. RoundWaits(e.market)' \/ RoundGoesOn(e)'
        BY <1>5, <2>4, LoopBegins DEF InitiallySynced
    <2>6. QED
        BY <1>5, <2>5 DEF InitiallySynced
<1>6. ASSUME CallFails(Main), NEW e \in Event, Happened(e), InitiallySynced(e)
      PROVE  Settled(e)' \/ InitiallySynced(e)'
    <2>1. e.market \in Market /\ e.type = "OrderExecuted"
        BY <1>6, EventIsSomething DEF InitiallySynced
    <2>2. CASE MapWaits
        BY <1>6, <2>2, MapWaitsAfterFailure DEF InitiallySynced
    <2>3. CASE RoundWaits(e.market)
        <3>1. todo[Main] # <<>> /\ todo'[Main] \in {Rest(todo[Main]), Deferred(Main)}
            BY <1>1, <1>6 DEF CallFails, Runs
        <3>2. RoundWaits(e.market)' \/ RoundGoesOn(e)'
            BY <2>1, <2>3, <3>1, RoundWaitsOn, RoundBegins
        <3>3. QED
            BY <1>6, <3>2 DEF InitiallySynced
    <2>4. CASE RoundGoesOn(e)
        BY <1>6, <2>1, <2>4, RoundFails
    <2>5. QED
        BY <1>6, <2>2, <2>3, <2>4 DEF InitiallySynced
<1>7. CASE UNCHANGED <<todo[Main], list[Main], height[Main], hasBuys[Main]>>
    BY <1>2, <1>3, <1>7
<1>8. CASE todo[Main] # <<>> /\ Stores(Main) /\ Next1(Main).do # "map"
    BY <1>4, <1>8, MapComesOnceOn
<1>9. CASE StoreMap(Main)
    BY <1>5, <1>9, NoMapInLoop
<1>10. CASE CallFails(Main)
    <2>1. todo[Main] # <<>>
        BY <1>10 DEF CallFails, Runs
    <2>2. QED
        BY <1>6, <1>10, <2>1, MapComesOnceOn
<1>11. QED
    BY <1>7, <1>8, <1>9, <1>10, StepsOfMain

\* The steps a handler takes part in.
LEMMA StepsOfHandler ==
    ASSUME ListenerInv, [Next]_vars, running', NEW g \in Handler
    PROVE  \/ UNCHANGED <<todo[g], handles[g]>>
           \/ /\ todo[g] # <<>> /\ todo'[g] = Rest(todo[g]) /\ faults' = faults
              /\ handles'[g] \in {handles[g], NoEvent}
           \/ CallFails(g) \/ MapFails(g)
           \/ todo[g] = <<>> /\ \E e \in pending: todo'[g] = Program(e) /\ handles'[g] = e
<1>1. /\ todo \in [Goroutine -> Seq(Parts)] /\ handles \in [Goroutine -> Event \union {NoEvent}]
      /\ g \in Goroutine /\ g # Main
    BY DEF ListenerInv, TypeOK, Handler
<1> DEFINE Rests == UNCHANGED <<todo[g], handles[g]>>
           Moves == /\ todo[g] # <<>> /\ todo'[g] = Rest(todo[g]) /\ faults' = faults
                    /\ handles'[g] \in {handles[g], NoEvent}
<1>2. ASSUME NEW h \in Goroutine, Done(h), faults' = faults, h = g => todo[g] # <<>>
      PROVE  Rests \/ Moves
    BY <1>1, <1>2 DEF Done, GoOn
<1>3. ASSUME NEW h \in Goroutine, AcquireLock(h) \/ ReleaseLock(h)
      PROVE  Rests \/ Moves
    <2>1. CASE UNCHANGED <<todo, handles>>
        BY <2>1
    <2>2. ASSUME Done(h), LockMutex(h) \/ UnlockMutex(h), running, faults' = faults
          PROVE  Rests \/ Moves
        <3>1. todo[h] # <<>>
            BY <2>2 DEF ListenerInv, InTheLocker, LockMutex, UnlockMutex
        <3>2. QED
            BY <1>2, <2>2, <3>1
    <2>3. QED
        BY <1>3, <2>1, <2>2 DEF AcquireLock, ReleaseLock, local
<1>4. ASSUME NEW h \in Goroutine, Call(h)
      PROVE  Rests \/ Moves
    <2>1. todo[h] # <<>> /\ faults' = faults
        BY <1>4 DEF Call, Runs, StoreHistory, StoreIntervals, GetBuys, StoreBook, GetAllMarkets,
                    DateMarkets, AskFirstTrades, StoreMarkets, StoreMap
    <2>2. CASE Done(h)
        BY <1>2, <2>1, <2>2
    <2>3. ASSUME ~Done(h)
          PROVE  h = Main /\ StoreMap(h)
        BY <1>4, <2>3 DEF Call, StoreHistory, StoreIntervals, GetBuys, StoreBook, GetAllMarkets,
                    DateMarkets, AskFirstTrades, StoreMarkets, StoreMap
    <2>4. CASE h = Main /\ StoreMap(h)
        BY <1>1, <2>4 DEF StoreMap, GoOn, Done
    <2>5. QED
        BY <2>2, <2>3, <2>4
<1>5. ASSUME NEW h \in Goroutine, h # g, CallFails(h) \/ MapFails(h)
      PROVE  Rests
    BY <1>1, <1>5 DEF CallFails, MapFails
<1>6. ASSUME NEW h \in Handler, Listen(h)
      PROVE  Rests \/ (todo[g] = <<>> /\ \E e \in pending: todo'[g] = Program(e) /\ handles'[g] = e)
    <2>1. PICK e \in pending: HandleMessage(h, e)
        BY <1>6 DEF Listen
    <2>2. CASE UNCHANGED <<todo[g], handles[g]>>
        BY <2>2
    <2>3. CASE /\ h = g /\ todo' = [todo EXCEPT ![g] = Program(e)]
               /\ handles' = [handles EXCEPT ![g] = e]
        BY <1>1, <2>1, <2>3 DEF HandleMessage
    <2>4. QED
        BY <1>1, <2>1, <2>2, <2>3 DEF HandleMessage
<1>7. ASSUME NEW type, NEW m, NEW stream, Emit(type, m, stream) \/ Subscribe(stream)
      PROVE  Rests
    BY <1>7 DEF Emit, Subscribe, local
<1>8. ~Stop
    BY DEF Stop
<1>9. CASE UNCHANGED vars
    BY <1>9 DEF vars, local
<1>10. QED
    BY <1>3, <1>4, <1>5, <1>6, <1>7, <1>8, <1>9 DEF Next, Run

\* A handler of a market's orders goes on with its market.
LEMMA HandlersKeepToMarkets ==
    ASSUME ListenerInv, [Next]_vars, running', NEW g \in Handler, HandlesItsMarket(g)
    PROVE  HandlesItsMarket(g)'
<1>1. /\ todo \in [Goroutine -> Seq(Parts)] /\ handles \in [Goroutine -> Event \union {NoEvent}]
      /\ pending \subseteq Event /\ g \in Goroutine /\ todo[g] \in Seq(Parts)
    BY DEF ListenerInv, TypeOK, Handler
<1>2. CASE UNCHANGED <<todo[g], handles[g]>>
    BY <1>2 DEF HandlesItsMarket
<1>3. ASSUME todo[g] # <<>>, todo'[g] = Rest(todo[g]), handles'[g] \in {handles[g], NoEvent}
      PROVE  HandlesItsMarket(g)'
    <2>1. SUFFICES ASSUME handles'[g] # NoEvent, handles'[g].type # "MarketCreated",
                          NEW j \in DOMAIN todo'[g]
                   PROVE  IsAbout(todo'[g][j], handles[g].market)
        BY <1>3 DEF HandlesItsMarket
    <2>2. \A k \in DOMAIN todo[g]: IsAbout(todo[g][k], handles[g].market)
        BY <1>3, <2>1 DEF HandlesItsMarket
    <2>3. CASE Len(todo[g][1]) = 1
        <3>1. j + 1 \in DOMAIN todo[g] /\ todo'[g][j] = todo[g][j + 1]
            BY <1>1, <1>3, <2>1, <2>3, RestOfProgram
        <3>2. QED
            BY <2>2, <3>1
    <2>4. CASE Len(todo[g][1]) # 1
        <3>1. /\ DOMAIN Rest(todo[g]) = DOMAIN todo[g]
              /\ \A k \in DOMAIN todo[g]:
                    Rest(todo[g])[k] = IF k = 1 THEN Tail(todo[g][1]) ELSE todo[g][k]
            BY <1>1, <1>3, <2>4, RestOfProgram
        <3>2. j \in DOMAIN todo[g]
            BY <1>3, <2>1, <3>1
        <3>3. In(Tail(todo[g][1])) \subseteq In(todo[g][1]) /\ 1 \in DOMAIN todo[g]
            BY <1>1, <1>3, HeadOfProgram, TypeOfNext
        <3>4. CASE j = 1
            <4>1. todo'[g][j] = Tail(todo[g][1]) /\ IsAbout(todo[g][1], handles[g].market)
                BY <1>3, <2>2, <3>1, <3>2, <3>3, <3>4
            <4>2. QED
                BY <3>3, <4>1 DEF IsAbout
        <3>5. CASE j # 1
            BY <1>3, <2>2, <3>1, <3>2, <3>5
        <3>6. QED
            BY <3>4, <3>5
    <2>5. QED
        BY <2>3, <2>4
<1>4. CASE CallFails(g) \/ MapFails(g)
    <2>1. handles'[g] = NoEvent
        BY <1>1, <1>4 DEF CallFails, MapFails
    <2>2. QED
        BY <2>1 DEF HandlesItsMarket
<1>5. ASSUME NEW e \in pending, todo'[g] = Program(e), handles'[g] = e
      PROVE  HandlesItsMarket(g)'
    <2>1. e.market \in Market /\ e.type \in EventType
        BY <1>1, EventIsSomething
    <2>2. \A part \in {SyncHistory(e.market), SyncIntervals(e.market), SyncMarket(e.market)}:
              IsAbout(part, e.market)
        BY <2>1, HistoryPart, IntervalsPart, OrdersPart DEF IsAbout, Connection, Lock, Unlock, Do
    <2>3. ASSUME e.type # "MarketCreated", NEW j \in DOMAIN Program(e)
          PROVE  Program(e)[j] \in {SyncHistory(e.market), SyncIntervals(e.market), SyncMarket(e.market)}
        <3>1. CASE e.type = "OrderExecuted"
            <4>1. Program(e) = <<SyncHistory(e.market), SyncIntervals(e.market),
                  SyncMarket(e.market)>>
                BY <3>1 DEF Program, OrderExecuted
            <4> HIDE DEF Program
            <4>2. QED
                BY <2>3, <4>1
        <3>2. CASE e.type = "OrderSaved"
            <4>1. Program(e) = <<SyncMarket(e.market)>>
                BY <3>2 DEF Program
            <4>2. QED
                BY <2>3, <4>1
        <3>3. QED
            BY <2>1, <2>3, <3>1, <3>2 DEF EventType
    <2>4. QED
        BY <1>5, <2>2, <2>3 DEF HandlesItsMarket
<1>6. QED
    BY <1>2, <1>3, <1>4, <1>5, StepsOfHandler

\* What is lost stays lost, or gives way to what happened since, or to a failure.
LEMMA LossesStay ==
    ASSUME ListenerInv, HandlersInv, [Next]_vars, NEW m \in Market
    PROVE  /\ missed[m] <= missed'[m] \/ event[m] <= missed'[m]
           /\ missed'[m] = missed[m] \/ missed'[m] # 0 \/ faults' # 0
           /\ faults <= faults'
<1>1. /\ missed \in [Market -> Nat] /\ event[m] \in Nat /\ faults \in Nat /\ emitted \in Nat
      /\ event[m] <= emitted /\ pending \subseteq Event
      /\ handles \in [Goroutine -> Event \union {NoEvent}]
    <2>1. missed \in [Market -> 0..MaxEvents] /\ MaxEvents \in Nat /\ faults \in 0..MaxFaults
          /\ MaxFaults \in Nat
        BY ListenerAssumption DEF ListenerInv, TypeOK
    <2>2. /\ event[m] \in Nat /\ emitted \in Nat /\ event[m] <= emitted
          /\ pending \subseteq Event /\ handles \in [Goroutine -> Event \union {NoEvent}]
        <3>1. Numbers /\ NothingIsNewer
            BY TypesAreNumbers DEF ListenerInv
        <3>2. pending \subseteq Event /\ handles \in [Goroutine -> Event \union {NoEvent}]
            BY DEF ListenerInv, TypeOK
        <3>3. QED
            BY <3>1, <3>2 DEF Numbers, NothingIsNewer
    <2>3. missed \in [Market -> Nat] /\ faults \in Nat
        BY <2>1
    <2>4. QED
        BY <2>2, <2>3
<1>2. missed[m] <= missed[m] /\ event[m] <= event[m] /\ faults <= faults
    BY <1>1
<1>3. CASE UNCHANGED <<missed, faults>>
    BY <1>2, <1>3
<1>4. ASSUME UNCHANGED missed, faults' = faults + 1
      PROVE  missed[m] <= missed'[m] /\ missed'[m] = missed[m] /\ faults <= faults'
    BY <1>1, <1>4
<1>5. ASSUME NEW g \in Goroutine, CallFails(g)
      PROVE  /\ missed[m] <= missed'[m] \/ event[m] <= missed'[m]
             /\ faults' # 0 /\ faults <= faults'
    <2>1. \/ missed'[m] = missed[m] \/ missed'[m] = event[m]
          \/ handles[g] # NoEvent /\ missed'[m] = Later(missed[m], handles[g].number)
        BY <1>5 DEF CallFails
    <2>2. handles[g] # NoEvent => handles[g].number \in Nat
        BY <1>1, EventIsSomething
    <2>3. missed[m] <= missed'[m] \/ event[m] <= missed'[m]
        BY <1>1, <2>1, <2>2 DEF Later
    <2>4. faults' = faults + 1
        BY <1>5 DEF CallFails
    <2>5. QED
        BY <1>1, <2>3, <2>4
<1>6. ASSUME NEW g \in Goroutine, NEW e \in Event, HandleMessage(g, e)
      PROVE  /\ missed[m] <= missed'[m]
             /\ missed'[m] = missed[m] \/ missed'[m] # 0
             /\ faults <= faults'
    <2>1. missed'[m] = missed[m] \/ missed'[m] = Later(missed[m], e.number)
        BY <1>1, <1>6 DEF HandleMessage
    <2>2. e.number \in Nat /\ missed[m] \in Nat /\ faults' = faults
        BY <1>1, <1>6, EventIsSomething DEF HandleMessage
    <2>3. QED
        BY <1>1, <2>1, <2>2 DEF Later
<1>7. ASSUME NEW type, NEW n \in Market, NEW stream, Emit(type, n, stream)
      PROVE  /\ missed[m] <= missed'[m] \/ event[m] <= missed'[m]
             /\ missed'[m] = missed[m] \/ missed'[m] # 0
             /\ faults <= faults'
    <2>1. missed'[m] = missed[m] \/ missed'[m] = emitted + 1
        BY <1>1, <1>7 DEF Emit
    <2>2. faults' = faults
        BY <1>7 DEF Emit
    <2>3. QED
        BY <1>1, <2>1, <2>2
<1>8. ASSUME NEW g \in Goroutine, AcquireLock(g) \/ ReleaseLock(g) \/ Call(g)
      PROVE  UNCHANGED <<missed, faults>>
    BY <1>8 DEF AcquireLock, ReleaseLock, Call
<1>9. ASSUME NEW g \in Goroutine, MapFails(g)
      PROVE  UNCHANGED missed /\ faults' = faults + 1
    BY <1>9 DEF MapFails
<1>10. ASSUME NEW stream, Subscribe(stream)
       PROVE  UNCHANGED <<missed, faults>>
    BY <1>10 DEF Subscribe
<1>11. CASE Stop
    BY <1>4, <1>11 DEF Stop
<1>12. CASE UNCHANGED vars
    BY <1>3, <1>12 DEF vars
<1>13. ASSUME NEW g \in Handler, Listen(g)
       PROVE  \E h \in Goroutine, e \in Event: HandleMessage(h, e)
    BY <1>1, <1>13 DEF Listen, Handler
<1>14. QED
    BY <1>3, <1>4, <1>5, <1>6, <1>7, <1>8, <1>9, <1>10, <1>11, <1>12, <1>13 DEF Next, Run

LEMMA SettledStays ==
    ASSUME ListenerInv, HandlersInv, [Next]_vars, Numbers', Grows,
           NEW e \in Event, Happened(e), Settled(e)
    PROVE  Settled(e)'
<1> DEFINE m == e.market
<1>1. /\ m \in Market /\ e.number \in Nat /\ e.type \in EventType
      /\ history[m] \in Nat /\ history'[m] \in Nat /\ intervals[m] \in Nat /\ intervals'[m] \in Nat
      /\ event[m] \in Nat
      /\ history[m] <= history'[m] /\ intervals[m] <= intervals'[m]
      /\ rows \subseteq rows'
    BY EventIsSomething, TypesAreNumbers DEF ListenerInv, Numbers, Grows
<1>2. missed[m] \in Nat /\ missed'[m] \in Nat /\ faults \in Nat /\ faults' \in Nat
    <2>1. TypeOK /\ TypeOK'
        BY NextListenerInv DEF ListenerInv
    <2>2. MaxEvents \in Nat /\ MaxFaults \in Nat
        BY ListenerAssumption
    <2>3. missed \in [Market -> 0..MaxEvents] /\ faults \in 0..MaxFaults
        BY <2>1 DEF TypeOK
    <2>4. missed' \in [Market -> 0..MaxEvents] /\ faults' \in 0..MaxFaults
        BY <2>1 DEF TypeOK
    <2>5. QED
        BY <1>1, <2>2, <2>3, <2>4
<1>3. /\ missed[m] <= missed'[m] \/ event[m] <= missed'[m]
      /\ missed'[m] = missed[m] \/ missed'[m] # 0 \/ faults' # 0
      /\ faults <= faults'
    BY <1>1, LossesStay
<1>7. BookReaches(m, e.number) => BookReaches(m, e.number)'
    BY <1>1, BookStays DEF ListenerInv
<1> HIDE DEF m
<1>4. CASE e.type = "MarketCreated"
    <2>1. CASE faults # 0 \/ missed[m] # 0
        <3>1. faults' # 0 \/ missed'[m] # 0
            BY <1>2, <1>3, <2>1
        <3>2. QED
            BY <1>4, <3>1 DEF Settled, m
    <2>2. CASE Reflects(e) /\ faults' = faults
        <3>1. markets \subseteq markets'
            BY <2>2, MapsAreKept
        <3>2. QED
            BY <1>1, <1>4, <2>2, <3>1 DEF Settled, Reflects, m
    <2>3. CASE faults = 0 /\ faults' # faults
        BY <1>4, <2>3 DEF Settled
    <2>4. QED
        BY <1>4, <2>1, <2>2, <2>3 DEF Settled, m
<1>5. CASE e.type # "MarketCreated"
    <2>1. e.number <= event[m]
        BY <1>5 DEF Happened, m
    <2>2. e.number <= missed[m] => e.number <= missed'[m]
        BY <1>1, <1>2, <1>3, <2>1
    <2>3. /\ e.number <= history[m] => e.number <= history'[m]
          /\ e.number <= intervals[m] => e.number <= intervals'[m]
        BY <1>1
    <2>4. Reflects(e) => Reflects(e)'
        BY <1>1, <1>5, <1>7, <2>3 DEF Reflects, EventType, m
    <2>5. QED
        BY <1>5, <2>2, <2>4 DEF Settled, m
<1>6. QED
    BY <1>4, <1>5

\* A handler goes on with its event until it is in the tables or a call fails.
LEMMA HandledIsSettled ==
    ASSUME ListenerInv, HandlersInv, [Next]_vars, running', Numbers',
           NEW g \in Handler, HandlesItsMarket(g), NEW e \in Event, handles[g] = e
    PROVE  handles'[g] = e \/ Settled(e)'
<1>1. /\ g \in Goroutine /\ g # Main /\ Happened(e) /\ Progress(g, e) /\ e.market \in Market
      /\ e.type \in EventType /\ e.number \in Nat /\ Kept(g) /\ faults \in Nat
      /\ todo \in [Goroutine -> Seq(Parts)] /\ pending \subseteq Event
      /\ missed \in [Market -> 0..MaxEvents] /\ MaxEvents \in Nat
    <2>1. e # NoEvent /\ e.market \in Market /\ e.type \in EventType /\ e.number \in Nat
        BY EventIsSomething
    <2>2. Happened(e) /\ Progress(g, e) /\ Kept(g)
        BY <2>1, NextKeepsHandlers DEF HandlersInv
    <2>3. /\ g \in Goroutine /\ g # Main /\ faults \in Nat
          /\ todo \in [Goroutine -> Seq(Parts)] /\ pending \subseteq Event
          /\ missed \in [Market -> 0..MaxEvents] /\ MaxEvents \in Nat
        BY ListenerAssumption DEF ListenerInv, TypeOK, Handler
    <2>4. QED
        BY <2>1, <2>2, <2>3
<1>2. todo[g] # <<>>
    <2>1. Len(todo[g]) \in {1, 2, 3}
        BY <1>1 DEF Progress, EventType
    <2>2. Len(<<>>) = 0
        OBVIOUS
    <2>3. QED
        BY <2>1, <2>2
<1>3. ASSUME faults' = faults, handles'[g] = NoEvent
      PROVE  Settled(e)'
    <2>1. Reflects(e)'
        BY <1>1, <1>3 DEF Kept
    <2>2. QED
        BY <2>1 DEF Settled
<1>4. ASSUME CallFails(g) \/ MapFails(g)
      PROVE  Settled(e)'
    <2>1. faults' # 0
        <3>1. faults' = faults + 1
            BY <1>4 DEF CallFails, MapFails
        <3>2. QED
            BY <1>1, <3>1
    <2>2. CASE e.type = "MarketCreated"
        BY <2>1, <2>2 DEF Settled
    <2>3. CASE e.type # "MarketCreated"
        <3>1. /\ Next1(g) \in In(todo[g][1]) /\ 1 \in DOMAIN todo[g]
              /\ Next1(g).do \notin {"lock", "unlock"}
            BY <1>1, <1>2, <1>4, TypeOfNext DEF CallFails, MapFails, Runs
        <3>2. Next1(g).do \in {"history", "intervals", "buys", "book"} /\ Next1(g).on = e.market
            BY <2>3, <3>1, EventIsSomething DEF HandlesItsMarket, IsAbout
        <3>3. ~MapFails(g)
            BY <3>2 DEF MapFails, Runs
        <3>4. missed'[e.market] = Later(missed[e.market], e.number)
            BY <1>1, <1>4, <3>2, <3>3, EventIsSomething DEF CallFails
        <3>5. missed[e.market] \in Nat
            BY <1>1
        <3>6. e.number <= missed'[e.market]
            BY <1>1, <3>4, <3>5 DEF Later
        <3>7. QED
            BY <2>3, <3>6 DEF Settled
    <2>4. QED
        BY <2>2, <2>3
<1>5. QED
    BY <1>2, <1>3, <1>4, StepsOfHandler

\* An event that was received waits until it is handled, or its market is not
\* in the map.
LEMMA PendingIsHandled ==
    ASSUME ListenerInv, [Next]_vars, running', NEW e \in pending
    PROVE  e \in pending' \/ (\E g \in Handler: handles'[g] = e) \/ Settled(e)'
<1>1. /\ e \in Event /\ handles \in [Goroutine -> Event \union {NoEvent}]
      /\ missed \in [Market -> 0..MaxEvents] /\ MaxEvents \in Nat
    BY ListenerAssumption DEF ListenerInv, TypeOK
<1>2. ASSUME NEW g \in Handler, Listen(g)
      PROVE  e \in pending' \/ handles'[g] = e \/ Settled(e)'
    <2>1. PICK f \in pending: HandleMessage(g, f)
        BY <1>2 DEF Listen
    <2>2. CASE f # e
        BY <2>1, <2>2 DEF HandleMessage
    <2>3. CASE f = e /\ (e.type = "MarketCreated" \/ e.market \in markets)
        BY <1>1, <2>1, <2>3 DEF HandleMessage, Handler
    <2>4. CASE f = e /\ ~(e.type = "MarketCreated" \/ e.market \in markets)
        <3>1. missed'[e.market] = Later(missed[e.market], e.number)
            BY <1>1, <2>1, <2>4, EventIsSomething DEF HandleMessage
        <3>2. missed[e.market] \in Nat /\ e.number \in Nat
            BY <1>1, EventIsSomething
        <3>3. e.number <= missed'[e.market]
            BY <3>1, <3>2 DEF Later
        <3>4. QED
            BY <2>4, <3>3 DEF Settled
    <2>5. QED
        BY <2>2, <2>3, <2>4
<1>3. ASSUME NEW g \in Goroutine, AcquireLock(g) \/ Run(g) \/ CallFails(g) \/ MapFails(g)
      PROVE  e \in pending'
    BY <1>3 DEF AcquireLock, Run, ReleaseLock, Call, CallFails, MapFails
<1>4. ASSUME NEW type, NEW m, NEW stream, Emit(type, m, stream) \/ Subscribe(stream)
      PROVE  e \in pending'
    BY <1>4 DEF Emit, Subscribe
<1>5. ~Stop
    BY DEF Stop
<1>6. CASE UNCHANGED vars
    BY <1>6 DEF vars
<1>7. QED
    BY <1>2, <1>3, <1>4, <1>5, <1>6 DEF Next

LEMMA EventOfIsEvent ==
    ASSUME NEW type \in EventType, NEW m \in Market, NEW n \in 1..MaxEvents
    PROVE  /\ EventOf(type, m, n) \in Event
           /\ EventOf(type, m, n).type = type /\ EventOf(type, m, n).market = m
           /\ EventOf(type, m, n).number = n
BY DEF EventOf, Event

LEMMA CoveredStays ==
    ASSUME ListenerInv, HandlersInv, CoverInv, [Next]_vars, running, running', Numbers', Grows,
           NEW e \in Event, Happened(e), Covered(e)
    PROVE  Covered(e)'
<1>1. MapComesOnce /\ Listed \subseteq created /\ \A g \in Handler: HandlesItsMarket(g)
    BY DEF CoverInv, ChainFits
<1>2. CASE Settled(e)
    BY <1>2, SettledStays DEF Covered
<1>3. CASE e \in pending
    BY <1>3, PendingIsHandled DEF Covered, Waits
<1>4. ASSUME NEW g \in Handler, handles[g] = e
      PROVE  Covered(e)'
    BY <1>1, <1>4, HandledIsSettled DEF Covered, Waits
<1>5. CASE InitiallySynced(e)
    BY <1>1, <1>5, InitialSyncGoesOn DEF Covered, Waits
<1>6. QED
    BY <1>2, <1>3, <1>4, <1>5 DEF Covered, Waits

\* What does not change on the chain stays covered.  The primes are about the
\* state after a step, the last trade and the last event about the one before.
StaysCovered(m) ==
    /\ \A n \in 1..MaxEvents: trade[m] = n => Covered(EventOf("OrderExecuted", m, n))'
    /\ \A n \in 1..MaxEvents:
           event[m] = n /\ trade[m] # n => Covered(EventOf("OrderSaved", m, n))'
    /\ \E n \in 1..MaxEvents: Covered(EventOf("MarketCreated", m, n))'

LEMMA UnchangedStaysCovered ==
    ASSUME ListenerInv, HandlersInv, CoverInv, [Next]_vars, running, running', Numbers', Grows,
           NEW m \in created
    PROVE  StaysCovered(m)
<1>1. /\ m \in Market /\ MarketCovered(m) /\ trade[m] <= event[m]
      /\ trade[m] \in Nat /\ event[m] \in Nat
      /\ \A n \in 1..MaxEvents: n \in Nat
    BY TypesAreNumbers, ListenerAssumption DEF ListenerInv, NothingIsNewer, CoverInv, ChainFits,
       Numbers
<1>2. ASSUME NEW type \in EventType, NEW n \in 1..MaxEvents, Covered(EventOf(type, m, n)),
             type = "OrderExecuted" => n <= trade[m],
             type # "MarketCreated" => n <= event[m]
      PROVE  Covered(EventOf(type, m, n))'
    <2>1. PICK e \in Event: e = EventOf(type, m, n)
        BY <1>1, EventOfIsEvent
    <2>2. e.type = type /\ e.market = m /\ e.number = n
        BY <1>1, <2>1, EventOfIsEvent
    <2>3. Happened(e)
        BY <1>2, <2>2 DEF Happened
    <2>4. Covered(e)
        BY <1>2, <2>1
    <2>5. Covered(e)'
        BY <2>3, <2>4, CoveredStays
    <2>6. QED
        BY <2>1, <2>5
<1>3. \A n \in 1..MaxEvents: /\ trade[m] = n => n <= trade[m] /\ n <= event[m]
                             /\ event[m] = n => n <= event[m]
    BY <1>1
<1>4. ASSUME NEW n \in 1..MaxEvents, trade[m] = n
      PROVE  Covered(EventOf("OrderExecuted", m, n))'
    BY <1>1, <1>2, <1>3, <1>4 DEF MarketCovered, EventType
<1>5. ASSUME NEW n \in 1..MaxEvents, event[m] = n, trade[m] # n
      PROVE  Covered(EventOf("OrderSaved", m, n))'
    BY <1>1, <1>2, <1>3, <1>5 DEF MarketCovered, EventType
<1>6. \E n \in 1..MaxEvents: Covered(EventOf("MarketCreated", m, n))'
    <2>1. PICK n \in 1..MaxEvents: Covered(EventOf("MarketCreated", m, n))
        BY <1>1 DEF MarketCovered
    <2>2. QED
        BY <1>2, <2>1 DEF EventType
<1>7. QED
    BY <1>4, <1>5, <1>6 DEF StaysCovered

\* Only the chain changes the chain.
LEMMA StepsOfChain ==
    ASSUME ListenerInv, [Next]_vars
    PROVE  /\ running' => running
           /\ \/ UNCHANGED <<created, event, trade>>
              \/ \E type \in EventType, m \in Market, stream \in Stream: Emit(type, m, stream)
<1>1. running \in BOOLEAN /\ running' \in BOOLEAN
    BY NextListenerInv DEF ListenerInv, TypeOK
<1> DEFINE Rests == (running' => running) /\ UNCHANGED <<created, event, trade>>
<1>2. ASSUME NEW g \in Goroutine, AcquireLock(g) \/ Run(g) \/ CallFails(g) \/ MapFails(g)
      PROVE  Rests
    <2>1. CASE AcquireLock(g)
        BY <2>1 DEF AcquireLock, chainVars
    <2>2. CASE ReleaseLock(g)
        BY <2>2 DEF ReleaseLock, chainVars
    <2>3. CASE Call(g)
        BY <2>3 DEF Call, chainVars
    <2>4. CASE CallFails(g)
        BY <2>4 DEF CallFails, chainVars
    <2>5. CASE MapFails(g)
        BY <2>5 DEF MapFails, Runs, chainVars
    <2>6. QED
        BY <1>2, <2>1, <2>2, <2>3, <2>4, <2>5 DEF Run
<1>3. ASSUME NEW g \in Handler, Listen(g)
      PROVE  Rests
    BY <1>3 DEF Listen, HandleMessage, chainVars
<1>4. ASSUME NEW stream \in Stream, Subscribe(stream)
      PROVE  Rests
    BY <1>4 DEF Subscribe, chainVars
<1>5. CASE Stop
    BY <1>5 DEF Stop, chainVars
<1>6. CASE UNCHANGED vars
    BY <1>6 DEF vars, chainVars
<1>7. ASSUME NEW type \in EventType, NEW m \in Market, NEW stream \in Stream, Emit(type, m, stream)
      PROVE  running
    BY <1>7 DEF Emit
<1>8. QED
    BY <1>2, <1>3, <1>4, <1>5, <1>6, <1>7 DEF Next

LEMMA NextChainFits == ListenerInv /\ ChainFits /\ [Next]_vars => ChainFits'
<1> SUFFICES ASSUME ListenerInv, ChainFits, [Next]_vars
             PROVE  ChainFits'
    OBVIOUS
<1>1. CASE UNCHANGED <<created, event, trade>>
    BY <1>1 DEF ChainFits
<1>2. ASSUME NEW type \in EventType, NEW m \in Market, NEW stream \in Stream, Emit(type, m, stream)
      PROVE  ChainFits'
    <2>1. /\ emitted \in Nat /\ event \in [Market -> Nat] /\ trade \in [Market -> Nat]
          /\ \A n \in Market: event[n] <= emitted /\ trade[n] <= event[n]
          /\ Listed \subseteq created
          /\ \A n \in Market: n \notin created => event[n] = 0
        BY TypesAreNumbers DEF ListenerInv, Numbers, NothingIsNewer, ChainFits
    <2>2. /\ created' = created \union {m} /\ (m \in created <=> type # "MarketCreated")
          /\ event' = IF type = "MarketCreated" THEN event ELSE [event EXCEPT ![m] = emitted + 1]
          /\ trade' = IF type = "OrderExecuted" THEN [trade EXCEPT ![m] = emitted + 1] ELSE trade
        BY <1>2 DEF Emit
    <2>3. ASSUME NEW n \in Market
          PROVE  trade'[n] <= event'[n] /\ (n \notin created' => event'[n] = 0)
        <3>1. CASE n # m \/ type = "MarketCreated"
            <4>1. event'[n] = event[n] /\ trade'[n] = trade[n]
                BY <2>1, <2>2, <3>1
            <4>2. created' = created \union {m}
                BY <2>2
            <4>3. n \notin created' => n \notin created
                BY <4>2
            <4>4. trade[n] <= event[n] /\ (n \notin created => event[n] = 0)
                BY <2>1
            <4>5. QED
                BY <4>1, <4>3, <4>4
        <3>2. CASE n = m /\ type # "MarketCreated"
            <4>1. event'[n] = emitted + 1 /\ trade'[n] \in {emitted + 1, trade[n]} /\ n \in created'
                BY <2>1, <2>2, <3>2
            <4>2. trade[n] <= emitted + 1
                BY <2>1
            <4>3. QED
                BY <2>1, <4>1, <4>2
        <3>3. QED
            BY <3>1, <3>2
    <2>4. Listed \subseteq created'
        BY <2>1, <2>2
    <2>5. QED
        BY <2>3, <2>4 DEF ChainFits
<1>3. \/ UNCHANGED <<created, event, trade>>
      \/ \E type \in EventType, m \in Market, stream \in Stream: Emit(type, m, stream)
    BY StepsOfChain
<1>4. QED
    BY <1>1, <1>2, <1>3

\* An event of the chain waits for a handler, or is lost for want of a subscription.
LEMMA EmittedIsCovered ==
    ASSUME ListenerInv,
           NEW type \in EventType, NEW m \in Market, NEW stream \in Stream, Emit(type, m, stream)
    PROVE  \E n \in 1..MaxEvents: n = emitted + 1 /\ Covered(EventOf(type, m, n))'
<1>1. /\ emitted \in Nat /\ MaxEvents \in Nat /\ emitted < MaxEvents
      /\ missed \in [Market -> 0..MaxEvents]
    BY ListenerAssumption, TypesAreNumbers DEF ListenerInv, Numbers, TypeOK, Emit
<1>2. emitted + 1 \in 1..MaxEvents /\ emitted + 1 # 0
    BY <1>1
<1>3. PICK n \in 1..MaxEvents: n = emitted + 1
    BY <1>2
<1>4. PICK e \in Event: e = EventOf(type, m, n)
    BY EventOfIsEvent
<1>5. e.type = type /\ e.market = m /\ e.number = n
    BY <1>4, EventOfIsEvent
<1>6. e = [type |-> type, market |-> m, number |-> emitted + 1]
    BY <1>3, <1>4 DEF EventOf
<1>7. Covered(e)'
    <2>1. CASE stream \in subscribed
        <3>1. e \in pending'
            BY <1>6, <2>1 DEF Emit
        <3>2. QED
            BY <3>1 DEF Covered, Waits
    <2>2. CASE stream \notin subscribed
        <3>1. missed' = [missed EXCEPT ![m] = emitted + 1]
            BY <2>2 DEF Emit
        <3>2. missed'[m] = n
            BY <1>1, <1>3, <3>1
        <3>3. e.number <= missed'[e.market] /\ missed'[e.market] # 0
            BY <1>2, <1>3, <1>5, <3>2
        <3>4. QED
            BY <3>3 DEF Covered, Settled
    <2>3. QED
        BY <2>1, <2>2
<1>8. QED
    BY <1>3, <1>4, <1>7

LEMMA NextCoverInv ==
    ASSUME ListenerInv, HandlersInv, CoverInv, [Next]_vars
    PROVE  CoverInv'
<1>1. ChainFits' /\ (running' => running)
    BY NextChainFits, StepsOfChain DEF CoverInv
<1>2. ASSUME running'
      PROVE  /\ MapComesOnce'
             /\ \A g \in Handler: HandlesItsMarket(g)'
             /\ \A m \in created': MarketCovered(m)'
    <2>1. /\ running /\ Listed \subseteq created /\ MapComesOnce
          /\ \A g \in Handler: HandlesItsMarket(g)
        BY <1>1, <1>2 DEF CoverInv, ChainFits
    <2>2. Numbers' /\ Grows
        BY NextIsNumbers, NextGrows
    <2>3. MapComesOnce'
        BY <1>2, <2>1, <2>2, InitialSyncGoesOn
    <2>4. \A g \in Handler: HandlesItsMarket(g)'
        BY <1>2, <2>1, HandlersKeepToMarkets
    <2>5. \A m \in created: StaysCovered(m)
        BY <1>2, <2>1, <2>2, UnchangedStaysCovered DEF StaysCovered
    <2>6. ASSUME UNCHANGED <<created, event, trade>>
          PROVE  \A m \in created': MarketCovered(m)'
        BY <2>5, <2>6 DEF StaysCovered, MarketCovered
    <2>7. ASSUME NEW type \in EventType, NEW m \in Market, NEW stream \in Stream,
                 Emit(type, m, stream)
          PROVE  \A n \in created': MarketCovered(n)'
        <3>1. /\ emitted \in Nat /\ event \in [Market -> Nat] /\ trade \in [Market -> Nat]
              /\ created \subseteq Market
            BY TypesAreNumbers DEF ListenerInv, Numbers
        <3>2. \A n \in Market: trade[n] <= event[n] /\ (n \notin created => event[n] = 0)
            BY DEF CoverInv, ChainFits
        <3>3. /\ created' = created \union {m}
              /\ m \in created <=> type # "MarketCreated"
              /\ event' = IF type = "MarketCreated" THEN event ELSE [event EXCEPT ![m] = emitted + 1]
              /\ trade' = IF type = "OrderExecuted" THEN [trade EXCEPT ![m] = emitted + 1] ELSE trade
            BY <2>7 DEF Emit
        <3>4. PICK last \in 1..MaxEvents: last = emitted + 1 /\ Covered(EventOf(type, m, last))'
            BY <2>7, EmittedIsCovered
        <3>5. ASSUME NEW n \in created', n # m
              PROVE  MarketCovered(n)'
            <4>1. /\ n \in created /\ StaysCovered(n)
                  /\ event'[n] = event[n] /\ trade'[n] = trade[n]
                BY <2>5, <3>1, <3>3, <3>5
            <4>2. QED
                BY <4>1 DEF StaysCovered, MarketCovered
        <3>6. ASSUME type = "MarketCreated"
              PROVE  MarketCovered(m)'
            <4>1. trade'[m] = 0 /\ event'[m] = 0
                <5>1. trade'[m] = trade[m] /\ event'[m] = event[m] /\ event[m] = 0
                      /\ trade[m] \in Nat
                      /\ trade[m] <= event[m]
                    BY <3>1, <3>2, <3>3, <3>6
                <5>2. QED
                    BY <5>1
            <4>2. \A k \in 1..MaxEvents: k # 0
                OBVIOUS
            <4>3. Covered(EventOf("MarketCreated", m, last))'
                BY <3>4, <3>6
            <4>4. QED
                BY <4>1, <4>2, <4>3 DEF MarketCovered
        <3>7. ASSUME type = "OrderExecuted"
              PROVE  MarketCovered(m)'
            <4>1. trade'[m] = last /\ event'[m] = last /\ StaysCovered(m)
                BY <2>5, <3>1, <3>3, <3>4, <3>7
            <4>2. Covered(EventOf("OrderExecuted", m, last))'
                BY <3>4, <3>7
            <4>3. QED
                BY <4>1, <4>2 DEF StaysCovered, MarketCovered
        <3>8. ASSUME type = "OrderSaved"
              PROVE  MarketCovered(m)'
            <4>1. trade'[m] = trade[m] /\ event'[m] = last /\ StaysCovered(m)
                BY <2>5, <3>1, <3>3, <3>4, <3>8
            <4>2. Covered(EventOf("OrderSaved", m, last))'
                BY <3>4, <3>8
            <4>3. QED
                BY <4>1, <4>2 DEF StaysCovered, MarketCovered
        <3>9. MarketCovered(m)'
            BY <3>6, <3>7, <3>8 DEF EventType
        <3>10. QED
            BY <3>5, <3>9
    <2>8. \A m \in created': MarketCovered(m)'
        <3>1. \/ UNCHANGED <<created, event, trade>>
              \/ \E type \in EventType, m \in Market, stream \in Stream: Emit(type, m, stream)
            BY StepsOfChain
        <3>2. QED
            BY <2>6, <2>7, <3>1
    <2>9. QED
        BY <2>3, <2>4, <2>8
<1>3. QED
    BY <1>1, <1>2 DEF CoverInv

\* The markets of the start have a row and are in the map, and the orders they
\* had before wait for initialSync.
LEMMA InitCoverInv == Init => CoverInv
<1> SUFFICES ASSUME Init
             PROVE  CoverInv
    OBVIOUS
<1> DEFINE first1 == <<Do("lock", LockMarketsKey)>> \o SyncMarkets
<1>1. Map \notin In(first1)
    BY FirstPart DEF Asking, Map, Lock, Unlock, Connection, Do, GrpcLockName, LockMarketsKey
<1>2. InitialSync = <<first1, GetMarketsMap>>
    BY DEF InitialSync
<1> HIDE DEF first1
<1>3. /\ todo[Main] = InitialSync /\ created = Listed /\ rows = Listed /\ markets = Listed
      /\ trade = event /\ event = [m \in Market |-> IF m \in Listed THEN 1 ELSE 0]
      /\ \A g \in Goroutine: handles[g] = NoEvent
    BY ListenerAssumption DEF Init
<1>4. Len(todo[Main]) = 2 /\ todo[Main][1] = first1 /\ todo[Main][2] = GetMarketsMap
    BY <1>2, <1>3
<1>5. MapWaits
    BY <1>1, <1>4 DEF MapWaits
<1>6. ChainFits
    BY <1>3, ListenerAssumption DEF ChainFits
<1>7. MapComesOnce /\ \A g \in Handler: HandlesItsMarket(g)
    BY <1>3, <1>5 DEF MapComesOnce, HandlesItsMarket, Handler
<1>8. ASSUME NEW m \in created
      PROVE  MarketCovered(m)
    <2>1. m \in Market /\ m \in Listed /\ trade[m] = 1 /\ event[m] = 1 /\ 1 \in 1..MaxEvents
        BY <1>3, ListenerAssumption
    <2>2. InitiallySynced(EventOf("OrderExecuted", m, 1))
        BY <1>5, <2>1, EventOfIsEvent DEF InitiallySynced, EventType
    <2>3. Reflects(EventOf("MarketCreated", m, 1))
        <3>1. /\ EventOf("MarketCreated", m, 1).type = "MarketCreated"
              /\ EventOf("MarketCreated", m, 1).market = m
            BY DEF EventOf
        <3>2. m \in markets /\ m \in rows
            BY <1>3, <2>1
        <3>3. QED
            BY <3>1, <3>2 DEF Reflects
    <2>4. Covered(EventOf("OrderExecuted", m, 1)) /\ Covered(EventOf("MarketCreated", m, 1))
        BY <2>2, <2>3 DEF Covered, Waits, Settled
    <2>5. \A n \in 1..MaxEvents: /\ trade[m] = n => n = 1
                                 /\ ~(event[m] = n /\ trade[m] # n)
        BY <2>1
    <2>6. QED
        BY <2>1, <2>4, <2>5, Zenon DEF MarketCovered
<1>9. QED
    BY <1>6, <1>7, <1>8 DEF CoverInv

LEMMA CoverInvHolds == Spec => [](ListenerInv /\ HandlersInv /\ CoverInv)
<1>1. ListenerInv /\ HandlersInv /\ CoverInv /\ [Next]_vars => CoverInv'
    BY NextCoverInv
<1>2. QED
    BY <1>1, InitCoverInv, HandlersInvHolds, PTL DEF Spec

\* When nobody has anything to do, what the last event of a market asked for
\* is in the tables, or it was lost.
LEMMA QuietIsSettled ==
    ASSUME ListenerInv, HandlersInv, Quiet, NEW e \in Event, Covered(e)
    PROVE  Settled(e)
<1>1. /\ pending = {} /\ Main \in Goroutine /\ \A g \in Goroutine: todo[g] = <<>>
      /\ Len(<<>>) = 0 /\ DOMAIN <<>> = {}
    BY ListenerAssumption DEF Quiet
<1>2. ASSUME NEW g \in Handler, handles[g] = e
      PROVE  FALSE
    <2>1. Progress(g, e) /\ e.type \in EventType
        BY <1>2, EventIsSomething DEF HandlersInv
    <2>2. Len(todo[g]) = 0
        BY <1>1 DEF Handler
    <2>3. QED
        BY <2>1, <2>2 DEF Progress, EventType
<1>3. ~InitiallySynced(e)
    <2>1. Len(todo[Main]) = 0 /\ DOMAIN todo[Main] = {} /\ todo[Main] = <<>>
        BY <1>1
    <2>2. QED
        BY <2>1 DEF InitiallySynced, MapWaits, RoundWaits, RoundGoesOn
<1>4. QED
    BY <1>1, <1>2, <1>3 DEF Covered, Waits

\* When everything is handled the tables have reached the chain's last block,
\* except for a market whose last event was lost, and a book left without any
\* orders: no interleaving of the handlers with each other and with initialSync
\* leaves a table behind.
THEOREM CatchesUpTheorem == Spec => []CatchesUp
<1>1. ASSUME ListenerInv, HandlersInv, CoverInv, Quiet, NEW m \in created
      PROVE  /\ missed[m] < trade[m] => history[m] = trade[m] /\ intervals[m] = trade[m]
             /\ missed[m] < event[m] => book[m] = event[m] \/ \A s \in Side: Empty(s, m)
             /\ missed[m] = 0 /\ faults = 0 => m \in markets /\ m \in rows
    <2>1. /\ m \in Market /\ MarketCovered(m) /\ trade[m] <= event[m]
          /\ book[m] <= event[m] /\ history[m] <= trade[m] /\ intervals[m] <= history[m]
        BY <1>1 DEF ListenerInv, NothingIsNewer, CoverInv, ChainFits, Quiet
    <2>2. /\ trade[m] \in Nat /\ event[m] \in Nat /\ missed[m] \in Nat /\ faults \in Nat
          /\ book[m] \in Nat /\ history[m] \in Nat /\ intervals[m] \in Nat
        <3>1. /\ MaxEvents \in Nat /\ MaxFaults \in Nat
              /\ missed \in [Market -> 0..MaxEvents] /\ faults \in 0..MaxFaults
            BY <1>1, ListenerAssumption DEF ListenerInv, TypeOK
        <3>2. missed[m] \in Nat /\ faults \in Nat
            BY <2>1, <3>1
        <3>3. QED
            BY <1>1, <2>1, <3>2, TypesAreNumbers DEF ListenerInv, Numbers
    <2>3. /\ trade[m] \in 0..MaxEvents /\ event[m] \in 0..MaxEvents /\ MaxEvents \in Nat
        BY <1>1, <2>1, ListenerAssumption DEF ListenerInv, TypeOK
    <2>4. ASSUME NEW type \in EventType, NEW n \in 1..MaxEvents, Covered(EventOf(type, m, n))
          PROVE  /\ type = "MarketCreated" =>
                       (m \in markets /\ m \in rows) \/ faults # 0 \/ missed[m] # 0
                 /\ type = "OrderSaved" => BookReaches(m, n) \/ n <= missed[m]
                 /\ type = "OrderExecuted" =>
                       \/ BookReaches(m, n) /\ n <= history[m] /\ n <= intervals[m]
                       \/ n <= missed[m]
        <3>1. PICK e \in Event: e = EventOf(type, m, n)
            BY <2>1, EventOfIsEvent
        <3>2. e.type = type /\ e.market = m /\ e.number = n
            BY <2>1, <3>1, EventOfIsEvent
        <3>3. Settled(e)
            BY <1>1, <2>4, <3>1, QuietIsSettled
        <3>4. QED
            BY <3>2, <3>3 DEF Settled, Reflects
    <2>5. ASSUME missed[m] < trade[m]
          PROVE  history[m] = trade[m] /\ intervals[m] = trade[m]
        <3>1. PICK n \in 1..MaxEvents: n = trade[m]
            BY <2>2, <2>3, <2>5
        <3>2. Covered(EventOf("OrderExecuted", m, n))
            BY <2>1, <3>1 DEF MarketCovered
        <3>3. (n <= history[m] /\ n <= intervals[m]) \/ n <= missed[m]
            BY <2>4, <3>2 DEF EventType
        <3>4. QED
            BY <2>1, <2>2, <2>5, <3>1, <3>3
    <2>6. ASSUME missed[m] < event[m]
          PROVE  book[m] = event[m] \/ \A s \in Side: Empty(s, m)
        <3>1. PICK n \in 1..MaxEvents: n = event[m]
            BY <2>2, <2>3, <2>6
        <3>2. Covered(EventOf("OrderExecuted", m, n)) \/ Covered(EventOf("OrderSaved", m, n))
            BY <2>1, <3>1 DEF MarketCovered
        <3>3. BookReaches(m, n) \/ n <= missed[m]
            BY <2>4, <3>2 DEF EventType
        <3>4. ASSUME NEW s \in Side, n <= bare[s][m]
              PROVE  Empty(s, m)
            <4>1. bare[s][m] \in Nat /\ bare[s][m] <= event[m]
                BY <1>1, <2>1, TypesAreNumbers DEF ListenerInv, Numbers, BareIsPast
            <4>2. bare[s][m] = event[m]
                BY <2>2, <3>1, <3>4, <4>1
            <4>3. QED
                BY <4>2 DEF Empty
        <3>5. n <= book[m] => book[m] = event[m]
            BY <2>1, <2>2, <3>1
        <3>6. ~(n <= missed[m])
            BY <2>2, <2>6, <3>1
        <3>7. QED
            BY <3>3, <3>4, <3>5, <3>6 DEF BookReaches
    <2>7. ASSUME missed[m] = 0, faults = 0
          PROVE  m \in markets /\ m \in rows
        <3>1. PICK n \in 1..MaxEvents: Covered(EventOf("MarketCreated", m, n))
            BY <2>1 DEF MarketCovered
        <3>2. QED
            BY <2>4, <2>7, <3>1 DEF EventType
    <2>8. QED
        BY <2>5, <2>6, <2>7
<1>2. ListenerInv /\ HandlersInv /\ CoverInv => CatchesUp
    BY <1>1 DEF CatchesUp
<1>3. QED
    BY <1>2, CoverInvHolds, PTL
==============================================================================
