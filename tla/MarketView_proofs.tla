------------------------- MODULE MarketView_proofs -------------------------
(***************************************************************************)
(* What MarketView says of the intervals and tickers of a market, proved   *)
(* for any trades, prices, amounts, lengths, limits and moments.           *)
(*                                                                         *)
(* The figures are folds over the trades.  A fold is taken for the list of *)
(* its intermediate results (StepsOf), and what is true of the last one is *)
(* shown of each, up to a first one of which it would not be true.         *)
(***************************************************************************)
EXTENDS MarketView, FiniteSetTheorems, FunctionTheorems, WellFoundedInduction, TLAPS

-----------------------------------------------------------------------------
(* Least and greatest numbers. *)

LEMMA SmallestExists ==
    ASSUME NEW S \in SUBSET Nat, S # {}
    PROVE  \E m \in S: \A x \in S: m <= x
<1> DEFINE R == OpToRel(<, Nat)
<1>1. IsWellFoundedOn(R, Nat)
    BY NatLessThanWellFounded
<1>2. \E m \in S: \A y \in S: ~(<<y, m>> \in R)
    <2> HIDE DEF R
    <2>1. QED
        BY <1>1, WFMin
<1>3. PICK m \in S: \A y \in S: ~(<<y, m>> \in R)
    BY <1>2
<1>4. ASSUME NEW y \in S PROVE m <= y
    <2>1. m \in Nat /\ y \in Nat /\ (y < m => <<y, m>> \in R)
        BY DEF OpToRel
    <2>2. ~(<<y, m>> \in R)
        BY <1>3
    <2> HIDE DEF R
    <2>3. QED
        BY <2>1, <2>2
<1>5. QED
    BY <1>4

LEMMA LeastIs ==
    ASSUME NEW S \in SUBSET Nat, S # {}
    PROVE  Min(S) \in S /\ \A x \in S: Min(S) <= x
<1>1. \E m \in S: \A x \in S: m <= x
    BY SmallestExists
<1>2. QED
    BY <1>1 DEF Min

LEMMA GreatestIs ==
    ASSUME NEW S \in SUBSET Nat, NEW m \in S, \A x \in S: x <= m
    PROVE  Max(S) = m
<1>1. Max(S) = CHOOSE x \in S: \A y \in S: x >= y
    BY DEF Max
<1>2. \A y \in S: m >= y
    OBVIOUS
<1>3. \A x \in S: (\A y \in S: x >= y) => x = m
    OBVIOUS
<1>4. QED
    BY <1>1, <1>2, <1>3

LEMMA LeastIsOne ==
    ASSUME NEW S \in SUBSET Nat, NEW m \in S, \A x \in S: m <= x
    PROVE  Min(S) = m
<1>1. Min(S) \in S /\ Min(S) <= m
    BY LeastIs
<1>2. Min(S) \in Nat /\ m \in Nat /\ m <= Min(S)
    BY <1>1
<1>3. QED
    BY <1>1, <1>2

\* A set of the first numbers without its greatest one.
LEMMA GreatestOfFirst ==
    ASSUME NEW n \in Nat, NEW S \in SUBSET (1..n), S # {}
    PROVE  Max(S) \in S /\ \A x \in S: x <= Max(S)
<1> DEFINE D == {(n + 1) - x: x \in S}
<1>1. D \in SUBSET Nat /\ D # {}
    <2>1. \A x \in S: (n + 1) - x \in Nat
        OBVIOUS
    <2>2. QED
        BY <2>1
<1>2. PICK m \in S: \A x \in S: (n + 1) - m <= (n + 1) - x
    <2>1. PICK d \in D: \A y \in D: d <= y
        BY <1>1, SmallestExists
    <2>2. QED
        BY <2>1
<1>3. \A x \in S: x <= m
    BY <1>2
<1>4. S \in SUBSET Nat
    OBVIOUS
<1>5. QED
    BY <1>3, <1>4, GreatestIs

\* Counting up to n.
LEMMA Upward ==
    ASSUME NEW n \in Nat, NEW W, 0 \in W, \A k \in 1..n: k - 1 \in W => k \in W
    PROVE  0..n \subseteq W
<1> DEFINE Out == {k \in 0..n: k \notin W}
<1>1. Out = {}
    <2>1. SUFFICES ASSUME Out # {}
                   PROVE  FALSE
        OBVIOUS
    <2>2. PICK k \in Out: \A j \in Out: k <= j
        <3>1. Out \in SUBSET Nat
            OBVIOUS
        <3> HIDE DEF Out
        <3>2. QED
            BY <2>1, <3>1, SmallestExists
    <2>3. k \in 1..n
        BY <2>2
    <2>4. k - 1 \in 0..n /\ k - 1 \notin Out
        BY <2>2, <2>3
    <2>5. QED
        BY <2>2, <2>3, <2>4
<1>2. QED
    BY <1>1

-----------------------------------------------------------------------------
(* Folds. *)

\* The fold of Op over 1..n, as the community modules define it.
Folds(g, T, base, n, Op) ==
    /\ g \in [SUBSET (1..n) -> T]
    /\ \A s \in SUBSET (1..n): g[s] = IF s = {} THEN base ELSE Op[<<g[s \ {Max(s)}], Max(s)>>]

LEMMA FoldExists ==
    ASSUME NEW T, NEW base \in T, NEW n \in Nat, NEW Op \in [T \X (1..n) -> T]
    PROVE  \E g: Folds(g, T, base, n, Op)
<1> DEFINE Fails == {k \in 0..n: ~\E g: Folds(g, T, base, k, Op)}
<1>1. Fails = {}
    <2>1. SUFFICES ASSUME Fails # {}
                   PROVE  FALSE
        OBVIOUS
    <2>2. PICK k \in Fails: \A j \in Fails: k <= j
        <3>1. Fails \in SUBSET Nat
            OBVIOUS
        <3> HIDE DEF Fails
        <3>2. QED
            BY <2>1, <3>1, SmallestExists
    <2>3. k \in 0..n /\ ~\E g: Folds(g, T, base, k, Op)
        BY <2>2
    <2>4. CASE k = 0
        <3> DEFINE g == [s \in SUBSET (1..0) |-> base]
        <3>1. 1..0 = {} /\ SUBSET {} = {{}}
            OBVIOUS
        <3>2. Folds(g, T, base, 0, Op)
            BY <3>1 DEF Folds
        <3>3. QED
            BY <2>3, <2>4, <3>2
    <2>5. CASE k # 0
        <3>1. k - 1 \in 0..n /\ k \in Nat /\ k \in 1..n
            BY <2>3, <2>5
        <3>2. k - 1 \notin Fails
            BY <2>2, <3>1
        <3>3. PICK f: Folds(f, T, base, k - 1, Op)
            BY <3>1, <3>2
        <3> DEFINE g == [s \in SUBSET (1..k) |-> IF k \in s THEN Op[<<f[s \ {k}], k>>] ELSE f[s]]
        <3>4. \A s \in SUBSET (1..k): /\ s \ {k} \in SUBSET (1..(k - 1))
                                      /\ k \notin s => s \in SUBSET (1..(k - 1))
            BY <3>1
        <3>5. f \in [SUBSET (1..(k - 1)) -> T]
            BY <3>3 DEF Folds
        <3>6. g \in [SUBSET (1..k) -> T]
            <4>1. ASSUME NEW s \in SUBSET (1..k)
                  PROVE  (IF k \in s THEN Op[<<f[s \ {k}], k>>] ELSE f[s]) \in T
                <5>1. f[s \ {k}] \in T /\ (k \notin s => f[s] \in T)
                    BY <3>4, <3>5
                <5>2. <<f[s \ {k}], k>> \in T \X (1..n)
                    BY <3>1, <5>1
                <5>3. QED
                    BY <5>1, <5>2
            <4>2. QED
                BY <4>1
        <3>7. ASSUME NEW s \in SUBSET (1..k)
              PROVE  g[s] = IF s = {} THEN base ELSE Op[<<g[s \ {Max(s)}], Max(s)>>]
            <4>1. CASE k \in s
                <5>1. Max(s) = k
                    BY <3>1, <4>1, GreatestIs
                <5>2. s \ {k} \in SUBSET (1..k) /\ k \notin s \ {k}
                    OBVIOUS
                <5>3. g[s \ {k}] = f[s \ {k}] /\ g[s] = Op[<<f[s \ {k}], k>>]
                    BY <4>1, <5>2
                <5> HIDE DEF g
                <5>4. QED
                    BY <4>1, <5>1, <5>3
            <4>2. CASE k \notin s
                <5>1. s \in SUBSET (1..(k - 1)) /\ g[s] = f[s]
                    BY <3>4, <4>2
                <5>2. k \notin s \ {Max(s)} /\ g[s \ {Max(s)}] = f[s \ {Max(s)}]
                    BY <4>2
                <5>3. f[s] = IF s = {} THEN base ELSE Op[<<f[s \ {Max(s)}], Max(s)>>]
                    BY <3>3, <5>1 DEF Folds
                <5> HIDE DEF g
                <5>4. QED
                    BY <5>1, <5>2, <5>3
            <4>3. QED
                BY <4>1, <4>2
        <3> HIDE DEF g
        <3>8. Folds(g, T, base, k, Op)
            BY <3>6, <3>7 DEF Folds
        <3>9. QED
            BY <2>3, <3>8
    <2>6. QED
        BY <2>4, <2>5
<1>2. QED
    BY <1>1

\* The intermediate results of a fold.
StepsOf(h, T, base, n, Op) ==
    h \in [0..n -> T] /\ h[0] = base /\ \A k \in 1..n: h[k] = Op[<<h[k - 1], k>>]

LEMMA FoldSteps ==
    ASSUME NEW T, NEW base \in T, NEW n \in Nat, NEW Op \in [T \X (1..n) -> T], NEW g,
           g[{}] = base,
           \A s \in SUBSET (1..n):
             s # {} /\ g[s \ {Max(s)}] \in T => g[s] = Op[<<g[s \ {Max(s)}], Max(s)>>]
    PROVE  StepsOf([k \in 0..n |-> g[1..k]], T, base, n, Op)
<1> DEFINE h == [k \in 0..n |-> g[1..k]]
<1>1. 1..0 = {} /\ h[0] = base
    OBVIOUS
<1>2. ASSUME NEW k \in 1..n, h[k - 1] \in T
      PROVE  h[k] = Op[<<h[k - 1], k>>] /\ h[k] \in T
    <2>1. /\ k \in 0..n /\ k - 1 \in 0..n /\ k \in 1..k
          /\ 1..k # {} /\ 1..k \in SUBSET Nat /\ 1..k \in SUBSET (1..n)
        OBVIOUS
    <2>2. Max(1..k) = k
        BY <2>1, GreatestIs
    <2>3. (1..k) \ {k} = 1..(k - 1)
        OBVIOUS
    <2>4. g[1..(k - 1)] \in T
        BY <1>2, <2>1
    <2>5. g[1..k] = Op[<<g[1..(k - 1)], k>>]
        BY <2>1, <2>2, <2>3, <2>4
    <2>6. <<g[1..(k - 1)], k>> \in T \X (1..n)
        BY <2>4
    <2>7. QED
        BY <2>1, <2>5, <2>6
<1>3. DOMAIN h = 0..n
    OBVIOUS
<1> HIDE DEF h
<1> DEFINE W == {k \in 0..n: h[k] \in T}
<1>4. 0..n \subseteq W
    <2>1. 0 \in W
        BY <1>1
    <2>2. ASSUME NEW k \in 1..n, k - 1 \in W PROVE k \in W
        <3>1. h[k - 1] \in T /\ k \in 0..n
            BY <2>2
        <3>2. QED
            BY <1>2, <3>1
    <2> HIDE DEF W
    <2>3. QED
        BY <2>1, <2>2, Upward
<1>5. \A k \in 1..n: k - 1 \in 0..n /\ h[k - 1] \in T
    BY <1>4
<1>6. h \in [0..n -> T]
    <2>1. \A k \in 0..n: h[k] \in T
        BY <1>4
    <2>2. h = [k \in 0..n |-> h[k]]
        BY DEF h
    <2>3. QED
        BY <2>1, <2>2
<1>7. StepsOf(h, T, base, n, Op)
    BY <1>1, <1>2, <1>5, <1>6 DEF StepsOf
<1>8. QED
    BY <1>7 DEF h

-----------------------------------------------------------------------------
(* A row and the trades it has been made of. *)

Order == [at: Nat \ {0}, price: Nat \ {0}, amount: Nat \ {0}, quote: Nat]
Average == [num: Nat, den: Nat]
Interval == [open: Nat, close: Nat, low: Nat, high: Nat, average: Average, base: Nat,
             quote: Nat, lowestExecutedAt: Nat, highestExecutedAt: Nat]

\* The row after k trades: those of other intervals leave it alone.
RowAt(h, start, length) ==
    /\ h \in [0..Len(orders) -> Interval]
    /\ h[0] = NewInterval
    /\ \A k \in 1..Len(orders):
         h[k] = IF StartOf(orders[k].at, length) = start
                THEN AddOrder(h[k - 1], orders[k]) ELSE h[k - 1]
    /\ Row(start, length) = h[Len(orders)]

LEMMA NewIntervalType == NewInterval \in Interval
BY DEF NewInterval, Interval, Average, Whole, Never

LEMMA AddOrderType ==
    ASSUME NEW i \in Interval, NEW o \in Order
    PROVE  AddOrder(i, o) \in Interval
<1>1. o.at \in Nat /\ o.price \in Nat /\ o.amount \in Nat /\ o.quote \in Nat
    BY DEF Order
<1>2. /\ i.open \in Nat /\ i.close \in Nat /\ i.low \in Nat /\ i.high \in Nat
      /\ i.average \in Average /\ i.base \in Nat /\ i.quote \in Nat
      /\ i.lowestExecutedAt \in Nat /\ i.highestExecutedAt \in Nat
    BY DEF Interval
<1>3. Low(i, o) \in Nat /\ High(i, o) \in Nat
    BY <1>1, <1>2 DEF Low, High
<1>4. /\ Volumes(i, o).average \in Average
      /\ Volumes(i, o).base \in Nat /\ Volumes(i, o).quote \in Nat
    <2>1. Whole(o.price) \in Average
        BY <1>1 DEF Whole, Average
    <2>2. [num |-> i.quote + o.quote, den |-> i.base + o.amount] \in Average
        BY <1>1, <1>2 DEF Average
    <2>3. QED
        BY <1>1, <1>2, <2>1, <2>2 DEF Volumes
<1>5. QED
    BY <1>1, <1>2, <1>3, <1>4 DEF AddOrder, Interval

LEMMA RowHasSteps ==
    ASSUME orders \in Seq(Order), NEW start, NEW length
    PROVE  \E h: RowAt(h, start, length)
<1> DEFINE n == Len(orders)
           Add(i, o) == IF StartOf(o.at, length) = start THEN AddOrder(i, o) ELSE i
           Op == [p \in Interval \X (1..n) |-> Add(p[1], orders[p[2]])]
           It == CHOOSE g: g = [s \in SUBSET (DOMAIN orders) |->
                                 IF s = {} THEN NewInterval
                                 ELSE Add(g[s \ {Max(s)}], orders[Max(s)])]
<1>1. Row(start, length) = It[DOMAIN orders]
    BY DEF Row, FoldLeft, MapThenFoldSet
<1>2. n \in Nat /\ DOMAIN orders = 1..n /\ \A k \in 1..n: orders[k] \in Order
    OBVIOUS
<1>3. Op \in [Interval \X (1..n) -> Interval]
    <2>1. ASSUME NEW p \in Interval \X (1..n)
          PROVE  Add(p[1], orders[p[2]]) \in Interval
        <3>1. p[1] \in Interval /\ p[2] \in 1..n /\ orders[p[2]] \in Order
            BY <1>2
        <3>2. QED
            BY <3>1, AddOrderType
    <2> HIDE DEF Add
    <2>2. QED
        BY <2>1
<1>4. NewInterval \in Interval
    BY NewIntervalType
<1>5. PICK f: Folds(f, Interval, NewInterval, n, Op)
    <2> HIDE DEF n, Op
    <2>1. QED
        BY <1>2, <1>3, <1>4, FoldExists
<1>6. \A i \in Interval, k \in 1..n: Op[<<i, k>>] = Add(i, orders[k])
    OBVIOUS
<1> HIDE DEF Op, Add
<1>7. ASSUME NEW s \in SUBSET (1..n), s # {}
      PROVE  Max(s) \in 1..n /\ s \ {Max(s)} \in SUBSET (1..n)
    BY <1>2, <1>7, GreatestOfFirst
<1>8. f = [s \in SUBSET (DOMAIN orders) |->
             IF s = {} THEN NewInterval ELSE Add(f[s \ {Max(s)}], orders[Max(s)])]
    <2>1. f \in [SUBSET (1..n) -> Interval]
        BY <1>5 DEF Folds
    <2>2. ASSUME NEW s \in SUBSET (1..n)
          PROVE  f[s] = IF s = {} THEN NewInterval ELSE Add(f[s \ {Max(s)}], orders[Max(s)])
        <3>1. f[s] = IF s = {} THEN NewInterval ELSE Op[<<f[s \ {Max(s)}], Max(s)>>]
            BY <1>5 DEF Folds
        <3>2. CASE s = {}
            BY <3>1, <3>2
        <3>3. CASE s # {}
            <4>1. Max(s) \in 1..n /\ f[s \ {Max(s)}] \in Interval
                BY <1>7, <2>1, <3>3
            <4>2. QED
                BY <1>6, <3>1, <3>3, <4>1
        <3>4. QED
            BY <3>2, <3>3
    <2> HIDE DEF n
    <2>3. QED
        BY <1>2, <2>1, <2>2
<1>9. It = [s \in SUBSET (DOMAIN orders) |->
             IF s = {} THEN NewInterval ELSE Add(It[s \ {Max(s)}], orders[Max(s)])]
    BY <1>8
<1> HIDE DEF It
<1>10. It[{}] = NewInterval
    BY <1>2, <1>9
<1>11. ASSUME NEW s \in SUBSET (1..n), s # {}, It[s \ {Max(s)}] \in Interval
       PROVE  It[s] = Op[<<It[s \ {Max(s)}], Max(s)>>]
    <2>1. Max(s) \in 1..n /\ s \in SUBSET (DOMAIN orders)
        BY <1>2, <1>7, <1>11
    <2>2. It[s] = Add(It[s \ {Max(s)}], orders[Max(s)])
        BY <1>9, <1>11, <2>1
    <2>3. QED
        BY <1>6, <1>11, <2>1, <2>2
<1> DEFINE h == [k \in 0..n |-> It[1..k]]
<1>12. StepsOf(h, Interval, NewInterval, n, Op)
    <2>1. \A s \in SUBSET (1..n):
             s # {} /\ It[s \ {Max(s)}] \in Interval => It[s] = Op[<<It[s \ {Max(s)}], Max(s)>>]
        BY <1>11
    <2>2. n \in Nat
        BY <1>2
    <2> HIDE DEF n
    <2>3. StepsOf([k \in 0..n |-> It[1..k]], Interval, NewInterval, n, Op)
        BY <1>3, <1>4, <1>10, <2>1, <2>2, FoldSteps
    <2>4. QED
        BY <2>3
<1>13. Row(start, length) = h[n]
    BY <1>1, <1>2
<1> HIDE DEF h
<1>14. /\ h \in [0..n -> Interval] /\ h[0] = NewInterval
       /\ \A k \in 1..n: h[k] = Add(h[k - 1], orders[k])
    <2>1. /\ h \in [0..n -> Interval] /\ h[0] = NewInterval
          /\ \A k \in 1..n: h[k] = Op[<<h[k - 1], k>>]
        BY <1>12 DEF StepsOf
    <2>2. \A k \in 1..n: h[k - 1] \in Interval
        BY <1>2, <2>1
    <2>3. QED
        BY <1>6, <2>1, <2>2
<1>15. RowAt(h, start, length)
    <2>1. \A k \in 1..n: h[k] = IF StartOf(orders[k].at, length) = start
                                 THEN AddOrder(h[k - 1], orders[k]) ELSE h[k - 1]
        BY <1>14 DEF Add
    <2>2. QED
        BY <1>13, <1>14, <2>1 DEF RowAt
<1>16. QED
    BY <1>15

-----------------------------------------------------------------------------
(* The tables at every moment. *)

\* What the tables hold: trades in the order of their seconds, none of them
\* later than now, and a quote amount that is the trade's own; and what the
\* request has read of them.
ViewInv ==
    /\ now \in 1..Horizon
    /\ createdAt \in 0..Horizon + 1
    /\ orders \in Seq(Order)
    /\ Len(orders) <= MaxOrders
    /\ \A n \in 1..Len(orders):
        /\ orders[n].at <= now
        /\ <<orders[n].price, orders[n].amount>> \in Deals
        /\ orders[n].quote = GetQuoteAmount(orders[n].amount, orders[n].price)
    /\ \A i, j \in 1..Len(orders): i <= j => orders[i].at <= orders[j].at
    /\ asked \in 0..now /\ market \in 0..Horizon + 1
    /\ \A o \in last: \E n \in 1..Len(orders): orders[n] = o
    /\ request \in {"none", "intervals", "ticker"}
    /\ step \in {"none", "window", "market", "clock", "rows"}

LEMMA QuoteType ==
    ASSUME NEW amount \in Nat, NEW price \in Nat
    PROVE  GetQuoteAmount(amount, price) \in Nat
<1>1. amount * price \in Nat
    OBVIOUS
<1>2. QED
    BY <1>1, QuoteUnitAssumption DEF GetQuoteAmount

LEMMA TradeTypes ==
    ASSUME orders \in Seq(Order), NEW n \in 1..Len(orders)
    PROVE  /\ orders[n] \in Order /\ orders[n].at \in Nat \ {0} /\ orders[n].price \in Nat \ {0}
           /\ orders[n].amount \in Nat \ {0} /\ orders[n].quote \in Nat
<1>1. orders[n] \in Order
    OBVIOUS
<1>2. QED
    BY <1>1 DEF Order

LEMMA ViewInvInit ==
    ASSUME Init
    PROVE  ViewInv
<1>1. now \in 1..Horizon /\ Horizon \in Nat /\ MaxOrders \in Nat
    BY ViewAssumption DEF Init
<1>2. orders = <<>> /\ createdAt = now + 1
    BY DEF Init, CreatedAt
<1>3. orders \in Seq(Order) /\ Len(orders) = 0
    BY <1>2
<1>4. asked = 0 /\ market = 0 /\ last = {} /\ request = "none" /\ step = "none"
    BY DEF Init
<1>5. QED
    BY <1>1, <1>2, <1>3, <1>4 DEF ViewInv

LEMMA JoinedAre ==
    ASSUME NEW T, NEW one \in Seq(T), NEW two \in Seq(T)
    PROVE  /\ one \o two \in Seq(T) /\ Len(one \o two) = Len(one) + Len(two)
           /\ \A k \in 1..Len(one): (one \o two)[k] = one[k]
           /\ \A k \in 1..Len(two): (one \o two)[Len(one) + k] = two[k]
OBVIOUS

\* A trade among those of the table.
LEMMA InsertedIs ==
    ASSUME orders \in Seq(Order), NEW p \in 1..Len(orders) + 1, NEW o \in Order
    PROVE  /\ InsertAt(orders, p, o) \in Seq(Order)
           /\ Len(InsertAt(orders, p, o)) = Len(orders) + 1
           /\ \A k \in 1..Len(orders) + 1:
                InsertAt(orders, p, o)[k] = IF k < p THEN orders[k]
                                            ELSE IF k = p THEN o ELSE orders[k - 1]
<1> DEFINE n == Len(orders)
           front == SubSeq(orders, 1, p - 1)
           back == SubSeq(orders, p, n)
<1>1. n \in Nat /\ p \in Nat /\ p >= 1 /\ p <= n + 1 /\ \A k \in 1..n: orders[k] \in Order
    OBVIOUS
<1>2. /\ front \in Seq(Order) /\ Len(front) = p - 1
      /\ \A k \in 1..(p - 1): front[k] = orders[k]
    BY <1>1
<1>3. /\ back \in Seq(Order) /\ Len(back) = (n - p) + 1
      /\ \A k \in 1..((n - p) + 1): back[k] = orders[(p - 1) + k]
    BY <1>1
<1>4. InsertAt(orders, p, o) = (front \o <<o>>) \o back
    BY DEF InsertAt
<1>5. n = Len(orders)
    OBVIOUS
<1> HIDE DEF front, back, n
<1>6. /\ front \o <<o>> \in Seq(Order) /\ Len(front \o <<o>>) = p
      /\ \A k \in 1..(p - 1): (front \o <<o>>)[k] = orders[k]
      /\ (front \o <<o>>)[p] = o
    BY <1>1, <1>2
<1> DEFINE head == front \o <<o>>
<1> HIDE DEF head
<1>7. head \in Seq(Order) /\ Len(head) = p /\ head[p] = o
      /\ \A k \in 1..(p - 1): head[k] = orders[k]
    BY <1>6 DEF head
<1> DEFINE list == head \o back
<1>8. list = head \o back
    OBVIOUS
<1> HIDE DEF list
<1>9. /\ list \in Seq(Order) /\ Len(list) = n + 1
      /\ \A k \in 1..p: list[k] = head[k]
      /\ \A k \in 1..((n - p) + 1): list[p + k] = back[k]
    <2>0. head \in Seq(Order) /\ back \in Seq(Order)
        BY <1>3, <1>7
    <2>1. /\ head \o back \in Seq(Order) /\ Len(head \o back) = Len(head) + Len(back)
          /\ \A k \in 1..Len(head): (head \o back)[k] = head[k]
          /\ \A k \in 1..Len(back): (head \o back)[Len(head) + k] = back[k]
        BY <2>0, JoinedAre
    <2>2. p + ((n - p) + 1) = n + 1
        BY <1>1
    <2>3. Len(head) = p /\ Len(back) = (n - p) + 1
        BY <1>3, <1>7
    <2>4. list \in Seq(Order) /\ Len(list) = n + 1
        BY <1>8, <2>1, <2>2, <2>3
    <2>5. \A k \in 1..p: list[k] = head[k]
        BY <1>8, <2>1, <2>3
    <2>6. \A k \in 1..((n - p) + 1): list[p + k] = back[k]
        BY <1>8, <2>1, <2>3
    <2>7. QED
        BY <2>4, <2>5, <2>6
<1>10. ASSUME NEW k \in 1..n + 1
      PROVE  list[k] = IF k < p THEN orders[k] ELSE IF k = p THEN o ELSE orders[k - 1]
    <2>1. CASE k <= p
        <3>1. k \in 1..p /\ (k < p => k \in 1..(p - 1)) /\ (~(k < p) => k = p)
            BY <1>1, <2>1
        <3>2. list[k] = head[k]
            BY <1>9, <3>1
        <3>3. QED
            BY <1>7, <3>1, <3>2
    <2>2. CASE k > p
        <3>1. /\ k - p \in 1..((n - p) + 1) /\ (p - 1) + (k - p) = k - 1
              /\ ~(k < p) /\ k # p /\ p + (k - p) = k
            BY <1>1, <2>2
        <3>2. list[k] = back[k - p]
            BY <1>9, <3>1
        <3>3. back[k - p] = orders[k - 1]
            BY <1>3, <3>1
        <3>4. QED
            BY <3>1, <3>2, <3>3
    <2>3. QED
        BY <1>1, <2>1, <2>2
<1>11. QED
    BY <1>5, <1>4, <1>8, <1>9, <1>10 DEF head

\* The trades after one more of this minute.
LEMMA TradeKeepsOrder ==
    ASSUME ViewInv, Trade
    PROVE  /\ orders' \in Seq(Order) /\ Len(orders') <= MaxOrders
           /\ \A n \in 1..Len(orders'):
               /\ orders'[n].at <= now
               /\ <<orders'[n].price, orders'[n].amount>> \in Deals
               /\ orders'[n].quote = GetQuoteAmount(orders'[n].amount, orders'[n].price)
           /\ \A i, j \in 1..Len(orders'): i <= j => orders'[i].at <= orders'[j].at
           /\ \A n \in 1..Len(orders): \E k \in 1..Len(orders'): orders'[k] = orders[n]
<1>1. PICK deal \in Deals, p \in Places:
        orders' = InsertAt(orders, p, [at |-> now, price |-> deal[1], amount |-> deal[2],
                                       quote |-> GetQuoteAmount(deal[2], deal[1])])
    BY DEF Trade
<1> DEFINE n == Len(orders)
           o == [at |-> now, price |-> deal[1], amount |-> deal[2],
                 quote |-> GetQuoteAmount(deal[2], deal[1])]
<1>2. orders \in Seq(Order) /\ n \in Nat /\ DOMAIN orders = 1..n
    BY DEF ViewInv
<1>3. deal[1] \in Nat \ {0} /\ deal[2] \in Nat \ {0} /\ deal = <<deal[1], deal[2]>>
      /\ now \in Nat \ {0}
    BY ViewAssumption DEF ViewInv
<1>4. GetQuoteAmount(deal[2], deal[1]) \in Nat
    BY <1>3, QuoteType
<1>5. /\ o \in Order /\ o.at = now /\ <<o.price, o.amount>> \in Deals
      /\ o.quote = GetQuoteAmount(o.amount, o.price)
    BY <1>3, <1>4 DEF Order
<1>6. orders' = InsertAt(orders, p, o)
    BY <1>1
<1> HIDE DEF o
<1>7. p \in 1..n + 1 /\ \A k \in 1..n: orders[k].at < now => k < p
    BY <1>2 DEF Places
<1>8. /\ orders' \in Seq(Order) /\ Len(orders') = n + 1
      /\ \A k \in 1..n + 1: orders'[k] = IF k < p THEN orders[k]
                                         ELSE IF k = p THEN o ELSE orders[k - 1]
    <2>1. p \in 1..Len(orders) + 1
        BY <1>7
    <2>2. /\ InsertAt(orders, p, o) \in Seq(Order)
          /\ Len(InsertAt(orders, p, o)) = Len(orders) + 1
          /\ \A k \in 1..Len(orders) + 1:
               InsertAt(orders, p, o)[k] = IF k < p THEN orders[k]
                                           ELSE IF k = p THEN o ELSE orders[k - 1]
        BY <1>2, <1>5, <2>1, InsertedIs
    <2>3. QED
        BY <1>6, <2>2
<1> HIDE DEF n
<1>9. n + 1 <= MaxOrders
    BY <1>2, ViewAssumption DEF Trade, n
<1>10. \A k \in 1..n: orders[k].at <= now /\ orders[k].at \in Nat
    <2>1. \A k \in 1..n: orders[k].at \in Nat
        BY <1>2, TradeTypes DEF n
    <2>2. QED
        BY <2>1 DEF ViewInv, n
<1>11. \A k \in 1..n: /\ <<orders[k].price, orders[k].amount>> \in Deals
                      /\ orders[k].quote = GetQuoteAmount(orders[k].amount, orders[k].price)
    BY DEF ViewInv, n
<1>12. ASSUME NEW k \in 1..n, p <= k PROVE orders[k].at = now
    <2>1. ~(k < p) /\ orders[k].at <= now /\ orders[k].at \in Nat
        <3>1. k \in Nat /\ p \in Nat
            BY <1>2, <1>7
        <3>2. QED
            BY <1>10, <1>12, <3>1
    <2>2. ~(orders[k].at < now)
        BY <1>7, <2>1
    <2>3. QED
        BY <1>3, <2>1, <2>2
<1>13. \A i, j \in 1..n: i <= j => orders[i].at <= orders[j].at
    BY DEF ViewInv, n
<1>14. ASSUME NEW k \in 1..n + 1
       PROVE  \/ k < p /\ k \in 1..n /\ orders'[k] = orders[k]
              \/ k = p /\ orders'[k] = o
              \/ k > p /\ k - 1 \in 1..n /\ p <= k - 1 /\ orders'[k] = orders[k - 1]
    BY <1>2, <1>7, <1>8
<1>15. ASSUME NEW k \in 1..n + 1
       PROVE  /\ orders'[k].at <= now
              /\ <<orders'[k].price, orders'[k].amount>> \in Deals
              /\ orders'[k].quote = GetQuoteAmount(orders'[k].amount, orders'[k].price)
    BY <1>3, <1>5, <1>10, <1>11, <1>14
<1>16. ASSUME NEW i \in 1..n + 1, NEW j \in 1..n + 1, i <= j
       PROVE  orders'[i].at <= orders'[j].at
    <2>1. CASE i < p
        <3>1. i \in 1..n /\ orders'[i] = orders[i]
            BY <1>7, <1>14, <2>1
        <3>2. CASE j < p
            <4>1. j \in Nat /\ p \in Nat /\ ~(j = p) /\ ~(j > p)
                BY <1>2, <1>7, <3>2
            <4>2. j \in 1..n /\ orders'[j] = orders[j]
                BY <1>14, <4>1
            <4>3. QED
                BY <1>13, <1>16, <3>1, <4>2
        <3>3. CASE j = p
            <4>1. orders'[j].at = now
                <5>1. ~(j < p) /\ ~(j > p)
                    BY <1>2, <1>7, <3>3
                <5>2. orders'[j] = o
                    BY <1>14, <5>1
                <5>3. QED
                    BY <1>5, <5>2
            <4>2. QED
                BY <1>10, <3>1, <4>1
        <3>4. CASE j > p
            <4>1. j - 1 \in 1..n /\ orders'[j] = orders[j - 1] /\ i <= j - 1
                BY <1>7, <1>14, <2>1, <3>4
            <4>2. QED
                BY <1>13, <3>1, <4>1
        <3>5. QED
            BY <1>7, <3>2, <3>3, <3>4
    <2>2. CASE i >= p
        <3>1. orders'[i].at <= now
            BY <1>15
        <3>2. orders'[j].at = now
            <4>1. CASE j = p
                BY <1>5, <1>14, <4>1
            <4>2. CASE j > p
                BY <1>7, <1>12, <1>14, <4>2
            <4>3. QED
                BY <1>7, <1>16, <2>2, <4>1, <4>2
        <3>3. QED
            BY <3>1, <3>2
    <2>3. QED
        BY <1>7, <2>1, <2>2
<1>17. ASSUME NEW k \in 1..n
       PROVE  \E i \in 1..n + 1: orders'[i] = orders[k]
    <2>1. CASE k < p
        <3>1. k \in 1..n + 1
            BY <1>2
        <3>2. QED
            BY <1>8, <2>1, <3>1
    <2>2. CASE k >= p
        <3>1. k + 1 \in 1..n + 1 /\ ~(k + 1 < p) /\ k + 1 # p /\ (k + 1) - 1 = k
            BY <1>2, <1>7, <2>2
        <3>2. QED
            BY <1>8, <3>1
    <2>3. QED
        BY <1>7, <2>1, <2>2
<1>18. QED
    BY <1>8, <1>9, <1>15, <1>16, <1>17 DEF n

LEMMA ViewInvStep ==
    ASSUME ViewInv, [Next]_vars
    PROVE  ViewInv'
<1>1. CASE SyncMarkets
    <2>1. /\ now' = now /\ orders' = orders /\ createdAt' = CreatedAt(orders)
          /\ request' = request /\ step' = step /\ market' = market /\ last' = last
          /\ asked' = asked
        BY <1>1 DEF SyncMarkets
    <2>2. CreatedAt(orders) \in 0..Horizon + 1
        <3>1. CASE orders = <<>>
            BY <3>1, ViewAssumption DEF CreatedAt, ViewInv
        <3>2. CASE orders # <<>>
            <4>1. 1 \in 1..Len(orders) /\ orders[1] \in Order
                BY <3>2 DEF ViewInv
            <4>2. orders[1].at \in Nat \ {0} /\ orders[1].at <= now
                BY <4>1 DEF Order, ViewInv
            <4>3. QED
                BY <3>2, <4>2, ViewAssumption DEF CreatedAt, ViewInv
        <3>3. QED
            BY <3>1, <3>2
    <2>3. QED
        BY <2>1, <2>2 DEF ViewInv
<1>2. CASE Trade
    <2>1. /\ now' = now /\ createdAt' = createdAt
          /\ request' = request /\ step' = step /\ market' = market /\ last' = last
          /\ asked' = asked
        BY <1>2 DEF Trade
    <2>2. \A o \in last: \E n \in 1..Len(orders'): orders'[n] = o
        <3>1. ASSUME NEW o \in last PROVE \E n \in 1..Len(orders): orders[n] = o
            BY DEF ViewInv
        <3>2. QED
            BY <1>2, <3>1, TradeKeepsOrder
    <2>3. QED
        BY <1>2, <2>1, <2>2, TradeKeepsOrder DEF ViewInv
<1>3. CASE Tick
    <2>1. /\ now' = now + 1 /\ now' \in 1..Horizon /\ orders' = orders /\ createdAt' = createdAt
          /\ request' = request /\ step' = step /\ market' = market /\ last' = last
          /\ asked' = asked
        BY <1>3, ViewAssumption DEF Tick, tables, ViewInv
    <2>2. \A n \in 1..Len(orders): orders[n].at <= now + 1
        <3>1. \A n \in 1..Len(orders): orders[n].at \in Nat /\ orders[n].at <= now
            BY TradeTypes DEF ViewInv
        <3>2. now \in Nat
            BY DEF ViewInv
        <3>3. QED
            BY <3>1, <3>2
    <2>3. asked \in 0..now + 1
        BY DEF ViewInv
    <2>4. QED
        BY <2>1, <2>2, <2>3 DEF ViewInv
<1>4. CASE GetMarket
    BY <1>4 DEF GetMarket, tables, ViewInv
<1>5. CASE StartWindow
    <2>1. /\ now' = now /\ orders' = orders /\ createdAt' = createdAt /\ market' = market
          /\ last' = last /\ asked' = now /\ request' = "ticker" /\ step' = "window"
        BY <1>5 DEF StartWindow, tables
    <2>2. now \in 0..now
        BY DEF ViewInv
    <2>3. QED
        BY <2>1, <2>2 DEF ViewInv
<1>6. CASE GetMarketsWithLastExecuted
    <2>1. /\ now' = now /\ orders' = orders /\ createdAt' = createdAt /\ market' = market
          /\ asked' = asked /\ request' = request /\ step' = "market"
        BY <1>6 DEF GetMarketsWithLastExecuted, tables
    <2>2. last' \in IF LastTrades = {} THEN {{}} ELSE {{o}: o \in LastTrades}
        BY <1>6 DEF GetMarketsWithLastExecuted
    <2>3. \A o \in last': o \in LastTrades
        BY <2>2
    <2>4. DOMAIN orders = 1..Len(orders)
        BY DEF ViewInv
    <2>5. \A o \in LastTrades: \E n \in 1..Len(orders): orders[n] = o
        BY <2>4 DEF LastTrades
    <2>6. QED
        BY <2>1, <2>3, <2>5 DEF ViewInv
<1>7. CASE ReadClock
    <2>1. /\ now' = now /\ orders' = orders /\ createdAt' = createdAt /\ market' = market
          /\ last' = last /\ asked' = now /\ request' = request /\ step' = "clock"
        BY <1>7 DEF ReadClock, tables
    <2>2. now \in 0..now
        BY DEF ViewInv
    <2>3. QED
        BY <2>1, <2>2 DEF ViewInv
<1>8. CASE ReadRows
    BY <1>8 DEF ReadRows, tables, ViewInv
<1>9. CASE UNCHANGED vars
    BY <1>9 DEF vars, tables, ViewInv
<1>10. QED
    BY <1>1, <1>2, <1>3, <1>4, <1>5, <1>6, <1>7, <1>8, <1>9 DEF Next

LEMMA ViewInvHolds == Spec => []ViewInv
<1>1. Init => ViewInv
    BY ViewInvInit
<1>2. ViewInv /\ [Next]_vars => ViewInv'
    BY ViewInvStep
<1>3. QED
    BY <1>1, <1>2, PTL DEF Spec

\* The tables keep their form: the trades are in the order of their seconds and
\* none is of a later minute (the rows of market_history, ORDER BY executed_at),
\* and the last price that has been read is a trade's.
THEOREM TypeOKTheorem == Spec => []TypeOK
<1>1. ASSUME ViewInv PROVE TypeOK
    <2>1. now \in 0..Horizon
        BY <1>1, ViewAssumption DEF ViewInv
    <2>2. DOMAIN orders = 1..Len(orders) /\ Len(orders) \in Nat
        BY <1>1 DEF ViewInv
    <2>3. ASSUME NEW n \in 1..Len(orders), n > 1
          PROVE  orders[n - 1].at <= orders[n].at
        <3>1. n - 1 \in 1..Len(orders) /\ n - 1 <= n
            BY <2>3
        <3>2. QED
            BY <1>1, <3>1 DEF ViewInv
    <2>4. \A o \in last: \E n \in DOMAIN orders: orders[n] = o
        BY <1>1, <2>2 DEF ViewInv
    <2>5. QED
        BY <1>1, <2>1, <2>2, <2>3, <2>4 DEF TypeOK, ViewInv
<1>2. QED
    BY <1>1, ViewInvHolds, PTL

-----------------------------------------------------------------------------
(* The prices of a row. *)

\* The trades among the first k that belong to an interval.
Among(k, start, length) == {n \in 1..k: StartOf(orders[n].at, length) = start}

Unpriced(row) == row.low = 0 /\ row.high = 0 /\ row.lowestExecutedAt = Never
      /\ row.highestExecutedAt = Never

\* The prices of a row are those of trades of it: the lowest, the highest, the
\* first one's and one of the newest second.
Lowest(row, own) == /\ \E n \in own: row.low = orders[n].price
                    /\ \A n \in own: row.low <= orders[n].price
Highest(row, own) == /\ \E n \in own: row.high = orders[n].price
                     /\ \A n \in own: orders[n].price <= row.high
Opened(row, own) == \E n \in own: /\ row.open = orders[n].price
                                        /\ row.lowestExecutedAt = orders[n].at
                                  /\ \A j \in own: n <= j
Closed(row, own) == \E n \in own: /\ row.close = orders[n].price
                                        /\ row.highestExecutedAt = orders[n].at
                                  /\ \A j \in own: /\ orders[j].at <= orders[n].at
                                                   /\ orders[j].at = orders[n].at => n <= j
Priced(row, own) ==
    IF own = {} THEN Unpriced(row)
    ELSE Lowest(row, own) /\ Highest(row, own) /\ Opened(row, own) /\ Closed(row, own)

LEMMA IntervalTypes ==
    ASSUME NEW i \in Interval
    PROVE  /\ i.open \in Nat /\ i.close \in Nat /\ i.low \in Nat /\ i.high \in Nat
           /\ i.average \in Average /\ i.base \in Nat /\ i.quote \in Nat
           /\ i.lowestExecutedAt \in Nat /\ i.highestExecutedAt \in Nat
BY DEF Interval

LEMMA AddOrderFields ==
    ASSUME NEW i, NEW o
    PROVE  /\ AddOrder(i, o).open = IF Opens(i, o) THEN o.price ELSE i.open
           /\ AddOrder(i, o).close = IF Closes(i, o) THEN o.price ELSE i.close
           /\ AddOrder(i, o).low = Low(i, o) /\ AddOrder(i, o).high = High(i, o)
           /\ AddOrder(i, o).average = Volumes(i, o).average
           /\ AddOrder(i, o).base = Volumes(i, o).base
           /\ AddOrder(i, o).quote = Volumes(i, o).quote
           /\ AddOrder(i, o).lowestExecutedAt = IF Opens(i, o) THEN o.at ELSE i.lowestExecutedAt
           /\ AddOrder(i, o).highestExecutedAt = IF Closes(i, o) THEN o.at ELSE i.highestExecutedAt
BY DEF AddOrder

LEMMA AmongOneMore ==
    ASSUME orders \in Seq(Order), NEW k \in 1..Len(orders), NEW start, NEW length
    PROVE  /\ Among(k - 1, start, length) \subseteq 1..(k - 1)
           /\ Among(k, start, length) = IF StartOf(orders[k].at, length) = start
                                        THEN Among(k - 1, start, length) \cup {k}
                                        ELSE Among(k - 1, start, length)
<1>1. 1..k = (1..(k - 1)) \cup {k}
    OBVIOUS
<1>2. QED
    BY <1>1 DEF Among

LEMMA PricedStep ==
    ASSUME ViewInv, NEW k \in 1..Len(orders), NEW own \in SUBSET (1..(k - 1)),
           NEW row \in Interval, Priced(row, own)
    PROVE  Priced(AddOrder(row, orders[k]), own \cup {k})
<1> DEFINE o == orders[k]
           new == AddOrder(row, o)
           more == own \cup {k}
<1>1. /\ o.at \in Nat \ {0} /\ o.price \in Nat \ {0}
      /\ \A n \in own: orders[n].at \in Nat \ {0} /\ orders[n].price \in Nat \ {0}
    <2>1. own \subseteq 1..Len(orders) /\ orders \in Seq(Order)
        BY DEF ViewInv
    <2>2. QED
        BY <2>1, TradeTypes
<1>2. \A n \in own: n < k /\ n \in Nat /\ orders[n].at <= o.at
    <2>1. \A n \in own: n \in 1..Len(orders) /\ n < k
        OBVIOUS
    <2>2. QED
        BY <2>1 DEF ViewInv
<1>3. /\ row.low \in Nat /\ row.high \in Nat /\ row.lowestExecutedAt \in Nat
      /\ row.highestExecutedAt \in Nat /\ k \in Nat
    BY IntervalTypes
<1>4. /\ new.open = IF Opens(row, o) THEN o.price ELSE row.open
      /\ new.close = IF Closes(row, o) THEN o.price ELSE row.close
      /\ new.low = Low(row, o) /\ new.high = High(row, o)
      /\ new.lowestExecutedAt = IF Opens(row, o) THEN o.at ELSE row.lowestExecutedAt
      /\ new.highestExecutedAt = IF Closes(row, o) THEN o.at ELSE row.highestExecutedAt
    BY AddOrderFields
<1>5. o = orders[k]
    OBVIOUS
<1> HIDE DEF new, o
<1>6. CASE own = {}
    <2>1. Unpriced(row) /\ more = {k}
        BY <1>6 DEF Priced
    <2>2. new.low = o.price /\ new.high = o.price
        BY <1>4, <2>1 DEF Low, High, Unpriced
    <2>3. /\ new.open = o.price /\ new.lowestExecutedAt = o.at
          /\ new.close = o.price /\ new.highestExecutedAt = o.at
        BY <1>4, <2>1 DEF Opens, Closes, Unpriced
    <2>4. Lowest(new, more) /\ Highest(new, more)
        BY <1>1, <1>5, <2>1, <2>2 DEF Lowest, Highest
    <2>5. Opened(new, more) /\ Closed(new, more)
        <3>1. \A j \in more: /\ k <= j /\ orders[j].at <= o.at
            BY <1>1, <1>3, <1>5, <2>1
        <3>2. k \in more
            BY <2>1
        <3> HIDE DEF more
        <3>3. QED
            BY <1>5, <2>3, <3>1, <3>2 DEF Opened, Closed
    <2> HIDE DEF more
    <2>6. Priced(new, more)
        BY <2>1, <2>4, <2>5 DEF Priced
    <2>7. QED
        BY <2>6 DEF new, more, o
<1>7. CASE own # {}
    <2>1. Lowest(row, own) /\ Highest(row, own) /\ Opened(row, own) /\ Closed(row, own)
        BY <1>7 DEF Priced
    <2>2. Lowest(new, more)
        <3>1. PICK n \in own: row.low = orders[n].price
            BY <2>1 DEF Lowest
        <3>2. row.low > 0
            BY <1>1, <3>1
        <3>3. CASE o.price < row.low
            <4>1. new.low = o.price
                BY <1>4, <3>3 DEF Low
            <4>2. \A j \in own: o.price <= orders[j].price
                BY <1>1, <1>3, <2>1, <3>3 DEF Lowest
            <4>3. QED
                BY <1>1, <1>5, <4>1, <4>2 DEF Lowest
        <3>4. CASE ~(o.price < row.low)
            <4>1. new.low = row.low
                BY <1>4, <3>2, <3>4 DEF Low
            <4>2. row.low <= o.price
                BY <1>1, <1>3, <3>4
            <4>3. QED
                BY <1>5, <2>1, <3>1, <4>1, <4>2 DEF Lowest
        <3>5. QED
            BY <3>3, <3>4
    <2>3. Highest(new, more)
        <3>1. PICK n \in own: row.high = orders[n].price
            BY <2>1 DEF Highest
        <3>2. row.high > 0
            BY <1>1, <3>1
        <3>3. CASE o.price > row.high
            <4>1. new.high = o.price
                BY <1>4, <3>3 DEF High
            <4>2. \A j \in own: orders[j].price <= o.price
                BY <1>1, <1>3, <2>1, <3>3 DEF Highest
            <4>3. QED
                BY <1>1, <1>5, <4>1, <4>2 DEF Highest
        <3>4. CASE ~(o.price > row.high)
            <4>1. new.high = row.high
                BY <1>4, <3>2, <3>4 DEF High
            <4>2. o.price <= row.high
                BY <1>1, <1>3, <3>4
            <4>3. QED
                BY <1>5, <2>1, <3>1, <4>1, <4>2 DEF Highest
        <3>5. QED
            BY <3>3, <3>4
    <2>4. Opened(new, more)
        <3>1. PICK n \in own: /\ row.open = orders[n].price /\ row.lowestExecutedAt = orders[n].at
                              /\ \A j \in own: n <= j
            BY <2>1 DEF Opened
        <3>2. ~Opens(row, o)
            BY <1>1, <1>2, <3>1 DEF Opens, Never
        <3>3. \A j \in more: n <= j
            BY <1>2, <1>3, <3>1
        <3>4. QED
            BY <1>4, <3>1, <3>2, <3>3 DEF Opened
    <2>5. Closed(new, more)
        <3>1. PICK n \in own: /\ row.close = orders[n].price /\ row.highestExecutedAt = orders[n].at
                              /\ \A j \in own: /\ orders[j].at <= orders[n].at
                                               /\ orders[j].at = orders[n].at => n <= j
            BY <2>1 DEF Closed
        <3>2. CASE Closes(row, o)
            <4>1. new.close = o.price /\ new.highestExecutedAt = o.at
                BY <1>4, <3>2
            <4>2. \A j \in own: orders[j].at < o.at
                <5>1. orders[n].at < o.at
                    BY <1>1, <3>1, <3>2 DEF Closes, Never
                <5>2. \A j \in own: orders[j].at <= orders[n].at
                    BY <3>1
                <5>3. orders[n].at \in Nat /\ o.at \in Nat /\ \A j \in own: orders[j].at \in Nat
                    BY <1>1
                <5>4. QED
                    BY <5>1, <5>2, <5>3
            <4>3. \A j \in more: orders[j].at <= o.at /\ (orders[j].at = o.at => k <= j)
                BY <1>1, <1>3, <1>5, <4>2
            <4>4. QED
                BY <1>5, <4>1, <4>3 DEF Closed
        <3>3. CASE ~Closes(row, o)
            <4>1. new.close = row.close /\ new.highestExecutedAt = row.highestExecutedAt
                BY <1>4, <3>3
            <4>2. o.at <= orders[n].at /\ n <= k
                BY <1>1, <1>2, <1>3, <3>1, <3>3 DEF Closes
            <4>3. \A j \in more: /\ orders[j].at <= orders[n].at
                                 /\ orders[j].at = orders[n].at => n <= j
                BY <1>5, <3>1, <4>2
            <4>4. QED
                BY <3>1, <4>1, <4>3 DEF Closed
        <3>4. QED
            BY <3>2, <3>3
    <2>6. more # {}
        OBVIOUS
    <2> HIDE DEF more
    <2>7. Priced(new, more)
        BY <2>2, <2>3, <2>4, <2>5, <2>6 DEF Priced
    <2>8. QED
        BY <2>7 DEF new, more, o
<1>8. QED
    BY <1>6, <1>7

LEMMA RowIsPriced ==
    ASSUME ViewInv, NEW start, NEW length
    PROVE  Priced(Row(start, length), Among(Len(orders), start, length))
<1>1. orders \in Seq(Order) /\ Len(orders) \in Nat
    BY DEF ViewInv
<1>2. PICK h: RowAt(h, start, length)
    BY <1>1, RowHasSteps
<1>3. /\ h \in [0..Len(orders) -> Interval] /\ h[0] = NewInterval
      /\ Row(start, length) = h[Len(orders)]
    BY <1>2 DEF RowAt
<1>4. Priced(h[0], Among(0, start, length))
    <2>1. Unpriced(NewInterval)
        BY DEF Unpriced, NewInterval
    <2>2. Among(0, start, length) = {}
        BY DEF Among
    <2>3. QED
        BY <1>3, <2>1, <2>2 DEF Priced
<1>5. ASSUME NEW k \in 1..Len(orders), Priced(h[k - 1], Among(k - 1, start, length))
      PROVE  Priced(h[k], Among(k, start, length))
    <2>1. h[k - 1] \in Interval
        BY <1>1, <1>3
    <2>2. h[k] = IF StartOf(orders[k].at, length) = start
                 THEN AddOrder(h[k - 1], orders[k]) ELSE h[k - 1]
        BY <1>2 DEF RowAt
    <2>3. Among(k - 1, start, length) \in SUBSET (1..(k - 1))
        BY <1>1, AmongOneMore
    <2>4. Priced(AddOrder(h[k - 1], orders[k]), Among(k - 1, start, length) \cup {k})
        BY <1>5, <2>1, <2>3, PricedStep
    <2>5. Among(k, start, length) = IF StartOf(orders[k].at, length) = start
                                    THEN Among(k - 1, start, length) \cup {k}
                                    ELSE Among(k - 1, start, length)
        BY <1>1, AmongOneMore
    <2>6. CASE StartOf(orders[k].at, length) = start
        BY <2>2, <2>4, <2>5, <2>6
    <2>7. CASE StartOf(orders[k].at, length) # start
        BY <1>5, <2>2, <2>5, <2>7
    <2>8. QED
        BY <2>6, <2>7
<1> DEFINE W == {k \in 0..Len(orders): Priced(h[k], Among(k, start, length))}
<1>6. 0..Len(orders) \subseteq W
    <2>1. 0 \in W
        <3>1. 0 \in 0..Len(orders)
            BY <1>1
        <3>2. QED
            BY <1>4, <3>1
    <2>2. ASSUME NEW k \in 1..Len(orders), k - 1 \in W PROVE k \in W
        <3>1. Priced(h[k - 1], Among(k - 1, start, length)) /\ k \in 0..Len(orders)
            BY <1>1, <2>2
        <3>2. QED
            BY <1>5, <3>1
    <2> HIDE DEF W
    <2>3. QED
        BY <1>1, <2>1, <2>2, Upward
<1>7. QED
    BY <1>1, <1>3, <1>6

\* The first trade of the list is one of the oldest second.
LEMMA OpensWithOldest ==
    ASSUME ViewInv, NEW row, NEW own \in SUBSET (1..Len(orders)), Opened(row, own)
    PROVE  row.open \in PricesOf(OldestOf(own))
<1>1. PICK n \in own: row.open = orders[n].price /\ \A j \in own: n <= j
    BY DEF Opened
<1>2. \A j \in own: orders[n].at <= orders[j].at
    BY <1>1 DEF ViewInv
<1>3. QED
    BY <1>1, <1>2 DEF PricesOf, OldestOf

\* Low and high of an interval are the extreme prices of its trades, and open and
\* close are prices of its oldest and of its newest second, whatever trades share
\* a second and in whatever order they come (Interval.AddOrder).
THEOREM PricesAreRightTheorem == Spec => []PricesAreRight
<1>1. ASSUME ViewInv PROVE PricesAreRight
    <2>1. SUFFICES ASSUME NEW length \in Lengths, NEW s \in Starts(length)
                   PROVE  LET own == TradesOf(s, length)
                              row == Row(s, length)
                          IN  /\ row.low = Min(PricesOf(own))
                              /\ row.high = Max(PricesOf(own))
                              /\ row.open \in PricesOf(OldestOf(own))
                              /\ row.close \in PricesOf(NewestOf(own))
        BY DEF PricesAreRight
    <2> DEFINE own == TradesOf(s, length)
               row == Row(s, length)
    <2>2. orders \in Seq(Order) /\ DOMAIN orders = 1..Len(orders) /\ Len(orders) \in Nat
        BY <1>1 DEF ViewInv
    <2>3. own = Among(Len(orders), s, length) /\ own \in SUBSET (1..Len(orders))
        BY <2>2 DEF TradesOf, Among
    <2>4. own # {}
        BY <2>2 DEF Starts, TradesOf
    <2>5. Priced(row, own)
        BY <1>1, <2>3, RowIsPriced
    <2> HIDE DEF own, row
    <2>6. Lowest(row, own) /\ Highest(row, own) /\ Opened(row, own) /\ Closed(row, own)
        BY <2>4, <2>5 DEF Priced
    <2>7. \A n \in own: n \in Nat /\ orders[n].price \in Nat /\ orders[n].at \in Nat
        BY <2>2, <2>3, TradeTypes
    <2>8. PricesOf(own) \in SUBSET Nat
        BY <2>7 DEF PricesOf
    <2>9. row.low = Min(PricesOf(own))
        <3>1. row.low \in PricesOf(own) /\ \A p \in PricesOf(own): row.low <= p
            BY <2>6 DEF Lowest, PricesOf
        <3>2. QED
            BY <2>8, <3>1, LeastIsOne
    <2>10. row.high = Max(PricesOf(own))
        <3>1. row.high \in PricesOf(own) /\ \A p \in PricesOf(own): p <= row.high
            BY <2>6 DEF Highest, PricesOf
        <3>2. QED
            BY <2>8, <3>1, GreatestIs
    <2>11. row.open \in PricesOf(OldestOf(own))
        BY <1>1, <2>3, <2>6, OpensWithOldest
    <2>12. row.close \in PricesOf(NewestOf(own))
        <3>1. PICK n \in own: row.close = orders[n].price
              /\ \A j \in own: orders[j].at <= orders[n].at
            BY <2>6 DEF Closed
        <3>2. QED
            BY <3>1 DEF PricesOf, NewestOf
    <2>13. QED
        BY <2>9, <2>10, <2>11, <2>12 DEF own, row
<1>2. QED
    BY <1>1, ViewInvHolds, PTL

-----------------------------------------------------------------------------
(* The volumes of a row. *)

\* The sum of the first k numbers.
SumAt(t, numbers) ==
    /\ t \in [0..Len(numbers) -> Nat]
    /\ t[0] = 0
    /\ \A k \in 1..Len(numbers): t[k] = t[k - 1] + numbers[k]
    /\ Sum(numbers) = t[Len(numbers)]

LEMMA SumHasSteps ==
    ASSUME NEW numbers \in Seq(Nat)
    PROVE  \E t: SumAt(t, numbers)
<1> DEFINE n == Len(numbers)
           Op == [p \in Nat \X (1..n) |-> p[1] + numbers[p[2]]]
           It == CHOOSE g: g = [s \in SUBSET (DOMAIN numbers) |->
                                 IF s = {} THEN 0 ELSE g[s \ {Max(s)}] + numbers[Max(s)]]
<1>1. Sum(numbers) = It[DOMAIN numbers]
    BY DEF Sum, FoldLeft, MapThenFoldSet
<1>2. n \in Nat /\ DOMAIN numbers = 1..n /\ \A k \in 1..n: numbers[k] \in Nat
    OBVIOUS
<1>3. Op \in [Nat \X (1..n) -> Nat]
    <2>1. ASSUME NEW p \in Nat \X (1..n)
          PROVE  p[1] + numbers[p[2]] \in Nat
        <3>1. p[1] \in Nat /\ p[2] \in 1..n /\ numbers[p[2]] \in Nat
            BY <1>2
        <3>2. QED
            BY <3>1
    <2>2. QED
        BY <2>1
<1>4. PICK f: Folds(f, Nat, 0, n, Op)
    <2>1. 0 \in Nat
        OBVIOUS
    <2> HIDE DEF n, Op
    <2>2. QED
        BY <1>2, <1>3, <2>1, FoldExists
<1>5. \A i \in Nat, k \in 1..n: Op[<<i, k>>] = i + numbers[k]
    OBVIOUS
<1> HIDE DEF Op
<1>6. ASSUME NEW s \in SUBSET (1..n), s # {}
      PROVE  Max(s) \in 1..n /\ s \ {Max(s)} \in SUBSET (1..n)
    BY <1>2, <1>6, GreatestOfFirst
<1>7. f = [s \in SUBSET (DOMAIN numbers) |->
             IF s = {} THEN 0 ELSE f[s \ {Max(s)}] + numbers[Max(s)]]
    <2>1. f \in [SUBSET (1..n) -> Nat]
        BY <1>4 DEF Folds
    <2>2. ASSUME NEW s \in SUBSET (1..n)
          PROVE  f[s] = IF s = {} THEN 0 ELSE f[s \ {Max(s)}] + numbers[Max(s)]
        <3>1. f[s] = IF s = {} THEN 0 ELSE Op[<<f[s \ {Max(s)}], Max(s)>>]
            BY <1>4 DEF Folds
        <3>2. CASE s = {}
            BY <3>1, <3>2
        <3>3. CASE s # {}
            <4>1. Max(s) \in 1..n /\ f[s \ {Max(s)}] \in Nat
                BY <1>6, <2>1, <3>3
            <4>2. QED
                BY <1>5, <3>1, <3>3, <4>1
        <3>4. QED
            BY <3>2, <3>3
    <2> HIDE DEF n
    <2>3. QED
        BY <1>2, <2>1, <2>2
<1>8. It = [s \in SUBSET (DOMAIN numbers) |->
             IF s = {} THEN 0 ELSE It[s \ {Max(s)}] + numbers[Max(s)]]
    BY <1>7
<1> HIDE DEF It
<1>9. It[{}] = 0
    BY <1>2, <1>8
<1>10. ASSUME NEW s \in SUBSET (1..n), s # {}, It[s \ {Max(s)}] \in Nat
       PROVE  It[s] = Op[<<It[s \ {Max(s)}], Max(s)>>]
    <2>1. Max(s) \in 1..n /\ s \in SUBSET (DOMAIN numbers)
        BY <1>2, <1>6, <1>10
    <2>2. It[s] = It[s \ {Max(s)}] + numbers[Max(s)]
        BY <1>8, <1>10, <2>1
    <2>3. QED
        BY <1>5, <1>10, <2>1, <2>2
<1> DEFINE t == [k \in 0..n |-> It[1..k]]
<1>11. StepsOf(t, Nat, 0, n, Op)
    <2>1. \A s \in SUBSET (1..n):
             s # {} /\ It[s \ {Max(s)}] \in Nat => It[s] = Op[<<It[s \ {Max(s)}], Max(s)>>]
        BY <1>10
    <2>2. n \in Nat /\ 0 \in Nat
        BY <1>2
    <2> HIDE DEF n
    <2>3. ASSUME NEW T, NEW zero, T = Nat, zero = 0
          PROVE  StepsOf([k \in 0..n |-> It[1..k]], T, zero, n, Op)
        <3>1. Op \in [T \X (1..n) -> T]
            BY <1>3, <2>3
        <3>2. zero \in T /\ It[{}] = zero
            BY <1>9, <2>3
        <3>3. \A s \in SUBSET (1..n):
                 s # {} /\ It[s \ {Max(s)}] \in T => It[s] = Op[<<It[s \ {Max(s)}], Max(s)>>]
            BY <2>1, <2>3
        <3>4. QED
            BY <2>2, <3>1, <3>2, <3>3, FoldSteps
    <2>4. QED
        BY <2>3
<1>12. Sum(numbers) = t[n]
    BY <1>1, <1>2
<1> HIDE DEF t
<1>13. /\ t \in [0..n -> Nat] /\ t[0] = 0
       /\ \A k \in 1..n: t[k] = t[k - 1] + numbers[k]
    <2>1. /\ t \in [0..n -> Nat] /\ t[0] = 0 /\ \A k \in 1..n: t[k] = Op[<<t[k - 1], k>>]
        BY <1>11 DEF StepsOf
    <2> HIDE DEF n
    <2>2. \A k \in 1..n: t[k - 1] \in Nat
        <3>1. t \in [0..n -> Nat] /\ \A k \in 1..n: k - 1 \in 0..n
            BY <1>2, <2>1
        <3>2. QED
            BY <3>1
    <2>3. ASSUME NEW k \in 1..n
          PROVE  t[k] = t[k - 1] + numbers[k]
        <3>1. Op[<<t[k - 1], k>>] = t[k - 1] + numbers[k]
            BY <1>5, <2>2
        <3>2. QED
            BY <2>1, <3>1
    <2>4. QED
        BY <2>1, <2>3
<1>14. SumAt(t, numbers)
    BY <1>12, <1>13 DEF SumAt
<1>15. QED
    BY <1>14

LEMMA TimesMonotone ==
    ASSUME NEW a \in Nat, NEW b \in Nat, NEW c \in Nat, a <= b
    PROVE  a * c <= b * c
<1>1. PICK d \in Nat: b = a + d
    <2>1. b - a \in Nat /\ b = a + (b - a)
        OBVIOUS
    <2>2. QED
        BY <2>1
<1>2. b * c = a * c + d * c /\ d * c \in Nat /\ a * c \in Nat
    BY <1>1
<1>3. QED
    BY <1>2

\* What the volumes of a row say of each other.
Balanced(row) ==
    /\ row.base > 0 /\ row.average.num > 0 /\ row.low <= row.high
    /\ row.low * row.base <= row.quote
    /\ row.quote <= row.high * row.base
    /\ row.average.num * row.base = row.average.den * row.quote
    /\ row.low * row.average.den <= row.average.num
    /\ row.average.num <= row.high * row.average.den

LEMMA FirstBalanced ==
    ASSUME NEW row \in Interval, NEW o \in Order, Unpriced(row), row.average.num = 0,
           o.quote = o.amount * o.price
    PROVE  /\ Balanced(AddOrder(row, o))
           /\ AddOrder(row, o).base = o.amount /\ AddOrder(row, o).quote = o.quote
<1> DEFINE new == AddOrder(row, o)
<1>1. o.price \in Nat \ {0} /\ o.amount \in Nat \ {0} /\ o.quote \in Nat
    BY DEF Order
<1>2. new.low = o.price /\ new.high = o.price
    BY AddOrderFields DEF Unpriced, Low, High
<1>3. new.base = o.amount /\ new.quote = o.quote /\ new.average = Whole(o.price)
    BY AddOrderFields DEF Volumes, IsZero
<1>4. new.average.num = o.price /\ new.average.den = 1
    BY <1>3 DEF Whole
<1> HIDE DEF new
<1>5. /\ o.price * o.amount = o.quote /\ o.price * 1 = o.price /\ 1 * o.quote = o.quote
      /\ o.price > 0 /\ o.amount > 0 /\ o.price <= o.price /\ o.quote <= o.quote
    BY <1>1
<1>6. Balanced(new)
    BY <1>2, <1>3, <1>4, <1>5 DEF Balanced
<1>7. QED
    BY <1>3, <1>6 DEF new

LEMMA NextBalanced ==
    ASSUME NEW row \in Interval, NEW o \in Order, Balanced(row), row.low > 0,
           o.quote = o.amount * o.price
    PROVE  /\ Balanced(AddOrder(row, o))
           /\ AddOrder(row, o).base = row.base + o.amount
           /\ AddOrder(row, o).quote = row.quote + o.quote
<1> DEFINE new == AddOrder(row, o)
<1>1. o.price \in Nat \ {0} /\ o.amount \in Nat \ {0} /\ o.quote \in Nat
    BY DEF Order
<1>2. row.low \in Nat /\ row.high \in Nat /\ row.base \in Nat /\ row.quote \in Nat
    BY IntervalTypes
<1>3. row.average.num \in Nat /\ row.average.num > 0 /\ row.low <= row.high /\ row.base > 0
    BY IntervalTypes DEF Average, Balanced
<1>4. /\ new.low = Low(row, o) /\ new.high = High(row, o)
      /\ new.base = row.base + o.amount /\ new.quote = row.quote + o.quote
      /\ new.average = IF High(row, o) = Low(row, o) THEN Whole(o.price)
                       ELSE [num |-> row.quote + o.quote, den |-> row.base + o.amount]
    BY <1>3, AddOrderFields DEF Volumes, IsZero
<1>5. /\ new.low \in Nat /\ new.low <= row.low /\ new.low <= o.price
      /\ new.high \in Nat /\ row.high <= new.high /\ o.price <= new.high
      /\ new.base \in Nat /\ new.base > 0 /\ new.quote \in Nat /\ new.low <= new.high
    <2>1. Low(row, o) \in Nat /\ Low(row, o) <= row.low /\ Low(row, o) <= o.price
        BY <1>1, <1>2 DEF Low
    <2>2. High(row, o) \in Nat /\ row.high <= High(row, o) /\ o.price <= High(row, o)
        BY <1>1, <1>2 DEF High
    <2>3. row.base + o.amount \in Nat /\ row.base + o.amount > 0 /\ row.quote + o.quote \in Nat
        BY <1>1, <1>2
    <2> HIDE DEF new
    <2>4. QED
        BY <1>1, <1>2, <1>3, <1>4, <2>1, <2>2, <2>3
<1> HIDE DEF new
<1>6. new.low * new.base <= new.quote
    <2>1. new.low * row.base <= row.low * row.base
        BY <1>2, <1>5, TimesMonotone
    <2>2. new.low * o.amount <= o.price * o.amount
        BY <1>1, <1>5, TimesMonotone
    <2>3. new.low * new.base = new.low * row.base + new.low * o.amount
        BY <1>1, <1>2, <1>4, <1>5
    <2>4. row.low * row.base <= row.quote
        BY DEF Balanced
    <2>5. o.price * o.amount = o.quote
        BY <1>1
    <2>6. /\ new.low * row.base \in Nat /\ row.low * row.base \in Nat
          /\ new.low * o.amount \in Nat /\ o.price * o.amount \in Nat
        BY <1>1, <1>2, <1>5
    <2>7. QED
        BY <1>1, <1>2, <1>4, <2>1, <2>2, <2>3, <2>4, <2>5, <2>6
<1>7. new.quote <= new.high * new.base
    <2>1. row.high * row.base <= new.high * row.base
        BY <1>2, <1>5, TimesMonotone
    <2>2. o.price * o.amount <= new.high * o.amount
        BY <1>1, <1>5, TimesMonotone
    <2>3. new.high * new.base = new.high * row.base + new.high * o.amount
        BY <1>1, <1>2, <1>4, <1>5
    <2>4. row.quote <= row.high * row.base
        BY DEF Balanced
    <2>5. o.price * o.amount = o.quote
        BY <1>1
    <2>6. /\ new.high * row.base \in Nat /\ row.high * row.base \in Nat
          /\ new.high * o.amount \in Nat /\ o.price * o.amount \in Nat
        BY <1>1, <1>2, <1>5
    <2>7. QED
        BY <1>1, <1>2, <1>4, <2>1, <2>2, <2>3, <2>4, <2>5, <2>6
<1>8. CASE High(row, o) = Low(row, o)
    <2>1. new.average.num = o.price /\ new.average.den = 1
        BY <1>4, <1>8 DEF Whole
    <2>2. new.low = o.price /\ new.high = o.price
        BY <1>1, <1>4, <1>5, <1>8
    <2>3. o.price * new.base \in Nat
        BY <1>1, <1>5
    <2>4. o.price * new.base = new.quote
        BY <1>5, <1>6, <1>7, <2>2, <2>3
    <2>5. /\ 1 * new.quote = new.quote /\ o.price * 1 = o.price /\ o.price > 0 /\ o.price <= o.price
        BY <1>1, <1>5
    <2>6. Balanced(new)
        BY <1>5, <1>6, <1>7, <2>1, <2>2, <2>4, <2>5 DEF Balanced
    <2>7. QED
        BY <1>4, <2>6 DEF new
<1>9. CASE High(row, o) # Low(row, o)
    <2>1. new.average.num = new.quote /\ new.average.den = new.base
        BY <1>4, <1>9
    <2>2. new.quote > 0
        <3>1. o.quote > 0
            BY <1>1
        <3>2. QED
            BY <1>1, <1>2, <1>4, <3>1
    <2>3. new.quote * new.base = new.base * new.quote
        BY <1>5
    <2>4. Balanced(new)
        BY <1>5, <1>6, <1>7, <2>1, <2>2, <2>3 DEF Balanced
    <2>5. QED
        BY <1>4, <2>4 DEF new
<1>10. QED
    BY <1>8, <1>9

\* No trade is so small that its quote amount is nothing.
NoneForFree == \A deal \in Deals: GetQuoteAmount(deal[2], deal[1]) > 0

LEMMA WholeIsNotFree == QuoteUnit = 1 => NoneForFree
<1> SUFFICES ASSUME QuoteUnit = 1, NEW deal \in Deals
             PROVE  GetQuoteAmount(deal[2], deal[1]) > 0
    BY DEF NoneForFree
<1>1. deal[1] \in Nat \ {0} /\ deal[2] \in Nat \ {0}
    BY ViewAssumption
<1>2. deal[2] * deal[1] \in Nat /\ deal[2] * deal[1] > 0
    BY <1>1
<1>3. QED
    BY <1>2 DEF GetQuoteAmount

LEMMA AddedVolumes ==
    ASSUME NEW row \in Interval, NEW o \in Order, o.quote > 0
    PROVE  /\ AddOrder(row, o).average.num > 0
           /\ row.average.num = 0 => /\ AddOrder(row, o).base = o.amount
                                     /\ AddOrder(row, o).quote = o.quote
           /\ row.average.num > 0 => /\ AddOrder(row, o).base = row.base + o.amount
                                     /\ AddOrder(row, o).quote = row.quote + o.quote
<1> DEFINE new == AddOrder(row, o)
<1>1. o.price \in Nat \ {0} /\ o.quote \in Nat
    BY DEF Order
<1>2. row.average.num \in Nat /\ row.quote \in Nat
    BY IntervalTypes DEF Average
<1>3. /\ new.average = Volumes(row, o).average
      /\ new.base = Volumes(row, o).base /\ new.quote = Volumes(row, o).quote
    BY AddOrderFields
<1> HIDE DEF new
<1>4. CASE row.average.num = 0
    <2>1. new.average = Whole(o.price) /\ new.base = o.amount /\ new.quote = o.quote
        BY <1>3, <1>4 DEF Volumes, IsZero
    <2>2. new.average.num > 0
        BY <1>1, <2>1 DEF Whole
    <2>3. QED
        BY <1>4, <2>1, <2>2 DEF new
<1>5. CASE row.average.num > 0
    <2>1. /\ new.average = IF High(row, o) = Low(row, o) THEN Whole(o.price)
                           ELSE [num |-> row.quote + o.quote, den |-> row.base + o.amount]
          /\ new.base = row.base + o.amount /\ new.quote = row.quote + o.quote
        BY <1>3, <1>5 DEF Volumes, IsZero
    <2>2. new.average.num = o.price \/ new.average.num = row.quote + o.quote
        BY <2>1 DEF Whole
    <2>3. new.average.num > 0
        BY <1>1, <1>2, <2>2
    <2>4. QED
        BY <1>5, <2>1, <2>3 DEF new
<1>6. QED
    BY <1>2, <1>4, <1>5

\* What a row is after k trades, with the volumes summed up to them.
Summed(row, own, base, quote) ==
    /\ row.base = base /\ row.quote = quote
    /\ IF own = {} THEN row.average.num = 0 /\ base = 0 /\ quote = 0
       ELSE row.average.num > 0 /\ (QuoteUnit = 1 => Balanced(row))

LEMMA BalancedStep ==
    ASSUME NEW row \in Interval, NEW o \in Order, NEW own, NEW base, NEW quote,
           o.quote = o.amount * o.price, QuoteUnit = 1, own = {} => Unpriced(row),
           own # {} => row.low > 0, Summed(row, own, base, quote)
    PROVE  Balanced(AddOrder(row, o))
<1>1. CASE own = {}
    <2>1. Unpriced(row) /\ row.average.num = 0
        BY <1>1 DEF Summed
    <2>2. QED
        BY <2>1, FirstBalanced
<1>2. CASE own # {}
    <2>1. Balanced(row) /\ row.low > 0
        BY <1>2 DEF Summed
    <2>2. QED
        BY <2>1, NextBalanced
<1>3. QED
    BY <1>1, <1>2

LEMMA SummedStep ==
    ASSUME ViewInv, NoneForFree, NEW k \in 1..Len(orders), NEW own \in SUBSET (1..(k - 1)),
           NEW row \in Interval, Priced(row, own), NEW base \in Nat, NEW quote \in Nat,
           Summed(row, own, base, quote)
    PROVE  Summed(AddOrder(row, orders[k]), own \cup {k},
                  base + orders[k].amount, quote + orders[k].quote)
<1> DEFINE o == orders[k]
           new == AddOrder(row, o)
<1>1. o \in Order /\ o.amount \in Nat /\ o.quote \in Nat /\ o.price \in Nat
    BY TradeTypes DEF ViewInv
<1>2. /\ o.quote = GetQuoteAmount(o.amount, o.price)
      /\ <<o.price, o.amount>> \in Deals
    BY DEF ViewInv
<1>3. own = {} => Unpriced(row)
    BY DEF Priced
<1>4. ASSUME own # {} PROVE row.low > 0
    <2>1. PICK n \in own: row.low = orders[n].price
        BY <1>4 DEF Priced, Lowest
    <2>2. n \in 1..Len(orders) /\ orders \in Seq(Order)
        BY DEF ViewInv
    <2>3. orders[n].price \in Nat \ {0}
        BY <2>2, TradeTypes
    <2>4. QED
        BY <2>1, <2>3
<1> HIDE DEF o
<1>5. o.quote > 0
    BY <1>2 DEF NoneForFree
<1>6. ASSUME QuoteUnit = 1 PROVE Balanced(new)
    <2>1. o.amount * o.price \in Nat
        BY <1>1
    <2>2. o.quote = o.amount * o.price
        BY <1>2, <1>6, <2>1 DEF GetQuoteAmount
    <2> HIDE DEF new
    <2>3. Balanced(AddOrder(row, o))
        BY <1>1, <1>3, <1>4, <1>6, <2>2, BalancedStep
    <2>4. QED
        BY <2>3 DEF new
<1>7. new.average.num > 0
    BY <1>1, <1>5, AddedVolumes
<1>8. new.base = base + o.amount /\ new.quote = quote + o.quote
    <2>1. CASE own = {}
        <3>1. row.average.num = 0 /\ base = 0 /\ quote = 0
            BY <2>1 DEF Summed
        <3>2. new.base = o.amount /\ new.quote = o.quote
            BY <1>1, <1>5, <3>1, AddedVolumes
        <3> HIDE DEF new
        <3>3. QED
            BY <1>1, <3>1, <3>2
    <2>2. CASE own # {}
        <3>1. row.average.num > 0 /\ row.base = base /\ row.quote = quote
            BY <2>2 DEF Summed
        <3>2. new.base = row.base + o.amount /\ new.quote = row.quote + o.quote
            BY <1>1, <1>5, <3>1, AddedVolumes
        <3> HIDE DEF new
        <3>3. QED
            BY <3>1, <3>2
    <2>3. QED
        BY <2>1, <2>2
<1>9. own \cup {k} # {}
    OBVIOUS
<1> HIDE DEF new
<1>10. Summed(new, own \cup {k}, base + o.amount, quote + o.quote)
    BY <1>6, <1>7, <1>8, <1>9 DEF Summed
<1>11. QED
    BY <1>10 DEF new, o

\* The numbers that the sums of a row's volumes are made of.
AmountsOf(own) == [n \in DOMAIN orders |-> IF n \in own THEN orders[n].amount ELSE 0]
QuotesOf(own) == [n \in DOMAIN orders |-> IF n \in own THEN orders[n].quote ELSE 0]

LEMMA NumbersOf ==
    ASSUME ViewInv, NEW own
    PROVE  /\ AmountsOf(own) \in Seq(Nat) /\ QuotesOf(own) \in Seq(Nat)
           /\ Len(AmountsOf(own)) = Len(orders) /\ Len(QuotesOf(own)) = Len(orders)
           /\ \A n \in 1..Len(orders):
                /\ AmountsOf(own)[n] = IF n \in own THEN orders[n].amount ELSE 0
                /\ QuotesOf(own)[n] = IF n \in own THEN orders[n].quote ELSE 0
<1>1. /\ DOMAIN orders = 1..Len(orders) /\ Len(orders) \in Nat
      /\ \A n \in 1..Len(orders): orders[n].amount \in Nat /\ orders[n].quote \in Nat
    BY TradeTypes DEF ViewInv
<1>2. /\ AmountsOf(own) \in [1..Len(orders) -> Nat]
      /\ QuotesOf(own) \in [1..Len(orders) -> Nat]
    BY <1>1 DEF AmountsOf, QuotesOf
<1>3. QED
    BY <1>1, <1>2 DEF AmountsOf, QuotesOf

LEMMA RowIsSummed ==
    ASSUME ViewInv, NoneForFree, NEW start, NEW length
    PROVE  LET own == Among(Len(orders), start, length)
           IN  Summed(Row(start, length), own, Sum(AmountsOf(own)), Sum(QuotesOf(own)))
<1> DEFINE own == Among(Len(orders), start, length)
           n == Len(orders)
           Own(k) == Among(k, start, length)
<1>1. orders \in Seq(Order) /\ n \in Nat
    BY DEF ViewInv
<1>2. PICK h: RowAt(h, start, length)
    BY <1>1, RowHasSteps
<1>3. /\ h \in [0..n -> Interval] /\ h[0] = NewInterval /\ Row(start, length) = h[n]
    BY <1>2 DEF RowAt
<1>4. PICK b: SumAt(b, AmountsOf(own))
    BY NumbersOf, SumHasSteps
<1>5. PICK q: SumAt(q, QuotesOf(own))
    BY NumbersOf, SumHasSteps
<1>6. /\ b \in [0..n -> Nat] /\ b[0] = 0 /\ Sum(AmountsOf(own)) = b[n]
      /\ q \in [0..n -> Nat] /\ q[0] = 0 /\ Sum(QuotesOf(own)) = q[n]
    BY <1>4, <1>5, NumbersOf DEF SumAt
<1>7. ASSUME NEW k \in 1..n
      PROVE  /\ b[k] = b[k - 1] + (IF k \in own THEN orders[k].amount ELSE 0)
             /\ q[k] = q[k - 1] + (IF k \in own THEN orders[k].quote ELSE 0)
    <2>1. b[k] = b[k - 1] + AmountsOf(own)[k] /\ q[k] = q[k - 1] + QuotesOf(own)[k]
        BY <1>4, <1>5, NumbersOf DEF SumAt
    <2>2. QED
        BY <2>1, NumbersOf
<1>8. \A k \in 1..n: k \in own <=> StartOf(orders[k].at, length) = start
    BY DEF Among
<1> HIDE DEF own
<1> DEFINE Holds(k) == Priced(h[k], Own(k)) /\ Summed(h[k], Own(k), b[k], q[k])
<1>9. Holds(0)
    <2>1. Own(0) = {}
        BY DEF Among
    <2>2. Priced(NewInterval, {}) /\ Summed(NewInterval, {}, 0, 0)
        BY DEF Priced, Unpriced, Summed, NewInterval, Whole
    <2>3. QED
        BY <1>3, <1>6, <2>1, <2>2
<1>10. ASSUME NEW k \in 1..n, Holds(k - 1)
       PROVE  Holds(k)
    <2>1. /\ h[k - 1] \in Interval /\ b[k - 1] \in Nat /\ q[k - 1] \in Nat
          /\ k - 1 \in 0..n /\ k \in 1..Len(orders)
        <3>1. k - 1 \in 0..n /\ k \in 1..Len(orders)
            BY <1>1
        <3> HIDE DEF n
        <3>2. b[k - 1] \in Nat /\ q[k - 1] \in Nat
            BY <1>6, <3>1
        <3>3. h[k - 1] \in Interval
            BY <1>3, <3>1
        <3>4. QED
            BY <3>1, <3>2, <3>3
    <2>2. Own(k - 1) \in SUBSET (1..(k - 1))
        BY <1>1, AmongOneMore
    <2>3. CASE StartOf(orders[k].at, length) = start
        <3>1. h[k] = AddOrder(h[k - 1], orders[k])
            BY <1>2, <2>1, <2>3 DEF RowAt
        <3>2. Own(k) = Own(k - 1) \cup {k}
            BY <1>1, <2>3, AmongOneMore
        <3>3. b[k] = b[k - 1] + orders[k].amount /\ q[k] = q[k - 1] + orders[k].quote
            BY <1>7, <1>8, <2>3
        <3> HIDE DEF Own
        <3>4. Priced(AddOrder(h[k - 1], orders[k]), Own(k - 1) \cup {k})
            BY <1>10, <2>1, <2>2, PricedStep
        <3>5. Summed(AddOrder(h[k - 1], orders[k]), Own(k - 1) \cup {k},
                     b[k - 1] + orders[k].amount, q[k - 1] + orders[k].quote)
            BY <1>10, <2>1, <2>2, SummedStep
        <3>6. QED
            BY <3>1, <3>2, <3>3, <3>4, <3>5
    <2>4. CASE StartOf(orders[k].at, length) # start
        <3>1. h[k] = h[k - 1]
            BY <1>2, <2>1, <2>4 DEF RowAt
        <3>2. Own(k) = Own(k - 1)
            BY <1>1, <2>4, AmongOneMore
        <3>3. b[k] = b[k - 1] /\ q[k] = q[k - 1]
            BY <1>7, <1>8, <2>1, <2>4
        <3> HIDE DEF Own
        <3>4. QED
            BY <1>10, <3>1, <3>2, <3>3
    <2>5. QED
        BY <2>3, <2>4
<1> DEFINE W == {k \in 0..n: Holds(k)}
<1>11. 0..n \subseteq W
    <2> HIDE DEF Holds, n
    <2>1. 0 \in W /\ \A k \in 1..n: k - 1 \in W => k \in W
        BY <1>1, <1>9, <1>10
    <2> HIDE DEF W
    <2>2. QED
        BY <1>1, <2>1, Upward
<1>12. Holds(n)
    <2> HIDE DEF Holds, n
    <2>1. QED
        BY <1>1, <1>11
<1>13. Summed(Row(start, length), own, Sum(AmountsOf(own)), Sum(QuotesOf(own)))
    BY <1>3, <1>6, <1>12 DEF own
<1>14. QED
    BY <1>13 DEF own

\* When no decimal of a quote amount is cut (QuoteUnit = 1), the volumes of an
\* interval are the sums of its trades' and its average price is the quote volume
\* over the base volume (Interval.AddOrder).
THEOREM VolumesAreSumsTheorem == ASSUME QuoteUnit = 1 PROVE Spec => []VolumesAreSums
<1>1. ASSUME ViewInv PROVE VolumesAreSums
    <2>1. SUFFICES ASSUME NEW length \in Lengths, NEW s \in Starts(length)
                   PROVE  LET own == TradesOf(s, length)
                              row == Row(s, length)
                          IN  /\ row.base = SumOf(own, LAMBDA o: o.amount)
                              /\ row.quote = SumOf(own, LAMBDA o: o.quote)
                              /\ row.average.num * row.base = row.average.den * row.quote
                              /\ row.low * row.average.den <= row.average.num
                              /\ row.average.num <= row.high * row.average.den
        BY DEF VolumesAreSums
    <2> DEFINE own == TradesOf(s, length)
               row == Row(s, length)
    <2>2. DOMAIN orders = 1..Len(orders) /\ Len(orders) \in Nat
        BY <1>1 DEF ViewInv
    <2>3. own = Among(Len(orders), s, length)
        BY <2>2 DEF TradesOf, Among
    <2>4. own # {}
        BY <2>2 DEF Starts, TradesOf
    <2>5. Summed(row, own, Sum(AmountsOf(own)), Sum(QuotesOf(own)))
        BY <1>1, <2>3, WholeIsNotFree, RowIsSummed
    <2>6. /\ SumOf(own, LAMBDA o: o.amount) = Sum(AmountsOf(own))
          /\ SumOf(own, LAMBDA o: o.quote) = Sum(QuotesOf(own))
        BY DEF SumOf, AmountsOf, QuotesOf
    <2> HIDE DEF own, row
    <2>7. Balanced(row) /\ row.base = Sum(AmountsOf(own)) /\ row.quote = Sum(QuotesOf(own))
        BY <2>4, <2>5 DEF Summed
    <2>8. /\ row.base = SumOf(own, LAMBDA o: o.amount)
          /\ row.quote = SumOf(own, LAMBDA o: o.quote)
        BY <2>6, <2>7
    <2>9. QED
        BY <2>7, <2>8 DEF Balanced, own, row
<1>2. QED
    BY <1>1, ViewInvHolds, PTL

-----------------------------------------------------------------------------
(* The list of a set of minutes, earliest first. *)

IsAscending(list, S) ==
    /\ list \in [1..Cardinality(S) -> S]
    /\ \A i, j \in 1..Cardinality(S): i < j => list[i] < list[j]

LEMMA SizeOf ==
    ASSUME NEW N \in Nat, NEW S \in SUBSET (0..N)
    PROVE  IsFiniteSet(S) /\ Cardinality(S) \in Nat
<1>1. IsFiniteSet(S)
    <2>1. IsFiniteSet(0..N)
        BY FS_Interval
    <2>2. QED
        BY <2>1, FS_Subset
<1>2. QED
    BY <1>1, FS_CardinalityType

LEMMA AscendingIsOnto ==
    ASSUME NEW S \in SUBSET Nat, IsFiniteSet(S), NEW list, IsAscending(list, S)
    PROVE  \A s \in S: \E i \in 1..Cardinality(S): list[i] = s
<1> DEFINE c == Cardinality(S)
<1>1. IsFiniteSet(S) /\ c \in Nat /\ list \in [1..c -> S]
    BY FS_CardinalityType DEF IsAscending
<1>2. \A i, j \in 1..c: list[i] = list[j] => i = j
    <2>1. ASSUME NEW i \in 1..c, NEW j \in 1..c, list[i] = list[j], i < j
          PROVE  FALSE
        <3>1. list[i] < list[j] /\ list[i] \in Nat /\ list[j] \in Nat
            BY <1>1, <2>1 DEF IsAscending
        <3> HIDE DEF c
        <3>2. QED
            BY <2>1, <3>1
    <2> HIDE DEF c
    <2>2. QED
        BY <1>1, <2>1
<1> HIDE DEF c
<1>3. IsFiniteSet(1..c) /\ Cardinality(1..c) = c
    BY <1>1, FS_Interval
<1>4. list \in Injection(1..c, S)
    BY <1>1, <1>2 DEF Injection, IsInjective
<1>5. list \in Surjection(1..c, S)
    <2>1. Cardinality(1..c) = Cardinality(S)
        BY <1>3 DEF c
    <2>2. QED
        BY <1>1, <1>4, <2>1, FS_Injection
<1>6. QED
    BY <1>5 DEF Surjection, c

\* With one more, later minute.
LEMMA OneLater ==
    ASSUME NEW k \in Nat, NEW S \in SUBSET (0..k), k \in S, NEW T, T = S \ {k},
           NEW c, c = Cardinality(T)
    PROVE  T \in SUBSET (0..(k - 1)) /\ c \in Nat /\ Cardinality(S) = c + 1
<1>1. IsFiniteSet(S) /\ Cardinality(S) \in Nat /\ IsFiniteSet(T) /\ c \in Nat
    BY SizeOf
<1>2. c = Cardinality(S) - 1
    BY <1>1, FS_RemoveElement
<1>3. QED
    BY <1>1, <1>2

LEMMA AscendingExists ==
    ASSUME NEW N \in Nat, NEW S \in SUBSET (0..N)
    PROVE  \E list: IsAscending(list, S)
<1> DEFINE Done(k) == \A T \in SUBSET (0..(k - 1)): \E list: IsAscending(list, T)
           W == {k \in Nat: Done(k)}
<1>1. 0 \in W
    <2>1. ASSUME NEW T \in SUBSET (0..(0 - 1))
          PROVE  IsAscending(<<>>, T)
        <3>1. T = {} /\ Cardinality(T) = 0 /\ 1..0 = {}
            <4>1. 0..(0 - 1) = {} /\ 1..0 = {}
                OBVIOUS
            <4>2. T = {}
                BY <4>1
            <4>3. QED
                BY <4>1, <4>2, FS_EmptySet
        <3>2. <<>> \in [1..0 -> T]
            BY <3>1
        <3>3. QED
            BY <3>1, <3>2 DEF IsAscending
    <2>2. QED
        BY <2>1
<1>2. ASSUME NEW k \in Nat, Done(k)
      PROVE  Done(k + 1)
    <2>1. SUFFICES ASSUME NEW T \in SUBSET (0..k)
                   PROVE  \E list: IsAscending(list, T)
        OBVIOUS
    <2>2. CASE k \notin T
        <3>1. T \in SUBSET (0..(k - 1))
            BY <2>2
        <3>2. QED
            BY <1>2, <3>1
    <2>3. CASE k \in T
        <3> DEFINE U == T \ {k}
                   c == Cardinality(U)
        <3>1. U \in SUBSET (0..(k - 1)) /\ c \in Nat /\ Cardinality(T) = c + 1
            BY <2>3, OneLater
        <3>2. PICK old: IsAscending(old, U)
            BY <1>2, <3>1
        <3>3. old \in [1..c -> U] /\ \A i, j \in 1..c: i < j => old[i] < old[j]
            BY <3>2 DEF IsAscending
        <3>4. U \subseteq T /\ \A u \in U: u < k
            BY <3>1
        <3> HIDE DEF c, U
        <3> DEFINE list == [i \in 1..(c + 1) |-> IF i = c + 1 THEN k ELSE old[i]]
        <3>5. \A i \in 1..(c + 1): i # c + 1 => i \in 1..c /\ old[i] \in U
            BY <3>1, <3>3
        <3>6. list \in [1..(c + 1) -> T]
            BY <2>3, <3>4, <3>5
        <3>7. ASSUME NEW i \in 1..(c + 1), NEW j \in 1..(c + 1), i < j
              PROVE  list[i] < list[j]
            <4>1. i # c + 1 /\ list[i] = old[i]
                BY <3>1, <3>7
            <4>2. CASE j = c + 1
                BY <3>4, <3>5, <4>1, <4>2
            <4>3. CASE j # c + 1
                BY <3>3, <3>5, <3>7, <4>1, <4>3
            <4>4. QED
                BY <4>2, <4>3
        <3> HIDE DEF list
        <3>8. IsAscending(list, T)
            BY <3>1, <3>6, <3>7 DEF IsAscending
        <3>9. QED
            BY <3>8
    <2>4. QED
        BY <2>2, <2>3
<1> HIDE DEF Done
<1>3. 0..(N + 1) \subseteq W
    <2>1. \A k \in 1..(N + 1): k - 1 \in W => k \in W
        <3>1. ASSUME NEW k \in 1..(N + 1), k - 1 \in W PROVE k \in W
            <4>1. k - 1 \in Nat /\ Done(k - 1) /\ (k - 1) + 1 = k /\ k \in Nat
                BY <3>1
            <4>2. Done((k - 1) + 1)
                BY <1>2, <4>1
            <4>3. QED
                BY <4>1, <4>2
        <3>2. QED
            BY <3>1
    <2> HIDE DEF W
    <2>2. N + 1 \in Nat
        OBVIOUS
    <2>3. QED
        BY <1>1, <2>1, <2>2, Upward
<1>4. Done(N + 1) /\ (N + 1) - 1 = N
    <2>1. N + 1 \in 0..(N + 1)
        OBVIOUS
    <2>2. QED
        BY <1>3, <2>1
<1>5. QED
    BY <1>4 DEF Done

LEMMA AscendingUnique ==
    ASSUME NEW N \in Nat, NEW S \in SUBSET (0..N),
           NEW one, IsAscending(one, S), NEW two, IsAscending(two, S)
    PROVE  one = two
<1> DEFINE Done(k) == \A T \in SUBSET (0..(k - 1)): \A l, m:
                        IsAscending(l, T) /\ IsAscending(m, T) => l = m
           W == {k \in Nat: Done(k)}
<1>1. 0 \in W
    <2>1. ASSUME NEW T \in SUBSET (0..(0 - 1)), NEW l, NEW m, IsAscending(l, T), IsAscending(m, T)
          PROVE  l = m
        <3>1. T = {} /\ Cardinality(T) = 0 /\ 1..0 = {}
            <4>1. 0..(0 - 1) = {} /\ 1..0 = {}
                OBVIOUS
            <4>2. T = {}
                BY <4>1
            <4>3. QED
                BY <4>1, <4>2, FS_EmptySet
        <3>2. l \in [1..0 -> T] /\ m \in [1..0 -> T]
            BY <2>1, <3>1 DEF IsAscending
        <3>3. QED
            BY <3>1, <3>2
    <2>2. QED
        BY <2>1
<1>2. ASSUME NEW k \in Nat, Done(k)
      PROVE  Done(k + 1)
    <2>1. SUFFICES ASSUME NEW T \in SUBSET (0..k), NEW l, NEW m,
                          IsAscending(l, T), IsAscending(m, T)
                   PROVE  l = m
        OBVIOUS
    <2>2. CASE k \notin T
        <3>1. T \in SUBSET (0..(k - 1))
            BY <2>2
        <3>2. QED
            BY <1>2, <2>1, <3>1
    <2>3. CASE k \in T
        <3> DEFINE U == T \ {k}
                   c == Cardinality(U)
        <3>1. U \in SUBSET (0..(k - 1)) /\ c \in Nat /\ Cardinality(T) = c + 1
            BY <2>3, OneLater
        <3>2. \A t \in T: t \in 0..k /\ (t # k => t \in U)
            OBVIOUS
        <3> HIDE DEF c
        <3>3. ASSUME NEW list, IsAscending(list, T)
              PROVE  /\ list \in [1..(c + 1) -> T] /\ list[c + 1] = k
                     /\ IsAscending([i \in 1..c |-> list[i]], U)
            <4>1. /\ list \in [1..(c + 1) -> T]
                  /\ \A i, j \in 1..(c + 1): i < j => list[i] < list[j]
                BY <3>1, <3>3 DEF IsAscending
            <4>2. PICK i \in 1..(c + 1): list[i] = k
                <5>1. IsFiniteSet(T) /\ T \in SUBSET Nat
                    <6>1. IsFiniteSet(T)
                        BY SizeOf
                    <6>2. T \in SUBSET Nat
                        OBVIOUS
                    <6>3. QED
                        BY <6>1, <6>2
                <5>2. \A s \in T: \E i \in 1..Cardinality(T): list[i] = s
                    BY <3>3, <5>1, AscendingIsOnto
                <5>3. QED
                    BY <2>3, <3>1, <5>2
            <4>3. c + 1 \in 1..(c + 1) /\ \A j \in 1..c: j \in 1..(c + 1) /\ j < c + 1
                BY <3>1
            <4>4. i = c + 1
                <5>1. list[c + 1] \in 0..k /\ (i < c + 1 => k < list[c + 1])
                    BY <3>2, <4>1, <4>2, <4>3
                <5>2. QED
                    BY <3>1, <5>1
            <4>5. \A j \in 1..c: list[j] \in U
                <5>1. \A j \in 1..c: list[j] \in T /\ list[j] < k
                    BY <4>1, <4>2, <4>3, <4>4
                <5>2. QED
                    BY <3>2, <5>1
            <4> DEFINE short == [j \in 1..c |-> list[j]]
            <4>6. short \in [1..c -> U] /\ \A a, b \in 1..c: a < b => short[a] < short[b]
                BY <4>1, <4>3, <4>5
            <4> HIDE DEF short
            <4>7. IsAscending(short, U)
                BY <4>6 DEF IsAscending, c
            <4>8. QED
                BY <4>1, <4>2, <4>4, <4>7 DEF short
        <3>4. [i \in 1..c |-> l[i]] = [i \in 1..c |-> m[i]]
            <4>1. \A a, b: IsAscending(a, U) /\ IsAscending(b, U) => a = b
                BY <1>2, <3>1
            <4>2. /\ IsAscending([i \in 1..c |-> l[i]], U)
                  /\ IsAscending([i \in 1..c |-> m[i]], U)
                BY <2>1, <3>3
            <4>3. QED
                BY <4>1, <4>2
        <3>5. \A i \in 1..c: l[i] = m[i]
            BY <3>4
        <3>6. \A i \in 1..(c + 1): l[i] = m[i]
            <4>1. l[c + 1] = k /\ m[c + 1] = k
                BY <2>1, <3>3
            <4>2. \A i \in 1..(c + 1): i \in 1..c \/ i = c + 1
                BY <3>1
            <4>3. QED
                BY <3>5, <4>1, <4>2
        <3>7. l \in [1..(c + 1) -> T] /\ m \in [1..(c + 1) -> T]
            BY <2>1, <3>3
        <3>8. /\ l = [i \in 1..(c + 1) |-> l[i]]
              /\ m = [i \in 1..(c + 1) |-> m[i]]
            BY <3>7
        <3>9. [i \in 1..(c + 1) |-> l[i]] = [i \in 1..(c + 1) |-> m[i]]
            BY <3>6
        <3>10. QED
            BY <3>8, <3>9
    <2>4. QED
        BY <2>2, <2>3
<1> HIDE DEF Done
<1>3. 0..(N + 1) \subseteq W
    <2>1. \A k \in 1..(N + 1): k - 1 \in W => k \in W
        <3>1. ASSUME NEW k \in 1..(N + 1), k - 1 \in W PROVE k \in W
            <4>1. k - 1 \in Nat /\ Done(k - 1) /\ (k - 1) + 1 = k /\ k \in Nat
                BY <3>1
            <4>2. Done((k - 1) + 1)
                BY <1>2, <4>1
            <4>3. QED
                BY <4>1, <4>2
        <3>2. QED
            BY <3>1
    <2> HIDE DEF W
    <2>2. N + 1 \in Nat
        OBVIOUS
    <2>3. QED
        BY <1>1, <2>1, <2>2, Upward
<1>4. Done(N + 1) /\ (N + 1) - 1 = N
    <2>1. N + 1 \in 0..(N + 1)
        OBVIOUS
    <2>2. QED
        BY <1>3, <2>1
<1>5. QED
    BY <1>4 DEF Done

LEMMA AscendingIs ==
    ASSUME NEW N \in Nat, NEW S \in SUBSET (0..N)
    PROVE  /\ IsAscending(Ascending(S), S)
           /\ \A list: IsAscending(list, S) => list = Ascending(S)
<1> DEFINE A(list) == list \in [1..Cardinality(S) -> S] /\ \A i,
      j \in DOMAIN list: i < j => list[i] < list[j]
<1>1. \A list: A(list) <=> IsAscending(list, S)
    <2>1. ASSUME NEW list PROVE A(list) <=> IsAscending(list, S)
        <3>1. list \in [1..Cardinality(S) -> S] => DOMAIN list = 1..Cardinality(S)
            OBVIOUS
        <3>2. QED
            BY <3>1 DEF IsAscending
    <2>2. QED
        BY <2>1
<1>2. \E list \in [1..Cardinality(S) -> S]: \A i, j \in DOMAIN list: i < j => list[i] < list[j]
    BY <1>1, AscendingExists
<1>3. A(Ascending(S))
    BY <1>2 DEF Ascending
<1> HIDE DEF A
<1>4. IsAscending(Ascending(S), S)
    BY <1>1, <1>3
<1>5. QED
    BY <1>4, AscendingUnique

LEMMA AscendingCovers ==
    ASSUME NEW N \in Nat, NEW S \in SUBSET (0..N)
    PROVE  \A s \in S: \E j \in 1..Cardinality(S): Ascending(S)[j] = s
<1> DEFINE list == Ascending(S)
<1>1. IsAscending(list, S)
    BY AscendingIs
<1> HIDE DEF list
<1>2. \A s \in S: \E j \in 1..Cardinality(S): list[j] = s
    <2>1. IsFiniteSet(S) /\ S \in SUBSET Nat
        BY SizeOf
    <2>2. QED
        BY <1>1, <2>1, AscendingIsOnto
<1>3. QED
    BY <1>2 DEF list

-----------------------------------------------------------------------------
(* Starts of intervals. *)

LEMMA StartIs ==
    ASSUME NEW at \in Nat, NEW length \in Nat \ {0}
    PROVE  /\ StartOf(at, length) \in Nat /\ StartOf(at, length) <= at
           /\ at < StartOf(at, length) + length /\ StartOf(at, length) % length = 0
<1>1. at \div length \in Nat
    OBVIOUS
<1>2. ((at \div length) * length) % length = 0
    BY <1>1
<1>3. QED
    BY <1>2 DEF StartOf

LEMMA MultipleIs ==
    ASSUME NEW s \in Nat, NEW length \in Nat \ {0}, s % length = 0
    PROVE  \E q \in Nat: s = q * length
<1>1. StartOf(s, length) <= s /\ StartOf(s, length) \in Nat
    BY StartIs
<1>2. s \div length \in Nat /\ s = (s \div length) * length
    OBVIOUS
<1>3. QED
    BY <1>2

LEMMA LastMultiple ==
    ASSUME NEW s \in Nat, NEW at \in Nat, NEW length \in Nat \ {0}, s % length = 0, s <= at
    PROVE  s <= StartOf(at, length)
<1>1. PICK q \in Nat: s = q * length
    BY MultipleIs
<1> DEFINE d == at \div length
<1>2. d \in Nat /\ at < (d + 1) * length
    OBVIOUS
<1> HIDE DEF d
<1>3. q <= d
    <2>1. SUFFICES ASSUME d + 1 <= q PROVE FALSE
        BY <1>2
    <2>2. (d + 1) * length <= q * length
        BY <1>2, <2>1, TimesMonotone
    <2>3. (d + 1) * length \in Nat /\ q * length \in Nat
        BY <1>2
    <2>4. QED
        BY <1>1, <1>2, <2>2, <2>3
<1>4. q * length <= d * length
    BY <1>2, <1>3, TimesMonotone
<1>5. QED
    BY <1>1, <1>4 DEF StartOf, d

\* The starts that Fill goes down through: from s, as long as they are not too early.
Steps(s, from, length) == IF s < from THEN 0 ELSE (s - from) \div length + 1
Downward(s, from, length) == [i \in 1..Steps(s, from, length) |-> s - (i - 1) * length]

LEMMA StepsType ==
    ASSUME NEW s \in Nat, NEW from \in Nat, NEW length \in Nat \ {0}
    PROVE  /\ Steps(s, from, length) \in Nat
           /\ s < from => Steps(s, from, length) = 0
           /\ s >= from => /\ (Steps(s, from, length) - 1) * length <= s - from
                           /\ s - from < Steps(s, from, length) * length
<1>1. CASE s < from
    BY <1>1 DEF Steps
<1>2. CASE s >= from
    <2> DEFINE d == (s - from) \div length
    <2>1. s - from \in Nat
        BY <1>2
    <2>2. d \in Nat /\ d * length <= s - from /\ s - from < (d + 1) * length
        BY <2>1
    <2>3. Steps(s, from, length) = d + 1
        BY <1>2 DEF Steps
    <2> HIDE DEF d
    <2>4. (d + 1) - 1 = d
        BY <2>2
    <2>5. QED
        BY <1>2, <2>2, <2>3, <2>4
<1>3. QED
    BY <1>1, <1>2

LEMMA StepsAre ==
    ASSUME NEW s \in Nat, NEW from \in Nat, NEW length \in Nat \ {0}, s >= from,
           NEW n \in Nat, n * length <= s - from, s - from < (n + 1) * length
    PROVE  Steps(s, from, length) = n + 1
<1>1. s - from \in Nat
    OBVIOUS
<1>2. (s - from) \div length = n
    BY <1>1
<1>3. QED
    BY <1>2 DEF Steps

LEMMA DownwardStep ==
    ASSUME NEW s \in Nat, NEW from \in Nat, NEW length \in Nat \ {0}
    PROVE  Downward(s, from, length) =
             IF s < from THEN <<>>
             ELSE IF s < length THEN <<s>> ELSE <<s>> \o Downward(s - length, from, length)
<1>1. CASE s < from
    <2>1. Steps(s, from, length) = 0 /\ 1..0 = {}
        BY <1>1, StepsType
    <2>2. QED
        BY <1>1, <2>1 DEF Downward
<1>2. CASE s >= from /\ s < length
    <2>1. 0 * length = 0 /\ (0 + 1) * length = length /\ 0 <= s - from /\ s - from < length
        BY <1>2
    <2>2. Steps(s, from, length) = 0 + 1
        BY <1>2, <2>1, StepsAre
    <2>3. s - (1 - 1) * length = s /\ ~(s < from) /\ 1..1 = {1}
        BY <1>2
    <2>4. Downward(s, from, length) = <<s>>
        BY <2>2, <2>3 DEF Downward
    <2>5. QED
        BY <1>2, <2>3, <2>4
<1>3. CASE s >= from /\ s >= length
    <2> DEFINE r == s - length
               n == Steps(r, from, length)
               rest == Downward(r, from, length)
    <2>1. r \in Nat /\ ~(s < from) /\ ~(s < length)
        BY <1>3
    <2>2. n \in Nat
        BY <2>1, StepsType
    <2>3. Steps(s, from, length) = n + 1
        <3>1. CASE r < from
            <4>1. n = 0
                BY <2>1, <3>1, StepsType
            <4>2. 0 * length = 0 /\ (0 + 1) * length = length /\ 0 <= s - from /\ s - from < length
                BY <1>3, <2>1, <3>1
            <4>3. Steps(s, from, length) = 0 + 1
                BY <1>3, <4>2, StepsAre
            <4>4. QED
                BY <4>1, <4>3
        <3>2. CASE r >= from
            <4>1. (n - 1) * length <= r - from /\ r - from < n * length
                BY <2>1, <3>2, StepsType
            <4>2. r = s - length
                OBVIOUS
            <4> HIDE DEF r, n
            <4>3. (n - 1) * length + length = n * length /\ (n + 1) * length = n * length + length
                BY <2>2
            <4>4. n * length \in Nat /\ (n - 1) * length \in Int
                BY <2>2
            <4>5. n * length <= s - from /\ s - from < (n + 1) * length
                BY <2>1, <4>1, <4>2, <4>3, <4>4
            <4>6. QED
                BY <1>3, <2>2, <4>5, StepsAre
        <3>3. QED
            BY <2>1, <3>1, <3>2
    <2>4. rest = [i \in 1..n |-> r - (i - 1) * length]
        BY DEF Downward
    <2>5. r = s - length
        OBVIOUS
    <2>6. Downward(s, from, length) = [i \in 1..(n + 1) |-> s - (i - 1) * length]
        BY <2>3 DEF Downward
    <2> HIDE DEF r, n, rest
    <2>7. \A i \in 1..n: r - (i - 1) * length \in Int
        BY <2>1
    <2>8. rest \in Seq(Int) /\ Len(rest) = n /\ \A i \in 1..n: rest[i] = r - (i - 1) * length
        BY <2>2, <2>4, <2>7
    <2>9. <<s>> \o rest = [i \in 1..(n + 1) |-> IF i = 1 THEN s ELSE rest[i - 1]]
        BY <2>2, <2>8
    <2>10. ASSUME NEW i \in 1..(n + 1)
           PROVE  s - (i - 1) * length = IF i = 1 THEN s ELSE rest[i - 1]
        <3>1. CASE i = 1
            BY <3>1
        <3>2. CASE i # 1
            <4>1. i - 1 \in 1..n
                BY <2>2, <3>2
            <4>2. rest[i - 1] = r - ((i - 1) - 1) * length
                BY <2>8, <4>1
            <4>3. (i - 1) * length = ((i - 1) - 1) * length + length
                BY <4>1
            <4>4. QED
                BY <2>1, <2>5, <3>2, <4>1, <4>2, <4>3
        <3>3. QED
            BY <3>1, <3>2
    <2>11. Downward(s, from, length) = <<s>> \o rest
        BY <2>6, <2>9, <2>10
    <2>12. QED
        BY <2>1, <2>11 DEF rest, r
<1>4. QED
    BY <1>1, <1>2, <1>3

LEMMA StartAtType ==
    ASSUME ViewInv, NEW length \in Nat \ {0}, NEW limit \in Nat \ {0}
    PROVE  /\ StartAt(length, limit) \in Nat
           /\ asked < limit * length \/ asked + 1 - limit * length <= StartAt(length, limit)
           /\ now \in Nat /\ asked \in Nat /\ asked <= now
<1>1. limit * length \in Nat /\ now \in Nat /\ asked \in Nat /\ asked <= now /\ market \in Nat
    BY ViewAssumption DEF ViewInv
<1>2. QED
    BY <1>1 DEF StartAt, Before

LEMMA FillIs ==
    ASSUME ViewInv, NEW length \in Nat \ {0}, NEW limit \in Nat \ {0}
    PROVE  Fill(length, limit) = Downward(StartOf(now, length), StartAt(length, limit), length)
<1> DEFINE from == StartAt(length, limit)
           Down(f, s) == IF s < from THEN <<>>
                         ELSE IF s < length THEN <<s>> ELSE <<s>> \o f[s - length]
           down == CHOOSE f: f = [s \in 0..Horizon |-> Down(f, s)]
           known == [s \in 0..Horizon |-> Downward(s, from, length)]
<1>1. from \in Nat /\ Horizon \in Nat /\ now \in 1..Horizon
    BY StartAtType, ViewAssumption DEF ViewInv
<1>2. Fill(length, limit) = down[StartOf(now, length)]
    BY DEF Fill
<1>3. StartOf(now, length) \in 0..Horizon
    <2>1. now \in Nat /\ now <= Horizon
        BY <1>1
    <2>2. StartOf(now, length) \in Nat /\ StartOf(now, length) <= now
        BY <2>1, StartIs
    <2> HIDE DEF from, down, known
    <2>3. QED
        BY <1>1, <2>1, <2>2
<1> HIDE DEF from
<1>4. \A s \in 0..Horizon: known[s] = Down(known, s)
    <2>1. ASSUME NEW s \in 0..Horizon
          PROVE  known[s] = Down(known, s)
        <3>1. s \in Nat /\ (s >= length => s - length \in 0..Horizon)
            BY <1>1
        <3>2. s >= length => known[s - length] = Downward(s - length, from, length)
            BY <3>1
        <3>3. known[s] = Downward(s, from, length)
            OBVIOUS
        <3> HIDE DEF known
        <3>4. Downward(s, from, length) =
                IF s < from THEN <<>>
                ELSE IF s < length THEN <<s>> ELSE <<s>> \o Downward(s - length, from, length)
            BY <1>1, <3>1, DownwardStep
        <3>5. CASE s < length
            BY <3>3, <3>4, <3>5
        <3>6. CASE s >= length
            BY <3>1, <3>2, <3>3, <3>4, <3>6
        <3>7. QED
            BY <3>1, <3>5, <3>6
    <2>2. QED
        BY <2>1
<1>5. down = [s \in 0..Horizon |-> Down(down, s)]
    <2>1. known = [s \in 0..Horizon |-> known[s]]
        OBVIOUS
    <2> HIDE DEF known
    <2>2. known = [s \in 0..Horizon |-> Down(known, s)]
        BY <1>4, <2>1
    <2>3. QED
        BY <2>2
<1> HIDE DEF down, known
<1> DEFINE Off == {s \in 0..Horizon: down[s] # known[s]}
<1>6. Off = {}
    <2>1. SUFFICES ASSUME Off # {}
                   PROVE  FALSE
        OBVIOUS
    <2>2. PICK s \in Off: \A r \in Off: s <= r
        <3>1. Off \in SUBSET Nat
            OBVIOUS
        <3> HIDE DEF Off
        <3>2. QED
            BY <2>1, <3>1, SmallestExists
    <2>3. s \in 0..Horizon /\ down[s] # known[s]
        BY <2>2
    <2>4. s >= length => down[s - length] = known[s - length]
        <3>1. SUFFICES ASSUME s >= length PROVE s - length \in 0..Horizon /\ ~(s <= s - length)
            BY <2>2
        <3>2. QED
            BY <1>1, <2>3, <3>1
    <2>5. down[s] = Down(down, s) /\ known[s] = Down(known, s)
        BY <1>4, <1>5, <2>3
    <2>6. Down(down, s) = Down(known, s)
        BY <1>1, <2>3, <2>4
    <2>7. QED
        BY <2>3, <2>5, <2>6
<1>7. down[StartOf(now, length)] = known[StartOf(now, length)]
    BY <1>3, <1>6
<1>8. known[StartOf(now, length)] = Downward(StartOf(now, length), from, length)
    BY <1>3 DEF known
<1>9. QED
    BY <1>2, <1>7, <1>8 DEF from

-----------------------------------------------------------------------------
(* The answer to a request for intervals. *)

\* The intervals that began since the start asked for.
Began(length, from) == {s \in 0..now: s % length = 0 /\ s >= from}

LEMMA AscendingOntoIs ==
    ASSUME NEW N \in Nat, NEW S \in SUBSET (0..N), NEW n \in Nat, NEW list \in [1..n -> S],
           \A i, j \in 1..n: i < j => list[i] < list[j],
           \A s \in S: \E i \in 1..n: list[i] = s
    PROVE  Cardinality(S) = n /\ list = Ascending(S)
<1>1. \A i, j \in 1..n: list[i] = list[j] => i = j
    <2>1. ASSUME NEW i \in 1..n, NEW j \in 1..n, list[i] = list[j], i < j
          PROVE  FALSE
        <3>1. list[i] < list[j] /\ list[i] \in 0..N /\ list[j] \in 0..N
            BY <2>1
        <3>2. QED
            BY <2>1, <3>1
    <2>2. QED
        BY <2>1
<1>2. list \in Bijection(1..n, S)
    BY <1>1, Fun_IsBij
<1>3. IsFiniteSet(1..n) /\ Cardinality(1..n) = n
    BY FS_Interval
<1>4. ExistsBijection(1..n, S)
    BY <1>2 DEF ExistsBijection
<1>5. Cardinality(S) = n
    BY <1>3, <1>4, FS_Bijection
<1>6. IsAscending(list, S)
    BY <1>5 DEF IsAscending
<1>7. QED
    BY <1>5, <1>6, AscendingIs

\* Fill finds all of them.
LEMMA FilledIs ==
    ASSUME ViewInv, NEW length \in Nat \ {0}, NEW limit \in Nat \ {0}
    PROVE  Reverse(Fill(length, limit)) = Ascending(Began(length, StartAt(length, limit)))
<1> DEFINE from == StartAt(length, limit)
           newest == StartOf(now, length)
           n == Steps(newest, from, length)
           began == Began(length, from)
           list == [i \in 1..n |-> newest - (n - i) * length]
<1>1. now \in Nat /\ from \in Nat
    BY StartAtType DEF ViewInv
<1>2. /\ newest \in Nat /\ newest <= now /\ newest % length = 0
      /\ \A s \in Nat: s % length = 0 /\ s <= now => s <= newest
    BY <1>1, StartIs, LastMultiple
<1>3. /\ n \in Nat /\ newest < from => n = 0
      /\ newest >= from => (n - 1) * length <= newest - from /\ newest - from < n * length
    BY <1>1, <1>2, StepsType
<1>4. Fill(length, limit) = [i \in 1..n |-> newest - (i - 1) * length]
    BY FillIs DEF Downward
<1>5. began = {s \in 0..now: s % length = 0 /\ s >= from} /\ began \in SUBSET (0..now)
    BY DEF Began
<1> HIDE DEF from, newest, n, began
<1>6. n \in Nat
    BY <1>1, <1>2, StepsType DEF n
<1>7. n # 0 => newest >= from
    BY <1>1, <1>2, StepsType DEF n
<1>8. Reverse(Fill(length, limit)) = list
    <2> DEFINE down == [i \in 1..n |-> newest - (i - 1) * length]
    <2>1. \A i \in 1..n: newest - (i - 1) * length \in Int
        BY <1>2
    <2>2. down \in Seq(Int) /\ Len(down) = n
        BY <1>6, <2>1
    <2>3. \A i \in 1..n: (n - i) + 1 \in 1..n /\ ((n - i) + 1) - 1 = n - i
        BY <1>6
    <2>4. \A i \in 1..n: down[(n - i) + 1] = newest - (n - i) * length
        BY <2>3
    <2> HIDE DEF down
    <2>5. Reverse(down) = [i \in 1..n |-> down[(n - i) + 1]]
        BY <2>2 DEF Reverse
    <2>6. Reverse(down) = list
        BY <2>4, <2>5
    <2>7. QED
        BY <1>4, <2>6 DEF down
<1>9. \A i \in 1..n: list[i] = newest - (n - i) * length
    OBVIOUS
<1>10. PICK q \in Nat: newest = q * length
    BY <1>2, MultipleIs
<1>11. ASSUME NEW i \in 1..n
       PROVE  newest - (n - i) * length \in began
    <2>1. newest >= from /\ (n - 1) * length <= newest - from
        BY <1>3, <1>6, <1>7
    <2>2. n - i \in Nat /\ n - 1 \in Nat /\ n - i <= n - 1
        BY <1>6
    <2>3. (n - i) * length <= (n - 1) * length
        BY <2>2, TimesMonotone
    <2>4. (n - i) * length \in Nat /\ (n - 1) * length \in Nat
        BY <2>2
    <2>5. /\ newest - (n - i) * length \in Nat /\ newest - (n - i) * length >= from
          /\ newest - (n - i) * length <= now
        BY <1>1, <1>2, <2>1, <2>3, <2>4
    <2>6. newest - (n - i) * length = (q - (n - i)) * length /\ q - (n - i) \in Int
        BY <1>10, <2>2
    <2>7. q - (n - i) \in Nat
        <3>1. SUFFICES ASSUME q + 1 <= n - i PROVE FALSE
            BY <2>2, <2>6
        <3>2. (q + 1) * length <= (n - i) * length
            BY <2>2, <3>1, TimesMonotone
        <3>3. (q + 1) * length = newest + length
            BY <1>10
        <3>4. QED
            BY <1>2, <2>4, <2>5, <3>2, <3>3
    <2>8. (newest - (n - i) * length) % length = 0
        <3> DEFINE p == q - (n - i)
                   s == newest - (n - i) * length
        <3>1. p \in Nat /\ s = p * length
            BY <2>6, <2>7
        <3> HIDE DEF p, s
        <3>2. (p * length) % length = 0
            BY <3>1
        <3>3. s % length = 0
            BY <3>1, <3>2
        <3>4. QED
            BY <3>3 DEF s
    <2>9. QED
        BY <1>1, <1>5, <2>5, <2>8
<1>12. ASSUME NEW i \in 1..n, NEW j \in 1..n, i < j
       PROVE  newest - (n - i) * length < newest - (n - j) * length
    <2>1. n - i \in Nat /\ n - j \in Nat /\ (n - j) + 1 <= n - i
        BY <1>6, <1>12
    <2>2. ((n - j) + 1) * length <= (n - i) * length
        BY <2>1, TimesMonotone
    <2>3. /\ ((n - j) + 1) * length = (n - j) * length + length
          /\ (n - j) * length \in Nat /\ (n - i) * length \in Nat
        BY <2>1
    <2>4. QED
        BY <1>2, <2>2, <2>3
<1>13. ASSUME NEW s \in began
       PROVE  \E i \in 1..n: newest - (n - i) * length = s
    <2>1. s \in Nat /\ s % length = 0 /\ s >= from /\ s <= now
        BY <1>1, <1>5
    <2>2. s <= newest /\ newest >= from
        BY <1>1, <1>2, <2>1
    <2>3. PICK p \in Nat: s = p * length
        BY <2>1, MultipleIs
    <2>4. p <= q
        <3>1. SUFFICES ASSUME q + 1 <= p PROVE FALSE
            BY <1>10
        <3>2. (q + 1) * length <= p * length
            BY <1>10, <3>1, TimesMonotone
        <3>3. (q + 1) * length = newest + length
            BY <1>10
        <3>4. QED
            BY <1>2, <2>1, <2>2, <2>3, <3>2, <3>3
    <2> DEFINE m == q - p
    <2>5. m \in Nat /\ newest - m * length = s
        BY <1>10, <2>3, <2>4
    <2> HIDE DEF m
    <2>6. m < n
        <3>1. SUFFICES ASSUME n <= m PROVE FALSE
            BY <1>6, <2>5
        <3>2. n * length <= m * length
            BY <1>6, <2>5, <3>1, TimesMonotone
        <3>3. newest - from < n * length
            BY <1>3, <1>6, <2>2
        <3>4. n * length \in Nat /\ m * length \in Nat
            BY <1>6, <2>5
        <3>5. QED
            BY <1>1, <1>2, <2>1, <2>5, <3>2, <3>3, <3>4
    <2>7. n - m \in 1..n /\ n - (n - m) = m
        BY <1>6, <2>5, <2>6
    <2>8. QED
        BY <2>5, <2>7
<1>14. list \in [1..n -> began]
    BY <1>11
<1> HIDE DEF list
<1>15. /\ \A i, j \in 1..n: i < j => list[i] < list[j]
       /\ \A s \in began: \E i \in 1..n: list[i] = s
    BY <1>9, <1>12, <1>13
<1>16. list = Ascending(began)
    BY <1>1, <1>5, <1>6, <1>14, <1>15, AscendingOntoIs
<1>17. QED
    BY <1>8, <1>16 DEF began, from

\* Those that began up to the moment the clock was read, and those after it.
Timely(length, from) == {s \in Began(length, from): s <= asked}
Late(length, from) == {s \in Began(length, from): s > asked}

\* There are no more of the former than were asked for.
LEMMA TimelyAreFew ==
    ASSUME ViewInv, NEW length \in Nat \ {0}, NEW limit \in Nat \ {0}
    PROVE  Cardinality(Timely(length, StartAt(length, limit))) <= limit
<1> DEFINE from == StartAt(length, limit)
           timely == Timely(length, from)
           q == asked \div length
           f == [s \in timely |-> s \div length]
           lowest == (q + 1) - limit
<1>1. /\ now \in Nat /\ asked \in Nat /\ from \in Nat
      /\ asked < limit * length \/ asked + 1 - limit * length <= from
    BY StartAtType
<1>2. q \in Nat /\ q * length <= asked /\ asked < (q + 1) * length
    BY <1>1
<1>3. \A s \in timely: s \in Nat /\ s <= asked /\ s % length = 0 /\ s >= from
    BY <1>1 DEF Timely, Began
<1> HIDE DEF from, timely, q
<1>4. ASSUME NEW s \in timely
      PROVE  s \div length \in lowest..q /\ s = (s \div length) * length
    <2> DEFINE d == s \div length
    <2>1. s \in Nat /\ d \in Nat /\ s = d * length
        BY <1>3
    <2> HIDE DEF d
    <2>2. d <= q
        <3>1. SUFFICES ASSUME q + 1 <= d PROVE FALSE
            BY <1>2, <2>1
        <3>2. (q + 1) * length <= d * length
            BY <1>2, <2>1, <3>1, TimesMonotone
        <3>3. (q + 1) * length \in Nat
            BY <1>2
        <3>4. QED
            BY <1>1, <1>2, <1>3, <2>1, <3>2, <3>3
    <2>3. lowest <= d
        <3>1. SUFFICES ASSUME d + limit <= q PROVE FALSE
            BY <1>2, <2>1
        <3>2. (d + limit) * length <= q * length
            BY <1>2, <2>1, <3>1, TimesMonotone
        <3>3. /\ (d + limit) * length = s + limit * length
              /\ q * length \in Nat /\ limit * length \in Nat
            BY <1>2, <2>1
        <3>4. s + limit * length <= asked
            BY <1>1, <1>2, <2>1, <3>2, <3>3
        <3>5. QED
            BY <1>1, <1>3, <2>1, <3>3, <3>4
    <2>4. d \in lowest..q
        BY <1>2, <2>1, <2>2, <2>3
    <2>5. QED
        BY <2>1, <2>4 DEF d
<1>5. f \in Injection(timely, lowest..q)
    <2>1. f \in [timely -> lowest..q]
        BY <1>4
    <2>2. ASSUME NEW r \in timely, NEW s \in timely, r \div length = s \div length PROVE r = s
        BY <1>4, <2>2
    <2>3. QED
        BY <2>1, <2>2 DEF Injection, IsInjective
<1>6. lowest \in Int /\ q \in Int /\ ~(lowest > q) /\ q - lowest + 1 = limit
    BY <1>2
<1> HIDE DEF lowest, f
<1>7. IsFiniteSet(lowest..q) /\ Cardinality(lowest..q) = limit
    BY <1>6, FS_Interval
<1>8. Cardinality(timely) <= Cardinality(lowest..q)
    BY <1>5, <1>7, FS_Injection
<1>9. QED
    BY <1>7, <1>8 DEF timely, from

LEMMA BeganAre ==
    ASSUME ViewInv, NEW length \in Nat \ {0}, NEW limit \in Nat \ {0}
    PROVE  LET began == Began(length, StartAt(length, limit))
               late == Late(length, StartAt(length, limit))
           IN  /\ IsFiniteSet(began) /\ Cardinality(began) \in Nat
               /\ Cardinality(late) \in Nat
               /\ Cardinality(began) <= limit + Cardinality(late)
               /\ late = {} => Cardinality(began) <= limit
<1> DEFINE from == StartAt(length, limit)
           began == Began(length, from)
           late == Late(length, from)
           timely == Timely(length, from)
<1>1. now \in Nat /\ asked \in Nat /\ from \in Nat
    BY StartAtType
<1>2. Cardinality(timely) <= limit
    BY TimelyAreFew
<1>3. began \in SUBSET (0..now)
    BY DEF Began
<1>4. timely = {s \in began: s <= asked} /\ late = {s \in began: s > asked}
    BY DEF Timely, Late
<1> HIDE DEF from, began, late, timely
<1>5. began = timely \cup late /\ timely \cap late = {}
    <2>1. \A s \in began: s \in Nat
        BY <1>1, <1>3
    <2>2. \A s \in began: (s <= asked \/ s > asked) /\ ~(s <= asked /\ s > asked)
        BY <1>1, <2>1
    <2>3. \A s: (s \in timely <=> s \in began /\ s <= asked)
                /\ (s \in late <=> s \in began /\ s > asked)
        BY <1>4
    <2>4. QED
        BY <2>2, <2>3
<1>6. timely \in SUBSET (0..now) /\ late \in SUBSET (0..now)
    BY <1>3, <1>4
<1>7. /\ IsFiniteSet(began) /\ Cardinality(began) \in Nat
      /\ IsFiniteSet(timely) /\ Cardinality(timely) \in Nat
      /\ IsFiniteSet(late) /\ Cardinality(late) \in Nat
    BY <1>1, <1>3, <1>6, SizeOf
<1>8. Cardinality({}) = 0
    BY FS_EmptySet
<1>9. Cardinality(began) = Cardinality(timely) + Cardinality(late)
    <2>1. Cardinality(timely \cup late)
            = Cardinality(timely) + Cardinality(late) - Cardinality(timely \cap late)
        BY <1>7, FS_Union
    <2>2. QED
        <3>1. Cardinality(began) = Cardinality(timely) + Cardinality(late) - 0
            BY <1>5, <1>8, <2>1
        <3>2. QED
            BY <1>7, <3>1
<1>10. /\ IsFiniteSet(began) /\ Cardinality(began) \in Nat /\ Cardinality(late) \in Nat
       /\ Cardinality(began) <= limit + Cardinality(late)
       /\ late = {} => Cardinality(began) <= limit
    BY <1>2, <1>7, <1>8, <1>9
<1>11. QED
    BY <1>10 DEF began, late, from

\* The greatest members of a set of numbers, limit of them.
Newest(S, limit) == {s \in S: Cardinality({r \in S: r > s}) < limit}

LEMMA GreatestExists ==
    ASSUME NEW N \in Nat, NEW S \in SUBSET (0..N), S # {}
    PROVE  \E m \in S: \A x \in S: x <= m
<1> DEFINE D == {N - x: x \in S}
<1>1. D \in SUBSET Nat /\ D # {}
    <2>1. \A x \in S: N - x \in Nat
        OBVIOUS
    <2>2. QED
        BY <2>1
<1>2. PICK d \in D: \A y \in D: d <= y
    <2> HIDE DEF D
    <2>1. QED
        BY <1>1, SmallestExists
<1>3. PICK m \in S: \A x \in S: N - m <= N - x
    BY <1>2
<1>4. \A x \in S: x <= m
    BY <1>3
<1>5. QED
    BY <1>4

LEMMA NewestAre ==
    ASSUME NEW N \in Nat, NEW S \in SUBSET (0..N), NEW limit \in Nat \ {0}
    PROVE  /\ Newest(S, limit) \subseteq S
           /\ \A s \in S \ Newest(S, limit): \A r \in Newest(S, limit): s < r
           /\ Cardinality(Newest(S, limit)) # limit => Newest(S, limit) = S
<1> DEFINE Above(s) == {r \in S: r > s}
           top == Newest(S, limit)
<1>1. top = {s \in S: Cardinality(Above(s)) < limit} /\ top \subseteq S
    BY DEF Newest
<1>2. \A s \in S: s \in Nat
    OBVIOUS
<1>3. ASSUME NEW s \in S
      PROVE  IsFiniteSet(Above(s)) /\ Cardinality(Above(s)) \in Nat
    <2>1. Above(s) \in SUBSET (0..N)
        OBVIOUS
    <2> HIDE DEF Above
    <2>2. QED
        BY <2>1, SizeOf
<1>4. ASSUME NEW s \in S \ top, NEW r \in top PROVE s < r
    <2>0. s \in S /\ r \in S /\ s \notin top /\ s \in Nat /\ r \in Nat
        BY <1>1, <1>2, <1>4
    <2>1. SUFFICES ASSUME r <= s PROVE FALSE
        BY <2>0
    <2>2. Above(s) \in SUBSET Above(r)
        <3>1. \A x \in S: x > s => x > r
            BY <1>2, <2>0, <2>1
        <3>2. QED
            BY <3>1
    <2>3. Cardinality(Above(r)) < limit /\ ~(Cardinality(Above(s)) < limit)
        BY <1>1, <1>4, <2>0
    <2> HIDE DEF Above, top
    <2>4. Cardinality(Above(s)) <= Cardinality(Above(r))
        BY <1>3, <2>0, <2>2, FS_Subset
    <2>5. QED
        BY <1>3, <2>0, <2>3, <2>4
<1>5. ASSUME top # S PROVE Cardinality(top) = limit
    <2>1. S \ top # {} /\ S \ top \in SUBSET (0..N)
        BY <1>1, <1>5
    <2>2. PICK m \in S \ top: \A x \in S \ top: x <= m
        BY <2>1, GreatestExists
    <2>3. Above(m) = top
        <3>1. \A r \in top: r \in Above(m)
            BY <1>1, <1>2, <1>4
        <3>2. \A r \in Above(m): r \in top
            BY <1>2, <2>2
        <3>3. QED
            BY <3>1, <3>2
    <2>4. ~(Cardinality(Above(m)) < limit)
        BY <1>1
    <2> HIDE DEF top
    <2>5. IsFiniteSet(top) /\ Cardinality(top) \in Nat /\ Cardinality(top) >= limit
        BY <1>3, <2>3, <2>4
    <2>6. top # {}
        BY <2>5, FS_EmptySet
    <2>7. PICK e \in top: \A x \in top: e <= x
        <3>1. top \in SUBSET Nat
            BY <1>1, <1>2
        <3>2. QED
            BY <2>6, <3>1, SmallestExists
    <2>8. Above(e) = top \ {e}
        <3>1. \A r \in Above(e): r \in top
            <4>1. SUFFICES ASSUME NEW r \in S, r > e, r \notin top PROVE FALSE
                OBVIOUS
            <4>2. r < e
                BY <1>4, <4>1
            <4>3. QED
                BY <1>1, <1>2, <4>1, <4>2
        <3>2. \A r \in top \ {e}: r > e
            BY <1>1, <1>2, <2>7
        <3>3. e \notin Above(e)
            BY <1>1, <1>2
        <3>4. QED
            BY <1>1, <3>1, <3>2, <3>3
    <2>9. Cardinality(Above(e)) = Cardinality(top) - 1 /\ Cardinality(Above(e)) < limit
        <3>1. Cardinality(Above(e)) < limit
            BY <1>1
        <3> HIDE DEF Above
        <3>2. QED
            BY <2>5, <2>8, <3>1, FS_RemoveElement
    <2>10. QED
        BY <2>5, <2>9
<1> HIDE DEF Above
<1>6. QED
    BY <1>1, <1>4, <1>5 DEF top

\* The rows in the window, and the entries read of them.
InWindow(length, from) == {s \in Starts(length): s >= from}

LEMMA RowsBegan ==
    ASSUME ViewInv, NEW length \in Nat \ {0}, NEW from \in Nat
    PROVE  InWindow(length, from) = Began(length, from) \cap Starts(length)
<1>1. ASSUME NEW n \in DOMAIN orders, StartOf(orders[n].at, length) >= from
      PROVE  StartOf(orders[n].at, length) \in Began(length, from)
    <2>1. n \in 1..Len(orders) /\ orders \in Seq(Order) /\ now \in Nat
        BY DEF ViewInv
    <2>2. orders[n].at \in Nat /\ orders[n].at <= now
        BY <2>1, TradeTypes DEF ViewInv
    <2>3. /\ StartOf(orders[n].at, length) \in Nat
          /\ StartOf(orders[n].at, length) <= orders[n].at
          /\ StartOf(orders[n].at, length) % length = 0
        BY <2>2, StartIs
    <2>4. StartOf(orders[n].at, length) <= now
        BY <2>1, <2>2, <2>3
    <2>5. QED
        BY <1>1, <2>1, <2>3, <2>4 DEF Began
<1>2. InWindow(length, from) \subseteq Began(length, from)
    BY <1>1 DEF InWindow, Starts
<1>3. QED
    BY <1>2 DEF InWindow, Began

LEMMA EntriesAre ==
    ASSUME ViewInv, NEW length \in Nat \ {0}, NEW limit \in Nat \ {0}
    PROVE  LET from == StartAt(length, limit)
               entries == Entries(length, limit)
               rows == Began(length, from) \cap Starts(length)
           IN  /\ entries \subseteq rows
               /\ \A s \in rows \ entries: \A r \in entries: s < r
               /\ Cardinality(entries) # limit => entries = rows
<1> DEFINE from == StartAt(length, limit)
           rows == Began(length, from) \cap Starts(length)
<1>1. now \in Nat /\ from \in Nat
    BY StartAtType
<1>2. rows = InWindow(length, from)
    BY <1>1, RowsBegan
<1>3. Entries(length, limit) = Newest(InWindow(length, from), limit)
    BY DEF Entries, InWindow, Newest
<1>4. rows \in SUBSET (0..now)
    BY DEF Began
<1> HIDE DEF rows, from
<1>5. Entries(length, limit) = Newest(rows, limit)
    BY <1>2, <1>3
<1>6. /\ Newest(rows, limit) \subseteq rows
      /\ \A s \in rows \ Newest(rows, limit): \A r \in Newest(rows, limit): s < r
      /\ Cardinality(Newest(rows, limit)) # limit => Newest(rows, limit) = rows
    BY <1>1, <1>4, NewestAre
<1>7. QED
    BY <1>5, <1>6 DEF rows, from

LEMMA RowOfNone ==
    ASSUME ViewInv, NEW start, NEW length, start \notin Starts(length)
    PROVE  Row(start, length) = NewInterval
<1>1. orders \in Seq(Order) /\ Len(orders) \in Nat /\ DOMAIN orders = 1..Len(orders)
    BY DEF ViewInv
<1>2. PICK h: RowAt(h, start, length)
    BY <1>1, RowHasSteps
<1>3. h[0] = NewInterval /\ Row(start, length) = h[Len(orders)]
    BY <1>2 DEF RowAt
<1>4. ASSUME NEW k \in 1..Len(orders)
      PROVE  h[k] = h[k - 1]
    <2>1. StartOf(orders[k].at, length) # start
        BY <1>1 DEF Starts
    <2>2. QED
        BY <1>2, <2>1 DEF RowAt
<1> DEFINE W == {k \in 0..Len(orders): h[k] = NewInterval}
<1>5. 0..Len(orders) \subseteq W
    <2>1. 0 \in W
        BY <1>1, <1>3
    <2>2. ASSUME NEW k \in 1..Len(orders), k - 1 \in W PROVE k \in W
        <3>1. h[k - 1] = NewInterval /\ k \in 0..Len(orders)
            BY <1>1, <2>2
        <3>2. QED
            BY <1>4, <3>1
    <2> HIDE DEF W
    <2>3. QED
        BY <1>1, <2>1, <2>2, Upward
<1>6. QED
    BY <1>1, <1>3, <1>5

\* An answer has every interval that began since the start asked for and none
\* twice, in order and with the row of its trades.  There are no more of them than
\* the limit but for those that began while the request was answered, and if as
\* many rows as the limit were read then, they are all that is shown and no newer
\* one with trades is missing (intervals.go: getQueryParams, the entries and the
\* loop that fills them up).
THEOREM SeriesIsWholeTheorem == Spec => []SeriesIsWhole
<1>1. ASSUME ViewInv, NEW length \in Lengths, NEW ask \in Limits
      PROVE  LET answer == GetIntervals(length, Limit(ask))
                 from == StartAt(length, Limit(ask))
                 began == {s \in 0..now: s % length = 0 /\ s >= from}
                 late == {s \in began: s > asked}
                 shown == {answer[n].start: n \in DOMAIN answer}
             IN  /\ Len(answer) <= Limit(ask) + Cardinality(late)
                 /\ [n \in DOMAIN answer |-> answer[n].start] = Ascending(shown)
                 /\ \/ shown = began
                    \/ /\ late # {} /\ Len(answer) = Limit(ask)
                       /\ shown \subseteq began \cap Starts(length)
                 /\ \A s \in began \cap Starts(length): s \in shown \/ \A r \in shown: s < r
                 /\ \A n \in DOMAIN answer: answer[n].interval = Row(answer[n].start, length)
    <2> DEFINE limit == Limit(ask)
               from == StartAt(length, limit)
               began == Began(length, from)
               late == Late(length, from)
               entries == Entries(length, limit)
               all == IF Cardinality(entries) = limit THEN entries ELSE began
               starts == Ascending(all)
               c == Cardinality(all)
               answer == GetIntervals(length, limit)
               shown == {answer[n].start: n \in DOMAIN answer}
    <2>1. length \in Nat \ {0} /\ limit \in Nat \ {0}
        BY <1>1, ViewAssumption DEF Limit
    <2>2. began = {s \in 0..now: s % length = 0 /\ s >= from} /\ began \in SUBSET (0..now)
        BY DEF Began
    <2>3. late = {s \in began: s > asked}
        BY DEF Late
    <2> HIDE DEF limit
    <2>4. now \in Nat /\ from \in Nat
        BY <1>1, <2>1, StartAtType
    <2>5. /\ IsFiniteSet(began) /\ Cardinality(began) \in Nat /\ Cardinality(late) \in Nat
          /\ Cardinality(began) <= limit + Cardinality(late)
          /\ late = {} => Cardinality(began) <= limit
        BY <1>1, <2>1, BeganAre
    <2>6. Reverse(Fill(length, limit)) = Ascending(began)
        BY <1>1, <2>1, FilledIs
    <2>7. /\ entries \subseteq began \cap Starts(length)
          /\ \A s \in (began \cap Starts(length)) \ entries: \A r \in entries: s < r
          /\ Cardinality(entries) # limit => entries = began \cap Starts(length)
        BY <1>1, <2>1, EntriesAre
    <2>8. starts = IF Cardinality(entries) = limit THEN Ascending(entries)
                   ELSE Reverse(Fill(length, limit))
        BY <2>6
    <2>9. answer = [n \in DOMAIN starts |->
                      [start |-> starts[n], interval |-> Shown(starts[n], length, limit)]]
        BY <2>8 DEF GetIntervals
    <2> HIDE DEF from, began, late, entries, answer
    <2>10. all \in SUBSET (0..now) /\ all \subseteq began
        BY <2>2, <2>7
    <2>11. c <= limit + Cardinality(late) /\ c \in Nat
        <3>1. CASE Cardinality(entries) = limit
            BY <2>1, <2>5, <3>1
        <3>2. CASE Cardinality(entries) # limit
            BY <2>5, <3>2
        <3>3. QED
            BY <3>1, <3>2
    <2>12. \/ all = began
           \/ late # {} /\ c = limit /\ all \subseteq began \cap Starts(length)
        <3>1. CASE Cardinality(entries) # limit
            BY <3>1
        <3>2. CASE Cardinality(entries) = limit /\ late # {}
            BY <2>7, <3>2
        <3>3. CASE Cardinality(entries) = limit /\ late = {}
            <4>1. entries \in SUBSET began /\ Cardinality(began) <= limit
                BY <2>5, <2>7, <3>3
            <4>2. Cardinality(entries) <= Cardinality(began)
                  /\ (Cardinality(began) = Cardinality(entries) => began = entries)
                BY <2>5, <4>1, FS_Subset
            <4>3. entries = began
                BY <2>1, <2>5, <3>3, <4>1, <4>2
            <4>4. QED
                BY <3>3, <4>3
        <3>4. QED
            BY <3>1, <3>2, <3>3
    <2>13. ASSUME NEW s \in began \cap Starts(length), s \notin all
           PROVE  \A r \in all: s < r
        BY <2>7, <2>13
    <2>14. ASSUME NEW s \in all
           PROVE  Shown(s, length, limit) = Row(s, length)
        <3>1. CASE s \in entries
            BY <3>1 DEF Shown, entries
        <3>2. CASE s \notin entries
            <4>1. s \in began /\ entries = began \cap Starts(length)
                BY <2>7, <2>14, <3>2
            <4>2. s \notin Starts(length)
                BY <3>2, <4>1
            <4>3. Row(s, length) = NewInterval
                BY <1>1, <4>2, RowOfNone
            <4>4. QED
                BY <3>2, <4>3 DEF Shown, entries
        <3>3. QED
            BY <3>1, <3>2
    <2> HIDE DEF all
    <2>15. IsAscending(starts, all) /\ \A s \in all: \E n \in 1..c: starts[n] = s
        BY <2>4, <2>10, AscendingIs, AscendingCovers
    <2> HIDE DEF starts
    <2>16. starts \in [1..c -> all]
        BY <2>15 DEF IsAscending
    <2> HIDE DEF c
    <2>17. DOMAIN answer = 1..c /\ DOMAIN starts = 1..c
        BY <2>9, <2>16
    <2>18. \A n \in 1..c: /\ answer[n].start = starts[n]
                          /\ answer[n].interval = Shown(starts[n], length, limit)
        BY <2>9, <2>17
    <2>19. Len(answer) = c
        <3> DEFINE Shows == [start: all, interval: {Shown(s, length, limit): s \in all}]
        <3>1. answer \in [1..c -> Shows]
            BY <2>9, <2>16, <2>17
        <3> HIDE DEF Shows
        <3>2. QED
            BY <2>11, <3>1
    <2>20. starts = [n \in DOMAIN answer |-> answer[n].start]
        <3>1. starts = [n \in 1..c |-> starts[n]]
            BY <2>16
        <3>2. QED
            BY <2>17, <2>18, <3>1
    <2>21. shown = all
        <3>1. \A n \in 1..c: answer[n].start \in all
            BY <2>16, <2>18
        <3>2. \A s \in all: \E n \in 1..c: answer[n].start = s
            BY <2>15, <2>18
        <3>3. QED
            BY <2>17, <3>1, <3>2
    <2> HIDE DEF shown
    <2>22. \A n \in DOMAIN answer: answer[n].interval = Row(answer[n].start, length)
        BY <2>14, <2>16, <2>17, <2>18
    <2>23. starts = Ascending(shown)
        BY <2>21 DEF starts
    <2>24. /\ Len(answer) <= limit + Cardinality(late)
           /\ [n \in DOMAIN answer |-> answer[n].start] = Ascending(shown)
           /\ \/ shown = began
              \/ /\ late # {} /\ Len(answer) = limit
                 /\ shown \subseteq began \cap Starts(length)
           /\ \A s \in began \cap Starts(length): s \in shown \/ \A r \in shown: s < r
           /\ \A n \in DOMAIN answer: answer[n].interval = Row(answer[n].start, length)
        BY <2>11, <2>12, <2>13, <2>19, <2>20, <2>21, <2>22, <2>23
    <2>25. QED
        BY <2>2, <2>3, <2>24 DEF answer, limit, from, shown
<1>2. ASSUME ViewInv PROVE SeriesIsWhole
    BY <1>1, <1>2 DEF SeriesIsWhole
<1>3. QED
    BY <1>2, ViewInvHolds, PTL

-----------------------------------------------------------------------------
(* Rows of several intervals together. *)

LEMMA Regrouped ==
    ASSUME NEW p \in Nat, NEW q \in Nat, NEW x \in Nat, NEW y \in Nat
    PROVE  (p + q) + (x + y) = (p + x) + (q + y)
OBVIOUS

LEMMA SumAdds ==
    ASSUME NEW a \in Seq(Nat), NEW b \in Seq(Nat), NEW both \in Seq(Nat),
           Len(a) = Len(both), Len(b) = Len(both),
           \A k \in 1..Len(both): both[k] = a[k] + b[k]
    PROVE  Sum(both) = Sum(a) + Sum(b) /\ Sum(a) \in Nat /\ Sum(b) \in Nat
<1> DEFINE n == Len(both)
<1>1. PICK ta: SumAt(ta, a)
    BY SumHasSteps
<1>2. PICK tb: SumAt(tb, b)
    BY SumHasSteps
<1>3. PICK t: SumAt(t, both)
    BY SumHasSteps
<1>4. /\ ta \in [0..n -> Nat] /\ ta[0] = 0 /\ Sum(a) = ta[n]
      /\ tb \in [0..n -> Nat] /\ tb[0] = 0 /\ Sum(b) = tb[n]
      /\ t \in [0..n -> Nat] /\ t[0] = 0 /\ Sum(both) = t[n]
    BY <1>1, <1>2, <1>3 DEF SumAt
<1>5. n \in Nat
    OBVIOUS
<1>6. ASSUME NEW k \in 1..n
      PROVE  /\ ta[k] = ta[k - 1] + a[k] /\ tb[k] = tb[k - 1] + b[k]
             /\ t[k] = t[k - 1] + (a[k] + b[k])
             /\ a[k] \in Nat /\ b[k] \in Nat
    <2>1. /\ ta[k] = ta[k - 1] + a[k] /\ tb[k] = tb[k - 1] + b[k]
          /\ t[k] = t[k - 1] + both[k]
        BY <1>1, <1>2, <1>3 DEF SumAt
    <2>2. a[k] \in Nat /\ b[k] \in Nat /\ both[k] = a[k] + b[k]
        OBVIOUS
    <2>3. QED
        BY <2>1, <2>2
<1> HIDE DEF n
<1> DEFINE W == {k \in 0..n: t[k] = ta[k] + tb[k]}
<1>7. 0..n \subseteq W
    <2>1. 0 \in W
        BY <1>4, <1>5
    <2>2. ASSUME NEW k \in 1..n, k - 1 \in W PROVE k \in W
        <3>1. t[k - 1] = ta[k - 1] + tb[k - 1] /\ k \in 0..n /\ k - 1 \in 0..n
            BY <1>5, <2>2
        <3>2. ta[k - 1] \in Nat /\ tb[k - 1] \in Nat
            BY <1>4, <3>1
        <3>3. t[k] = ta[k] + tb[k]
            <4>1. /\ ta[k] = ta[k - 1] + a[k] /\ tb[k] = tb[k - 1] + b[k]
                  /\ t[k] = (ta[k - 1] + tb[k - 1]) + (a[k] + b[k])
                  /\ a[k] \in Nat /\ b[k] \in Nat
                <5>1. /\ ta[k] = ta[k - 1] + a[k] /\ tb[k] = tb[k - 1] + b[k]
                      /\ t[k] = t[k - 1] + (a[k] + b[k])
                      /\ a[k] \in Nat /\ b[k] \in Nat
                    BY <1>6
                <5>2. t[k - 1] = ta[k - 1] + tb[k - 1]
                    BY <3>1
                <5>3. QED
                    BY <5>1, <5>2
            <4>2. PICK p \in Nat, q \in Nat, x \in Nat, y \in Nat:
                    p = ta[k - 1] /\ q = tb[k - 1] /\ x = a[k] /\ y = b[k]
                BY <3>2, <4>1
            <4>3. ta[k] = p + x /\ tb[k] = q + y /\ t[k] = (p + q) + (x + y)
                BY <4>1, <4>2
            <4>4. (p + q) + (x + y) = (p + x) + (q + y)
                BY Regrouped
            <4>5. QED
                BY <4>3, <4>4
        <3>4. QED
            BY <3>1, <3>3
    <2> HIDE DEF W
    <2>3. QED
        BY <1>5, <2>1, <2>2, Upward
<1>8. t[n] = ta[n] + tb[n] /\ ta[n] \in Nat /\ tb[n] \in Nat
    BY <1>4, <1>5, <1>7
<1>9. QED
    BY <1>4, <1>8

LEMMA SumOfTwo ==
    ASSUME ViewInv, NEW one, NEW two, one \cap two = {}
    PROVE  /\ Sum(AmountsOf(one \cup two)) = Sum(AmountsOf(one)) + Sum(AmountsOf(two))
           /\ Sum(QuotesOf(one \cup two)) = Sum(QuotesOf(one)) + Sum(QuotesOf(two))
<1>1. \A n \in 1..Len(orders): orders[n].amount \in Nat /\ orders[n].quote \in Nat
    BY TradeTypes DEF ViewInv
<1>2. \A n \in 1..Len(orders):
        /\ AmountsOf(one \cup two)[n] = AmountsOf(one)[n] + AmountsOf(two)[n]
        /\ QuotesOf(one \cup two)[n] = QuotesOf(one)[n] + QuotesOf(two)[n]
    <2>1. ASSUME NEW n \in 1..Len(orders)
          PROVE  /\ AmountsOf(one \cup two)[n] = AmountsOf(one)[n] + AmountsOf(two)[n]
                 /\ QuotesOf(one \cup two)[n] = QuotesOf(one)[n] + QuotesOf(two)[n]
        <3>1. \A own: /\ AmountsOf(own)[n] = IF n \in own THEN orders[n].amount ELSE 0
                      /\ QuotesOf(own)[n] = IF n \in own THEN orders[n].quote ELSE 0
            BY NumbersOf
        <3>2. ~(n \in one /\ n \in two) /\ (n \in one \cup two <=> (n \in one \/ n \in two))
            OBVIOUS
        <3>3. QED
            BY <1>1, <3>1, <3>2
    <2>2. QED
        BY <2>1
<1>3. \A own: /\ AmountsOf(own) \in Seq(Nat) /\ Len(AmountsOf(own)) = Len(orders)
              /\ QuotesOf(own) \in Seq(Nat) /\ Len(QuotesOf(own)) = Len(orders)
    BY NumbersOf
<1>4. Sum(AmountsOf(one \cup two)) = Sum(AmountsOf(one)) + Sum(AmountsOf(two))
    <2> DEFINE a == AmountsOf(one)
               b == AmountsOf(two)
               both == AmountsOf(one \cup two)
    <2>1. /\ a \in Seq(Nat) /\ b \in Seq(Nat) /\ both \in Seq(Nat)
          /\ Len(a) = Len(both) /\ Len(b) = Len(both)
          /\ \A k \in 1..Len(both): both[k] = a[k] + b[k]
        BY <1>2, <1>3
    <2> HIDE DEF a, b, both
    <2>2. Sum(both) = Sum(a) + Sum(b)
        BY <2>1, SumAdds
    <2>3. QED
        BY <2>2 DEF a, b, both
<1>5. Sum(QuotesOf(one \cup two)) = Sum(QuotesOf(one)) + Sum(QuotesOf(two))
    <2> DEFINE a == QuotesOf(one)
               b == QuotesOf(two)
               both == QuotesOf(one \cup two)
    <2>1. /\ a \in Seq(Nat) /\ b \in Seq(Nat) /\ both \in Seq(Nat)
          /\ Len(a) = Len(both) /\ Len(b) = Len(both)
          /\ \A k \in 1..Len(both): both[k] = a[k] + b[k]
        BY <1>2, <1>3
    <2> HIDE DEF a, b, both
    <2>2. Sum(both) = Sum(a) + Sum(b)
        BY <2>1, SumAdds
    <2>3. QED
        BY <2>2 DEF a, b, both
<1>6. QED
    BY <1>4, <1>5

LEMMA SumsTypes ==
    ASSUME ViewInv, NEW own
    PROVE  Sum(AmountsOf(own)) \in Nat /\ Sum(QuotesOf(own)) \in Nat
<1>1. \A numbers \in Seq(Nat): Sum(numbers) \in Nat
    <2>1. ASSUME NEW numbers \in Seq(Nat)
          PROVE  Sum(numbers) \in Nat
        <3>1. PICK t: SumAt(t, numbers)
            BY SumHasSteps
        <3>2. t \in [0..Len(numbers) -> Nat] /\ Sum(numbers) = t[Len(numbers)]
              /\ Len(numbers) \in 0..Len(numbers)
            BY <3>1 DEF SumAt
        <3>3. QED
            BY <3>2
    <2>2. QED
        BY <2>1
<1>2. QED
    BY <1>1, NumbersOf

LEMMA SumsOfNone ==
    ASSUME ViewInv
    PROVE  Sum(AmountsOf({})) = 0 /\ Sum(QuotesOf({})) = 0
<1>1. ASSUME NEW none, none = {}
      PROVE  Sum(AmountsOf(none)) = 0 /\ Sum(QuotesOf(none)) = 0
    <2>1. none \cap none = {} /\ none \cup none = none
        BY <1>1
    <2> HIDE <1>1
    <2>2. /\ Sum(AmountsOf(none)) = Sum(AmountsOf(none)) + Sum(AmountsOf(none))
          /\ Sum(QuotesOf(none)) = Sum(QuotesOf(none)) + Sum(QuotesOf(none))
        BY <2>1, SumOfTwo
    <2>3. Sum(AmountsOf(none)) \in Nat /\ Sum(QuotesOf(none)) \in Nat
        BY SumsTypes
    <2> DEFINE a == Sum(AmountsOf(none))
               q == Sum(QuotesOf(none))
    <2>4. a = a + a /\ q = q + q /\ a \in Nat /\ q \in Nat
        BY <2>2, <2>3
    <2> HIDE DEF a, q
    <2>5. a = 0 /\ q = 0
        BY <2>4
    <2>6. QED
        BY <2>5 DEF a, q
<1>2. QED
    BY <1>1

\* The trades of some intervals, and of the first ones of a list of them.
TradesIn(starts, length) == {n \in 1..Len(orders): StartOf(orders[n].at, length) \in starts}
FirstParts(starts, k) == {Ascending(starts)[j]: j \in 1..k}

LEMMA PartsAre ==
    ASSUME ViewInv, NEW length \in Nat \ {0}, NEW starts \in SUBSET Starts(length)
    PROVE  /\ Cardinality(starts) \in Nat /\ (starts = {} <=> Cardinality(starts) = 0)
           /\ starts \in SUBSET (0..now)
           /\ Ascending(starts) \in [1..Cardinality(starts) -> starts]
           /\ \A i, j \in 1..Cardinality(starts): i < j
                 => Ascending(starts)[i] < Ascending(starts)[j]
           /\ \A s \in starts: \E j \in 1..Cardinality(starts): Ascending(starts)[j] = s
<1>1. now \in Nat /\ orders \in Seq(Order) /\ DOMAIN orders = 1..Len(orders)
    BY DEF ViewInv
<1>2. starts \in SUBSET (0..now)
    <2>1. ASSUME NEW n \in 1..Len(orders)
          PROVE  StartOf(orders[n].at, length) \in 0..now
        <3>1. orders[n].at \in Nat /\ orders[n].at <= now
            BY <1>1, TradeTypes DEF ViewInv
        <3>2. StartOf(orders[n].at, length) \in Nat /\ StartOf(orders[n].at, length) <= orders[n].at
            BY <3>1, StartIs
        <3>3. QED
            BY <1>1, <3>1, <3>2
    <2>2. QED
        BY <1>1, <2>1 DEF Starts
<1>3. IsFiniteSet(starts) /\ Cardinality(starts) \in Nat
      /\ (starts = {} <=> Cardinality(starts) = 0)
    BY <1>1, <1>2, SizeOf, FS_EmptySet
<1>4. IsAscending(Ascending(starts), starts)
    BY <1>1, <1>2, AscendingIs
<1>5. \A s \in starts: \E j \in 1..Cardinality(starts): Ascending(starts)[j] = s
    BY <1>1, <1>2, AscendingCovers
<1>6. QED
    BY <1>2, <1>3, <1>4, <1>5 DEF IsAscending

LEMMA FirstPartsGrow ==
    ASSUME ViewInv, NEW length \in Nat \ {0}, NEW starts \in SUBSET Starts(length),
           NEW k \in 1..Cardinality(starts)
    PROVE  LET part == Among(Len(orders), Ascending(starts)[k], length)
               before == TradesIn(FirstParts(starts, k - 1), length)
           IN  /\ TradesIn(FirstParts(starts, k), length) = before \cup part
               /\ before \cap part = {} /\ part # {}
<1> DEFINE c == Cardinality(starts)
           list == Ascending(starts)
<1>1. /\ c \in Nat /\ list \in [1..c -> starts] /\ starts \in SUBSET (0..now)
      /\ \A i, j \in 1..c: i < j => list[i] < list[j]
    BY PartsAre
<1>2. k \in 1..c /\ list[k] \in starts
    BY <1>1
<1>3. 1..k = (1..(k - 1)) \cup {k}
    BY <1>1
<1>4. FirstParts(starts, k) = {list[j]: j \in 1..k}
      /\ FirstParts(starts, k - 1) = {list[j]: j \in 1..(k - 1)}
    BY DEF FirstParts
<1> HIDE DEF c, list
<1>5. FirstParts(starts, k) = FirstParts(starts, k - 1) \cup {list[k]}
    BY <1>3, <1>4
<1>6. list[k] \notin FirstParts(starts, k - 1)
    <2>1. ASSUME NEW j \in 1..(k - 1), list[j] = list[k] PROVE FALSE
        <3>1. j \in 1..c /\ j < k
            BY <1>1, <1>2
        <3>2. list[j] < list[k] /\ list[k] \in 0..now
            BY <1>1, <1>2, <3>1
        <3>3. list[k] \in Int
            BY <3>2
        <3>4. QED
            BY <2>1, <3>2, <3>3
    <2>2. QED
        BY <1>4, <2>1
<1>7. Among(Len(orders), list[k], length) = TradesIn({list[k]}, length)
    BY DEF Among, TradesIn
<1>8. Among(Len(orders), list[k], length) # {}
    <2>1. list[k] \in Starts(length) /\ DOMAIN orders = 1..Len(orders)
        BY <1>2 DEF ViewInv
    <2>2. QED
        BY <2>1 DEF Starts, Among
<1>9. QED
    BY <1>5, <1>6, <1>7, <1>8 DEF TradesIn, list

LEMMA AllParts ==
    ASSUME ViewInv, NEW length \in Nat \ {0}, NEW starts \in SUBSET Starts(length)
    PROVE  /\ TradesIn(FirstParts(starts, 0), length) = {}
           /\ TradesIn(FirstParts(starts, Cardinality(starts)), length) = TradesIn(starts, length)
<1>1. FirstParts(starts, 0) = {}
    BY DEF FirstParts
<1>2. FirstParts(starts, Cardinality(starts)) = starts
    BY PartsAre DEF FirstParts
<1>3. QED
    BY <1>1, <1>2 DEF TradesIn

\* Trades of an earlier interval are earlier trades.
LEMMA EarlierTrades ==
    ASSUME ViewInv, NEW length \in Nat \ {0}, NEW n \in 1..Len(orders), NEW m \in 1..Len(orders),
           StartOf(orders[n].at, length) < StartOf(orders[m].at, length)
    PROVE  n < m /\ orders[n].at < orders[m].at
<1>1. orders[n].at \in Nat /\ orders[m].at \in Nat
    BY TradeTypes DEF ViewInv
<1>2. orders[n].at < orders[m].at
    <2>1. SUFFICES ASSUME orders[m].at <= orders[n].at PROVE FALSE
        BY <1>1
    <2>2. /\ StartOf(orders[m].at, length) \in Nat /\ StartOf(orders[n].at, length) \in Nat
          /\ StartOf(orders[m].at, length) % length = 0
                /\ StartOf(orders[m].at, length) <= orders[m].at
        BY <1>1, StartIs
    <2>3. StartOf(orders[m].at, length) <= orders[n].at
        BY <1>1, <2>1, <2>2
    <2>4. StartOf(orders[m].at, length) <= StartOf(orders[n].at, length)
        BY <1>1, <2>2, <2>3, LastMultiple
    <2>5. QED
        BY <2>2, <2>4
<1>3. m <= n => orders[m].at <= orders[n].at
    BY DEF ViewInv
<1>4. QED
    BY <1>1, <1>2, <1>3

\* The first of the rows has the open of all their trades, the last one the close.
LEMMA PartsOpenAndClose ==
    ASSUME ViewInv, NEW length \in Nat \ {0}, NEW starts \in SUBSET Starts(length), starts # {}
    PROVE  /\ Opened(Row(Ascending(starts)[1], length), TradesIn(starts, length))
           /\ Closed(Row(Ascending(starts)[Cardinality(starts)], length), TradesIn(starts, length))
<1> DEFINE c == Cardinality(starts)
           list == Ascending(starts)
           all == TradesIn(starts, length)
           Part(j) == Among(Len(orders), list[j], length)
<1>1. /\ c \in Nat /\ c # 0 /\ list \in [1..c -> starts] /\ starts \in SUBSET (0..now)
      /\ \A i, j \in 1..c: i < j => list[i] < list[j]
      /\ \A s \in starts: \E j \in 1..c: list[j] = s
    BY PartsAre
<1>2. 1 \in 1..c /\ c \in 1..c
    BY <1>1
<1>3. ASSUME NEW j \in 1..c
      PROVE  /\ Part(j) \subseteq all /\ Part(j) \subseteq 1..Len(orders)
             /\ \A n \in Part(j): StartOf(orders[n].at, length) = list[j]
             /\ Opened(Row(list[j], length), Part(j)) /\ Closed(Row(list[j], length), Part(j))
    <2>1. list[j] \in starts
        BY <1>1
    <2>2. Part(j) # {}
        BY FirstPartsGrow
    <2>3. Priced(Row(list[j], length), Part(j))
        BY RowIsPriced
    <2>4. Part(j) \subseteq all /\ Part(j) \subseteq 1..Len(orders)
          /\ \A n \in Part(j): StartOf(orders[n].at, length) = list[j]
        BY <2>1 DEF TradesIn, Among
    <2> HIDE DEF all, Part, list, c
    <2>5. Opened(Row(list[j], length), Part(j)) /\ Closed(Row(list[j], length), Part(j))
        BY <2>2, <2>3 DEF Priced
    <2>6. QED
        BY <2>4, <2>5
<1>4. ASSUME NEW m \in all
      PROVE  \E j \in 1..c: m \in Part(j) /\ m \in 1..Len(orders)
    <2>1. m \in 1..Len(orders) /\ StartOf(orders[m].at, length) \in starts
        BY DEF TradesIn
    <2>2. QED
        BY <1>1, <2>1 DEF Among
<1>5. ASSUME NEW i \in 1..c, NEW j \in 1..c, i < j, NEW n \in Part(i), NEW m \in Part(j)
      PROVE  n < m /\ orders[n].at < orders[m].at
    <2>1. /\ n \in 1..Len(orders) /\ m \in 1..Len(orders)
          /\ StartOf(orders[n].at, length) = list[i] /\ StartOf(orders[m].at, length) = list[j]
        BY <1>3
    <2>2. StartOf(orders[n].at, length) < StartOf(orders[m].at, length)
        BY <1>1, <1>5, <2>1
    <2>3. QED
        BY <2>1, <2>2, EarlierTrades
<1> HIDE DEF c, list, all, Part
<1>6. Opened(Row(list[1], length), all)
    <2> DEFINE row == Row(list[1], length)
    <2>1. Opened(row, Part(1)) /\ Part(1) \subseteq all /\ Part(1) \subseteq 1..Len(orders)
        BY <1>2, <1>3
    <2> HIDE DEF row
    <2>2. PICK n \in Part(1): /\ row.open = orders[n].price /\ row.lowestExecutedAt = orders[n].at
                              /\ \A j \in Part(1): n <= j
        BY <2>1 DEF Opened
    <2>3. ASSUME NEW m \in all PROVE n <= m
        <3>1. PICK j \in 1..c: m \in Part(j) /\ m \in 1..Len(orders)
            BY <1>4
        <3>2. CASE j = 1
            BY <2>2, <3>1, <3>2
        <3>3. CASE j # 1
            <4>1. 1 < j
                BY <1>1, <3>3
            <4>2. n < m
                BY <1>2, <1>5, <3>1, <4>1
            <4>3. n \in 1..Len(orders)
                BY <2>1
            <4>4. QED
                BY <3>1, <4>2, <4>3
        <3>4. QED
            BY <3>2, <3>3
    <2>4. Opened(row, all)
        BY <2>1, <2>2, <2>3 DEF Opened
    <2>5. QED
        BY <2>4 DEF row
<1>7. Closed(Row(list[c], length), all)
    <2> DEFINE row == Row(list[c], length)
    <2>1. Closed(row, Part(c)) /\ Part(c) \subseteq all /\ Part(c) \subseteq 1..Len(orders)
        BY <1>2, <1>3
    <2> HIDE DEF row
    <2>2. PICK n \in Part(c): /\ row.close = orders[n].price /\ row.highestExecutedAt = orders[n].at
                              /\ \A j \in Part(c): /\ orders[j].at <= orders[n].at
                                                   /\ orders[j].at = orders[n].at => n <= j
        BY <2>1 DEF Closed
    <2>3. ASSUME NEW m \in all
          PROVE  orders[m].at <= orders[n].at /\ (orders[m].at = orders[n].at => n <= m)
        <3>1. PICK j \in 1..c: m \in Part(j) /\ m \in 1..Len(orders)
            BY <1>4
        <3>2. CASE j = c
            BY <2>2, <3>1, <3>2
        <3>3. CASE j # c
            <4>1. j < c
                BY <1>1, <3>3
            <4>2. orders[m].at < orders[n].at
                BY <1>2, <1>5, <3>1, <4>1
            <4>3. orders[m].at \in Nat /\ orders[n].at \in Nat
                BY <2>1, <3>1, TradeTypes DEF ViewInv
            <4>4. QED
                BY <4>2, <4>3
        <3>4. QED
            BY <3>2, <3>3
    <2>4. Closed(row, all)
        BY <2>1, <2>2, <2>3 DEF Closed
    <2>5. QED
        BY <2>4 DEF row
<1>8. QED
    BY <1>6, <1>7 DEF list, all, c

LEMMA PartIs ==
    ASSUME ViewInv, NEW length \in Nat \ {0}, NEW starts \in SUBSET Starts(length),
           NEW k \in 1..Cardinality(starts)
    PROVE  LET part == Among(Len(orders), Ascending(starts)[k], length)
               row == Row(Ascending(starts)[k], length)
           IN  /\ part # {} /\ part \subseteq TradesIn(starts, length)
               /\ row \in Interval /\ Lowest(row, part) /\ Highest(row, part)
               /\ NoneForFree => /\ row.base = Sum(AmountsOf(part))
                                 /\ row.quote = Sum(QuotesOf(part))
<1> DEFINE s == Ascending(starts)[k]
           part == Among(Len(orders), s, length)
           row == Row(s, length)
<1>1. s \in starts
    BY PartsAre
<1>2. part # {}
    BY FirstPartsGrow
<1>3. part \subseteq TradesIn(starts, length)
    BY <1>1 DEF Among, TradesIn
<1> HIDE DEF s
<1>4. row \in Interval
    <2>1. orders \in Seq(Order) /\ Len(orders) \in Nat
        BY DEF ViewInv
    <2>2. PICK h: RowAt(h, s, length)
        BY <2>1, RowHasSteps
    <2>3. h \in [0..Len(orders) -> Interval] /\ Row(s, length) = h[Len(orders)]
        BY <2>2 DEF RowAt
    <2>4. Len(orders) \in 0..Len(orders)
        BY <2>1
    <2>5. QED
        BY <2>3, <2>4
<1>5. Priced(row, part)
    BY RowIsPriced
<1>6. NoneForFree => Summed(row, part, Sum(AmountsOf(part)), Sum(QuotesOf(part)))
    BY RowIsSummed
<1> HIDE DEF part, row
<1>7. Lowest(row, part) /\ Highest(row, part)
    BY <1>2, <1>5 DEF Priced
<1>8. NoneForFree => row.base = Sum(AmountsOf(part)) /\ row.quote = Sum(QuotesOf(part))
    BY <1>6 DEF Summed
<1>9. QED
    BY <1>2, <1>3, <1>4, <1>7, <1>8 DEF s, part, row

LEMMA PartsSum ==
    ASSUME ViewInv, NoneForFree, NEW length \in Nat \ {0}, NEW starts \in SUBSET Starts(length)
    PROVE  Sum([j \in 1..Cardinality(starts) |-> Row(Ascending(starts)[j], length).base])
             = Sum(AmountsOf(TradesIn(starts, length)))
<1> DEFINE c == Cardinality(starts)
           bases == [j \in 1..c |-> Row(Ascending(starts)[j], length).base]
           Upto(k) == Sum(AmountsOf(TradesIn(FirstParts(starts, k), length)))
<1>1. c \in Nat
    BY PartsAre
<1>2. ASSUME NEW k \in 1..c
      PROVE  bases[k] \in Nat /\ Upto(k) = Upto(k - 1) + bases[k]
    <2> DEFINE part == Among(Len(orders), Ascending(starts)[k], length)
               before == TradesIn(FirstParts(starts, k - 1), length)
    <2>1. TradesIn(FirstParts(starts, k), length) = before \cup part /\ before \cap part = {}
        BY FirstPartsGrow
    <2>2. bases[k] = Sum(AmountsOf(part))
        BY PartIs
    <2> HIDE DEF part, before, bases
    <2>3. Upto(k) = Sum(AmountsOf(before)) + Sum(AmountsOf(part))
        BY <2>1, SumOfTwo
    <2>4. bases[k] \in Nat
        BY <2>2, SumsTypes
    <2>5. QED
        BY <2>2, <2>3, <2>4 DEF before
<1>3. Upto(0) = 0
    BY AllParts, SumsOfNone
<1>4. Upto(c) = Sum(AmountsOf(TradesIn(starts, length)))
    BY AllParts
<1>5. DOMAIN bases = 1..c /\ bases = [j \in 1..c |-> bases[j]]
    OBVIOUS
<1> HIDE DEF bases, c, Upto
<1>6. bases \in Seq(Nat) /\ Len(bases) = c
    <2>1. bases \in [1..c -> Nat]
        BY <1>2, <1>5
    <2>2. QED
        BY <1>1, <2>1
<1>7. PICK t: SumAt(t, bases)
    BY <1>6, SumHasSteps
<1>8. /\ t[0] = 0 /\ Sum(bases) = t[c]
      /\ \A k \in 1..c: t[k] = t[k - 1] + bases[k]
    BY <1>6, <1>7 DEF SumAt
<1> DEFINE W == {k \in 0..c: t[k] = Upto(k)}
<1>9. 0..c \subseteq W
    <2>1. 0 \in W
        BY <1>1, <1>3, <1>8
    <2>2. ASSUME NEW k \in 1..c, k - 1 \in W PROVE k \in W
        <3>1. t[k - 1] = Upto(k - 1) /\ k \in 0..c
            BY <1>1, <2>2
        <3>2. t[k] = Upto(k)
            BY <1>2, <1>8, <3>1
        <3>3. QED
            BY <3>1, <3>2
    <2> HIDE DEF W
    <2>3. QED
        BY <1>1, <2>1, <2>2, Upward
<1>10. t[c] = Upto(c)
    BY <1>1, <1>9
<1>11. QED
    BY <1>4, <1>8, <1>10 DEF bases, c

LEMMA SameOpen ==
    ASSUME NEW one, NEW two, NEW own \in SUBSET Nat, Opened(one, own), Opened(two, own)
    PROVE  one.open = two.open
<1>1. PICK n \in own: one.open = orders[n].price /\ \A j \in own: n <= j
    BY DEF Opened
<1>2. PICK m \in own: two.open = orders[m].price /\ \A j \in own: m <= j
    BY DEF Opened
<1>3. n \in Nat /\ m \in Nat /\ n <= m /\ m <= n
    BY <1>1, <1>2
<1>4. n = m
    BY <1>3
<1>5. QED
    BY <1>1, <1>2, <1>4

LEMMA SameClose ==
    ASSUME ViewInv, NEW one, NEW two, NEW own \in SUBSET (1..Len(orders)),
           Closed(one, own), Closed(two, own)
    PROVE  one.close = two.close
<1>1. PICK n \in own: /\ one.close = orders[n].price
                      /\ \A j \in own: /\ orders[j].at <= orders[n].at
                                       /\ orders[j].at = orders[n].at => n <= j
    BY DEF Closed
<1>2. PICK m \in own: /\ two.close = orders[m].price
                      /\ \A j \in own: /\ orders[j].at <= orders[m].at
                                       /\ orders[j].at = orders[m].at => m <= j
    BY DEF Closed
<1>3. n \in 1..Len(orders) /\ m \in 1..Len(orders)
    OBVIOUS
<1>4. orders[n].at \in Nat /\ orders[m].at \in Nat
    BY <1>3, TradeTypes DEF ViewInv
<1>5. orders[n].at = orders[m].at
    BY <1>1, <1>2, <1>4
<1>6. n = m
    <2>1. n <= m /\ m <= n /\ n \in Nat /\ m \in Nat
        BY <1>1, <1>2, <1>3, <1>5
    <2>2. QED
        BY <2>1
<1>7. QED
    BY <1>1, <1>2, <1>6

\* An interval and the shorter ones in it have the same trades.
LEMMA SameTrades ==
    ASSUME ViewInv, NEW long \in Nat \ {0}, NEW short \in Nat \ {0}, long % short = 0,
           NEW s \in Starts(long)
    PROVE  LET within == {r \in Starts(short): s <= r /\ r < s + long}
           IN  Among(Len(orders), s, long) = TradesIn(within, short)
<1>1. orders \in Seq(Order) /\ DOMAIN orders = 1..Len(orders)
    BY DEF ViewInv
<1>2. \A n \in 1..Len(orders): orders[n].at \in Nat
    BY <1>1, TradeTypes
<1>3. s \in Nat /\ s % long = 0
    <2>1. PICK n \in 1..Len(orders): s = StartOf(orders[n].at, long)
        BY <1>1 DEF Starts
    <2>2. QED
        BY <1>2, <2>1, StartIs
<1>4. PICK k \in Nat: long = k * short
    BY MultipleIs
<1>5. PICK q \in Nat: s = q * long
    BY <1>3, MultipleIs
<1>6. s = (q * k) * short /\ q * k \in Nat
    BY <1>4, <1>5
<1>7. s % short = 0 /\ s + long = (q * k + k) * short
    <2> DEFINE p == q * k
    <2>1. p \in Nat /\ s = p * short
        BY <1>6
    <2> HIDE DEF p
    <2>2. (p * short) % short = 0 /\ (p + k) * short = p * short + k * short
        BY <2>1
    <2>3. s % short = 0
        BY <2>1, <2>2
    <2>4. s + long = (p + k) * short
        BY <1>4, <2>1, <2>2
    <2>5. QED
        BY <2>3, <2>4 DEF p
<1>8. ASSUME NEW n \in 1..Len(orders)
      PROVE  StartOf(orders[n].at, long) = s
               <=> s <= StartOf(orders[n].at, short) /\ StartOf(orders[n].at, short) < s + long
    <2> DEFINE at == orders[n].at
               part == StartOf(at, short)
               whole == StartOf(at, long)
    <2>1. at \in Nat
        BY <1>2
    <2> HIDE DEF at
    <2>2. /\ part \in Nat /\ part <= at /\ at < part + short /\ part % short = 0
          /\ whole \in Nat /\ whole <= at /\ at < whole + long /\ whole % long = 0
        BY <2>1, StartIs
    <2>3. (s <= at => s <= part) /\ (s <= at => s <= whole)
        BY <1>3, <1>7, <2>1, LastMultiple
    <2> HIDE DEF part, whole
    <2>4. ASSUME whole = s PROVE s <= part /\ part < s + long
        BY <1>3, <2>1, <2>2, <2>3, <2>4
    <2>5. ASSUME s <= part, part < s + long PROVE whole = s
        <3>1. part + short <= s + long
            <4>1. PICK m \in Nat: part = m * short
                BY <2>2, MultipleIs
            <4> DEFINE e == q * k + k
            <4>2. e \in Nat /\ s + long = e * short
                BY <1>6, <1>7
            <4> HIDE DEF e
            <4>3. m < e
                <5>1. SUFFICES ASSUME e <= m PROVE FALSE
                    BY <4>1, <4>2
                <5>2. e * short <= m * short
                    BY <4>1, <4>2, <5>1, TimesMonotone
                <5>3. QED
                    BY <1>3, <2>2, <2>5, <4>1, <4>2, <5>2
            <4>4. (m + 1) * short <= e * short
                BY <4>1, <4>2, <4>3, TimesMonotone
            <4>5. (m + 1) * short = m * short + short
                BY <4>1
            <4>6. QED
                BY <4>1, <4>2, <4>4, <4>5
        <3>2. s <= at /\ at < s + long
            BY <1>3, <2>1, <2>2, <2>5, <3>1
        <3>3. s <= whole
            BY <2>3, <3>2
        <3>4. PICK w \in Nat: whole = w * long
            BY <2>2, MultipleIs
        <3>5. w <= q
            <4>1. SUFFICES ASSUME q + 1 <= w PROVE FALSE
                BY <1>5, <3>4
            <4>2. (q + 1) * long <= w * long
                BY <1>5, <3>4, <4>1, TimesMonotone
            <4>3. (q + 1) * long = s + long
                BY <1>5
            <4>4. QED
                BY <1>3, <2>1, <2>2, <3>2, <3>4, <4>2, <4>3
        <3>6. w * long <= q * long
            BY <1>5, <3>4, <3>5, TimesMonotone
        <3>7. QED
            BY <1>3, <1>5, <2>2, <3>3, <3>4, <3>6
    <2>6. QED
        BY <2>4, <2>5 DEF part, whole, at
<1>9. \A n \in 1..Len(orders): StartOf(orders[n].at, short) \in Starts(short)
    BY <1>1 DEF Starts
<1>10. QED
    BY <1>8, <1>9 DEF Among, TradesIn

\* When no trade's quote amount is nothing (NoneForFree), a long interval says
\* what the short ones in it say together (Interval.AddOrder, on rows that have
\* been aggregated apart from each other).
THEOREM LengthsAgreeTheorem == ASSUME NoneForFree PROVE Spec => []LengthsAgree
<1>1. ASSUME ViewInv, NEW long \in Lengths, NEW short \in Lengths, long % short = 0,
             NEW s \in Starts(long)
      PROVE  LET parts == Ascending({r \in Starts(short): s <= r /\ r < s + long})
                 row(n) == Row(parts[n], short)
             IN  /\ parts # <<>>
                 /\ Row(s, long).open = row(1).open
                 /\ Row(s, long).close = row(Len(parts)).close
                 /\ Row(s, long).high = Max({row(n).high: n \in DOMAIN parts})
                 /\ Row(s, long).low = Min({row(n).low: n \in DOMAIN parts})
                 /\ Row(s, long).base = Sum([n \in DOMAIN parts |-> row(n).base])
    <2> DEFINE within == {r \in Starts(short): s <= r /\ r < s + long}
               parts == Ascending(within)
               c == Cardinality(within)
               own == Among(Len(orders), s, long)
               whole == Row(s, long)
               row(n) == Row(parts[n], short)
               Part(n) == Among(Len(orders), parts[n], short)
    <2>1. long \in Nat \ {0} /\ short \in Nat \ {0}
        BY ViewAssumption
    <2>2. own = TradesIn(within, short) /\ within \in SUBSET Starts(short)
        BY <1>1, <2>1, SameTrades
    <2>3. own # {} /\ own \in SUBSET (1..Len(orders)) /\ Len(orders) \in Nat
        BY <1>1 DEF Starts, Among, ViewInv
    <2>4. /\ Priced(whole, own) /\ whole.base = Sum(AmountsOf(own))
        BY <1>1, RowIsPriced, RowIsSummed DEF Summed
    <2> HIDE DEF within, own, whole
    <2>5. within # {}
        BY <2>2, <2>3 DEF TradesIn
    <2>6. /\ c \in Nat /\ c # 0 /\ parts \in [1..c -> within]
          /\ \A r \in within: \E n \in 1..c: parts[n] = r
        BY <1>1, <2>1, <2>2, <2>5, PartsAre
    <2>7. Opened(row(1), own) /\ Closed(row(c), own)
        BY <1>1, <2>1, <2>2, <2>5, PartsOpenAndClose
    <2>8. ASSUME NEW n \in 1..c
          PROVE  /\ Part(n) # {} /\ Part(n) \subseteq own /\ row(n) \in Interval
                 /\ Lowest(row(n), Part(n)) /\ Highest(row(n), Part(n))
        BY <1>1, <2>1, <2>2, PartIs
    <2>9. Sum([n \in 1..c |-> row(n).base]) = Sum(AmountsOf(own))
        BY <1>1, <2>1, <2>2, PartsSum
    <2>10. ASSUME NEW m \in own
           PROVE  \E n \in 1..c: m \in Part(n)
        <3>1. m \in 1..Len(orders) /\ StartOf(orders[m].at, short) \in within
            BY <2>2 DEF TradesIn
        <3>2. QED
            BY <2>6, <3>1 DEF Among
    <2>11. Lowest(whole, own) /\ Highest(whole, own) /\ Opened(whole, own) /\ Closed(whole, own)
        BY <2>3, <2>4 DEF Priced
    <2>12. DOMAIN parts = 1..c /\ Len(parts) = c /\ parts # <<>>
        <3>1. DOMAIN parts = 1..c
            BY <2>6
        <3>2. parts \in Seq(within)
            BY <2>6
        <3> HIDE DEF parts, c
        <3>3. QED
            BY <2>6, <3>1, <3>2
    <2>13. \A m \in own: orders[m].price \in Nat
        BY <1>1, <2>3, TradeTypes DEF ViewInv
    <2>14. \A n \in 1..c: row(n).high \in Nat /\ row(n).low \in Nat
        BY <2>8, IntervalTypes
    <2> HIDE DEF parts, c, row, Part
    <2>15. whole.open = row(1).open
        <3>1. own \in SUBSET Nat
            BY <2>3
        <3>2. QED
            BY <2>7, <2>11, <3>1, SameOpen
    <2>16. whole.close = row(c).close
        BY <1>1, <2>3, <2>7, <2>11, SameClose
    <2>17. whole.high = Max({row(n).high: n \in 1..c})
        <3> DEFINE highs == {row(n).high: n \in 1..c}
        <3>1. \A m \in own: orders[m].price <= whole.high
            BY <2>11 DEF Highest
        <3>2. ASSUME NEW n \in 1..c
              PROVE  row(n).high <= whole.high
            <4>1. PICK m \in Part(n): row(n).high = orders[m].price
                BY <2>8 DEF Highest
            <4>2. QED
                BY <2>8, <3>1, <4>1
        <3>3. PICK m \in own: whole.high = orders[m].price
            BY <2>11 DEF Highest
        <3>4. PICK n \in 1..c: m \in Part(n)
            BY <2>10
        <3>5. whole.high <= row(n).high
            BY <2>8, <3>3, <3>4 DEF Highest
        <3>6. whole.high = row(n).high
            BY <2>13, <2>14, <3>2, <3>3, <3>5
        <3>7. highs \in SUBSET Nat /\ whole.high \in highs /\ \A x \in highs: x <= whole.high
            BY <2>14, <3>2, <3>6
        <3> HIDE DEF highs
        <3>8. Max(highs) = whole.high
            BY <3>7, GreatestIs
        <3>9. QED
            BY <3>8 DEF highs
    <2>18. whole.low = Min({row(n).low: n \in 1..c})
        <3> DEFINE lows == {row(n).low: n \in 1..c}
        <3>1. \A m \in own: whole.low <= orders[m].price
            BY <2>11 DEF Lowest
        <3>2. ASSUME NEW n \in 1..c
              PROVE  whole.low <= row(n).low
            <4>1. PICK m \in Part(n): row(n).low = orders[m].price
                BY <2>8 DEF Lowest
            <4>2. QED
                BY <2>8, <3>1, <4>1
        <3>3. PICK m \in own: whole.low = orders[m].price
            BY <2>11 DEF Lowest
        <3>4. PICK n \in 1..c: m \in Part(n)
            BY <2>10
        <3>5. row(n).low <= whole.low
            BY <2>8, <3>3, <3>4 DEF Lowest
        <3>6. whole.low = row(n).low
            BY <2>13, <2>14, <3>2, <3>3, <3>5
        <3>7. lows \in SUBSET Nat /\ whole.low \in lows /\ \A x \in lows: whole.low <= x
            BY <2>14, <3>2, <3>6
        <3> HIDE DEF lows
        <3>8. Min(lows) = whole.low
            BY <3>7, LeastIsOne
        <3>9. QED
            BY <3>8 DEF lows
    <2>19. /\ parts # <<>> /\ whole.open = row(1).open /\ whole.close = row(Len(parts)).close
           /\ whole.high = Max({row(n).high: n \in DOMAIN parts})
           /\ whole.low = Min({row(n).low: n \in DOMAIN parts})
           /\ whole.base = Sum([n \in DOMAIN parts |-> row(n).base])
        BY <2>4, <2>9, <2>12, <2>15, <2>16, <2>17, <2>18
    <2>20. QED
        BY <2>19 DEF parts, row, whole, within
<1>2. ASSUME ViewInv PROVE LengthsAgree
    BY <1>1, <1>2 DEF LengthsAgree
<1>3. QED
    BY <1>2, ViewInvHolds, PTL

-----------------------------------------------------------------------------
(* A ticker and the rows it is made of. *)

TickerType == [open: Nat, base: Nat, quote: Nat, high: Nat, low: Nat]

\* The ticker after k rows.
TickerAt(t, first, rows) ==
    /\ t \in [0..Len(rows) -> TickerType]
    /\ t[0] = first
    /\ \A k \in 1..Len(rows): t[k] = AddRow(t[k - 1], rows[k])
    /\ FoldLeft(AddRow, first, rows) = t[Len(rows)]

LEMMA AddRowType ==
    ASSUME NEW t \in TickerType, NEW row \in Interval
    PROVE  /\ AddRow(t, row) \in TickerType
           /\ AddRow(t, row).open = t.open
           /\ AddRow(t, row).base = t.base + row.base
           /\ AddRow(t, row).quote = t.quote + row.quote
           /\ AddRow(t, row).high = IF row.high > t.high THEN row.high ELSE t.high
           /\ AddRow(t, row).low = IF row.low < t.low \/ t.low = 0 THEN row.low ELSE t.low
<1>1. /\ t.open \in Nat /\ t.base \in Nat /\ t.quote \in Nat /\ t.high \in Nat /\ t.low \in Nat
      /\ row.base \in Nat /\ row.quote \in Nat /\ row.high \in Nat /\ row.low \in Nat
    BY IntervalTypes DEF TickerType
<1>2. DOMAIN t = {"open", "base", "quote", "high", "low"}
    BY DEF TickerType
<1> DEFINE new == AddRow(t, row)
<1>3. /\ new.open = t.open /\ new.base = t.base + row.base /\ new.quote = t.quote + row.quote
      /\ new.high = IF row.high > t.high THEN row.high ELSE t.high
      /\ new.low = IF row.low < t.low \/ t.low = 0 THEN row.low ELSE t.low
    BY <1>2 DEF AddRow
<1>4. /\ DOMAIN new = {"open", "base", "quote", "high", "low"}
      /\ new = [f \in DOMAIN new |-> new[f]]
    BY <1>2 DEF AddRow
<1> HIDE DEF new
<1>5. new \in TickerType
    <2>1. /\ new.open \in Nat /\ new.base \in Nat /\ new.quote \in Nat
          /\ new.high \in Nat /\ new.low \in Nat
        BY <1>1, <1>3
    <2>2. new = [open |-> new.open, base |-> new.base, quote |-> new.quote,
                 high |-> new.high, low |-> new.low]
        BY <1>4
    <2>3. QED
        BY <2>1, <2>2 DEF TickerType
<1>6. QED
    BY <1>3, <1>5 DEF new

LEMMA TickerHasSteps ==
    ASSUME NEW rows \in Seq(Interval), NEW first \in TickerType
    PROVE  \E t: TickerAt(t, first, rows)
<1> DEFINE n == Len(rows)
           Op == [p \in TickerType \X (1..n) |-> AddRow(p[1], rows[p[2]])]
           It == CHOOSE g: g = [s \in SUBSET (DOMAIN rows) |->
                                 IF s = {} THEN first ELSE AddRow(g[s \ {Max(s)}], rows[Max(s)])]
<1>1. FoldLeft(AddRow, first, rows) = It[DOMAIN rows]
    BY DEF FoldLeft, MapThenFoldSet
<1>2. n \in Nat /\ DOMAIN rows = 1..n /\ \A k \in 1..n: rows[k] \in Interval
    OBVIOUS
<1>3. Op \in [TickerType \X (1..n) -> TickerType]
    <2>1. ASSUME NEW p \in TickerType \X (1..n)
          PROVE  AddRow(p[1], rows[p[2]]) \in TickerType
        <3>1. p[1] \in TickerType /\ p[2] \in 1..n /\ rows[p[2]] \in Interval
            BY <1>2
        <3>2. QED
            BY <3>1, AddRowType
    <2>2. QED
        BY <2>1
<1>4. PICK f: Folds(f, TickerType, first, n, Op)
    <2> HIDE DEF n, Op
    <2>1. QED
        BY <1>2, <1>3, FoldExists
<1>5. \A i \in TickerType, k \in 1..n: Op[<<i, k>>] = AddRow(i, rows[k])
    OBVIOUS
<1> HIDE DEF Op
<1>6. ASSUME NEW s \in SUBSET (1..n), s # {}
      PROVE  Max(s) \in 1..n /\ s \ {Max(s)} \in SUBSET (1..n)
    BY <1>2, <1>6, GreatestOfFirst
<1>7. f = [s \in SUBSET (DOMAIN rows) |->
             IF s = {} THEN first ELSE AddRow(f[s \ {Max(s)}], rows[Max(s)])]
    <2>1. f \in [SUBSET (1..n) -> TickerType]
        BY <1>4 DEF Folds
    <2>2. ASSUME NEW s \in SUBSET (1..n)
          PROVE  f[s] = IF s = {} THEN first ELSE AddRow(f[s \ {Max(s)}], rows[Max(s)])
        <3>1. f[s] = IF s = {} THEN first ELSE Op[<<f[s \ {Max(s)}], Max(s)>>]
            BY <1>4 DEF Folds
        <3>2. CASE s = {}
            BY <3>1, <3>2
        <3>3. CASE s # {}
            <4>1. Max(s) \in 1..n /\ f[s \ {Max(s)}] \in TickerType
                BY <1>6, <2>1, <3>3
            <4>2. QED
                BY <1>5, <3>1, <3>3, <4>1
        <3>4. QED
            BY <3>2, <3>3
    <2> HIDE DEF n
    <2>3. QED
        BY <1>2, <2>1, <2>2
<1>8. It = [s \in SUBSET (DOMAIN rows) |->
             IF s = {} THEN first ELSE AddRow(It[s \ {Max(s)}], rows[Max(s)])]
    BY <1>7
<1> HIDE DEF It
<1>9. It[{}] = first
    BY <1>2, <1>8
<1>10. ASSUME NEW s \in SUBSET (1..n), s # {}, It[s \ {Max(s)}] \in TickerType
       PROVE  It[s] = Op[<<It[s \ {Max(s)}], Max(s)>>]
    <2>1. Max(s) \in 1..n /\ s \in SUBSET (DOMAIN rows)
        BY <1>2, <1>6, <1>10
    <2>2. It[s] = AddRow(It[s \ {Max(s)}], rows[Max(s)])
        BY <1>8, <1>10, <2>1
    <2>3. QED
        BY <1>5, <1>10, <2>1, <2>2
<1> DEFINE t == [k \in 0..n |-> It[1..k]]
<1>11. StepsOf(t, TickerType, first, n, Op)
    <2>1. \A s \in SUBSET (1..n):
             s # {} /\ It[s \ {Max(s)}] \in TickerType => It[s] = Op[<<It[s \ {Max(s)}], Max(s)>>]
        BY <1>10
    <2>2. n \in Nat
        BY <1>2
    <2> HIDE DEF n
    <2>3. StepsOf([k \in 0..n |-> It[1..k]], TickerType, first, n, Op)
        BY <1>3, <1>9, <2>1, <2>2, FoldSteps
    <2>4. QED
        BY <2>3
<1>12. FoldLeft(AddRow, first, rows) = t[n]
    BY <1>1, <1>2
<1> HIDE DEF t
<1>13. /\ t \in [0..n -> TickerType] /\ t[0] = first
       /\ \A k \in 1..n: t[k] = AddRow(t[k - 1], rows[k])
    <2>1. /\ t \in [0..n -> TickerType] /\ t[0] = first /\ \A k \in 1..n: t[k] = Op[<<t[k - 1], k>>]
        BY <1>11 DEF StepsOf
    <2>2. \A k \in 1..n: t[k - 1] \in TickerType
        BY <1>2, <2>1
    <2>3. QED
        BY <1>5, <2>1, <2>2
<1>14. TickerAt(t, first, rows)
    BY <1>12, <1>13 DEF TickerAt
<1>15. QED
    BY <1>14

LEMMA TickerPrices ==
    ASSUME ViewInv, NEW t \in TickerType, NEW row \in Interval,
           NEW before \in SUBSET (1..Len(orders)), NEW part \in SUBSET (1..Len(orders)), part # {},
           Lowest(row, part), Highest(row, part),
           IF before = {} THEN t.low = 0 /\ t.high = 0 ELSE Lowest(t, before) /\ Highest(t, before)
    PROVE  Lowest(AddRow(t, row), before \cup part) /\ Highest(AddRow(t, row), before \cup part)
<1> DEFINE new == AddRow(t, row)
           all == before \cup part
<1>1. /\ new.high = IF row.high > t.high THEN row.high ELSE t.high
      /\ new.low = IF row.low < t.low \/ t.low = 0 THEN row.low ELSE t.low
    BY AddRowType
<1>2. t.low \in Nat /\ t.high \in Nat /\ row.low \in Nat /\ row.high \in Nat
    BY IntervalTypes DEF TickerType
<1>3. \A n \in all: orders[n].price \in Nat \ {0}
    BY TradeTypes DEF ViewInv
<1>4. /\ \A n \in before: n \in all
      /\ \A n \in part: n \in all
      /\ \A n \in all: n \in before \/ n \in part
    OBVIOUS
<1>5. PICK l \in part: row.low = orders[l].price /\ \A n \in part: row.low <= orders[n].price
    BY DEF Lowest
<1>6. PICK h \in part: row.high = orders[h].price /\ \A n \in part: orders[n].price <= row.high
    BY DEF Highest
<1> HIDE DEF new, all
<1>7. row.low > 0 /\ row.high > 0
    BY <1>3, <1>4, <1>5, <1>6
<1>8. CASE before = {}
    <2>1. new.low = row.low /\ new.high = row.high
        BY <1>1, <1>7, <1>8
    <2>2. \A n \in all: n \in part
        BY <1>4, <1>8
    <2>3. Lowest(new, all) /\ Highest(new, all)
        BY <1>4, <1>5, <1>6, <2>1, <2>2 DEF Lowest, Highest
    <2>4. QED
        BY <2>3 DEF new, all
<1>9. CASE before # {}
    <2>1. PICK b \in before: t.low = orders[b].price /\ \A n \in before: t.low <= orders[n].price
        BY <1>9 DEF Lowest
    <2>2. PICK d \in before: t.high = orders[d].price /\ \A n \in before: orders[n].price <= t.high
        BY <1>9 DEF Highest
    <2>3. t.low > 0
        BY <1>3, <1>4, <2>1
    <2>4. Lowest(new, all)
        <3>1. CASE row.low < t.low
            <4>1. new.low = row.low
                BY <1>1, <3>1
            <4>2. ASSUME NEW n \in all
                  PROVE  row.low <= orders[n].price
                <5>1. orders[n].price \in Nat /\ (n \in before \/ n \in part)
                    BY <1>3, <1>4
                <5>2. CASE n \in part
                    BY <1>2, <1>5, <3>1, <5>1, <5>2
                <5>3. CASE n \in before
                    BY <1>2, <2>1, <3>1, <5>1, <5>3
                <5>4. QED
                    BY <5>1, <5>2, <5>3
            <4>3. QED
                BY <1>4, <1>5, <4>1, <4>2 DEF Lowest
        <3>2. CASE ~(row.low < t.low)
            <4>1. new.low = t.low
                BY <1>1, <2>3, <3>2
            <4>2. ASSUME NEW n \in all
                  PROVE  t.low <= orders[n].price
                <5>1. orders[n].price \in Nat /\ (n \in before \/ n \in part)
                    BY <1>3, <1>4
                <5>2. CASE n \in part
                    <6>1. row.low <= orders[n].price
                        BY <1>5, <5>2
                    <6>2. t.low <= row.low
                        BY <1>2, <3>2
                    <6>3. QED
                        BY <1>2, <5>1, <6>1, <6>2
                <5>3. CASE n \in before
                    BY <1>2, <2>1, <3>2, <5>1, <5>3
                <5>4. QED
                    BY <5>1, <5>2, <5>3
            <4>3. QED
                BY <1>4, <2>1, <4>1, <4>2 DEF Lowest
        <3>3. QED
            BY <3>1, <3>2
    <2>5. Highest(new, all)
        <3>1. CASE row.high > t.high
            <4>1. new.high = row.high
                BY <1>1, <3>1
            <4>2. ASSUME NEW n \in all
                  PROVE  orders[n].price <= row.high
                <5>1. orders[n].price \in Nat /\ (n \in before \/ n \in part)
                    BY <1>3, <1>4
                <5>2. CASE n \in part
                    BY <1>2, <1>6, <3>1, <5>1, <5>2
                <5>3. CASE n \in before
                    BY <1>2, <2>2, <3>1, <5>1, <5>3
                <5>4. QED
                    BY <5>1, <5>2, <5>3
            <4>3. QED
                BY <1>4, <1>6, <4>1, <4>2 DEF Highest
        <3>2. CASE ~(row.high > t.high)
            <4>1. new.high = t.high
                BY <1>1, <3>2
            <4>2. ASSUME NEW n \in all
                  PROVE  orders[n].price <= t.high
                <5>1. orders[n].price \in Nat /\ (n \in before \/ n \in part)
                    BY <1>3, <1>4
                <5>2. CASE n \in part
                    BY <1>2, <1>6, <3>2, <5>1, <5>2
                <5>3. CASE n \in before
                    BY <1>2, <2>2, <3>2, <5>1, <5>3
                <5>4. QED
                    BY <5>1, <5>2, <5>3
            <4>3. QED
                BY <1>4, <2>2, <4>1, <4>2 DEF Highest
        <3>3. QED
            BY <3>1, <3>2
    <2>6. QED
        BY <2>4, <2>5 DEF new, all
<1>10. QED
    BY <1>8, <1>9

\* The starts of the rows that are in the window of a ticker.
Recent == {s \in Starts(IntervalLength): s >= Before(Tickers)}

\* What a ticker says of the trades of its rows.
TickerSays(t, own, open) ==
    /\ t.open = open /\ t.base = Sum(AmountsOf(own)) /\ t.quote = Sum(QuotesOf(own))
    /\ IF own = {} THEN t.low = 0 /\ t.high = 0 ELSE Lowest(t, own) /\ Highest(t, own)

LEMMA TickerIs ==
    ASSUME ViewInv, NoneForFree
    PROVE  /\ TickerSays(Ticker, TradesIn(Recent, IntervalLength), Ticker.open)
           /\ Recent # {} => Ticker.open = Row(Ascending(Recent)[1], IntervalLength).open
<1> DEFINE length == IntervalLength
           list == Ascending(Recent)
           c == Cardinality(Recent)
           rows == [n \in 1..c |-> Row(list[n], length)]
           first == [open |-> IF rows = <<>> THEN 0 ELSE rows[1].open,
                     base |-> 0, quote |-> 0, high |-> 0, low |-> 0]
           Upto(k) == TradesIn(FirstParts(Recent, k), length)
           Part(k) == Among(Len(orders), list[k], length)
<1>1. length \in Nat \ {0} /\ Recent \in SUBSET Starts(length)
    BY ViewAssumption DEF Recent
<1> HIDE DEF length
<1>2. c \in Nat /\ list \in [1..c -> Recent] /\ (Recent = {} <=> c = 0)
    BY <1>1, PartsAre
<1>3. DOMAIN list = 1..c
    BY <1>2
<1>4. TickerRows = rows
    BY <1>3 DEF TickerRows, Recent, length
<1>5. ASSUME NEW k \in 1..c
      PROVE  /\ rows[k] \in Interval /\ Part(k) # {}
             /\ Lowest(rows[k], Part(k)) /\ Highest(rows[k], Part(k))
             /\ rows[k].base = Sum(AmountsOf(Part(k))) /\ rows[k].quote = Sum(QuotesOf(Part(k)))
             /\ Upto(k) = Upto(k - 1) \cup Part(k) /\ Upto(k - 1) \cap Part(k) = {}
    BY <1>1, PartIs, FirstPartsGrow
<1>6. Upto(0) = {} /\ Upto(c) = TradesIn(Recent, length)
    BY <1>1, AllParts
<1>7. \A k \in 0..c: Upto(k) \in SUBSET (1..Len(orders)) /\ Part(k) \in SUBSET (1..Len(orders))
    BY DEF TradesIn, Among
<1>8. rows[1] = Row(list[1], length) \/ c = 0
    BY <1>2
<1>9. DOMAIN rows = 1..c /\ rows = [n \in 1..c |-> rows[n]]
    OBVIOUS
<1> HIDE DEF list, c, rows, Upto, Part
<1>10. rows \in Seq(Interval) /\ Len(rows) = c
    <2>1. rows \in [1..c -> Interval]
        BY <1>5, <1>9
    <2>2. QED
        BY <1>2, <2>1
<1>11. first \in TickerType /\ (c # 0 => first.open = rows[1].open)
    <2>1. c # 0 => 1 \in 1..c /\ rows # <<>>
        BY <1>2, <1>10
    <2>2. c = 0 => rows = <<>>
        BY <1>10
    <2>3. c # 0 => rows[1].open \in Nat
        BY <1>5, <2>1, IntervalTypes
    <2>4. (IF rows = <<>> THEN 0 ELSE rows[1].open) \in Nat
        BY <2>1, <2>2, <2>3
    <2>5. QED
        BY <2>1, <2>4 DEF TickerType
<1>12. first.base = 0 /\ first.quote = 0 /\ first.high = 0 /\ first.low = 0
    OBVIOUS
<1>13. Ticker = FoldLeft(AddRow, first, rows)
    BY <1>4 DEF Ticker
<1> HIDE DEF first
<1>14. PICK t: TickerAt(t, first, rows)
    BY <1>10, <1>11, TickerHasSteps
<1>15. /\ t \in [0..c -> TickerType] /\ t[0] = first /\ Ticker = t[c]
       /\ \A k \in 1..c: t[k] = AddRow(t[k - 1], rows[k])
    BY <1>10, <1>13, <1>14 DEF TickerAt
<1> DEFINE Says(k) == TickerSays(t[k], Upto(k), first.open)
<1>16. Says(0)
    BY <1>6, <1>12, <1>15, SumsOfNone DEF TickerSays
<1>17. ASSUME NEW k \in 1..c, Says(k - 1)
       PROVE  Says(k)
    <2> DEFINE row == rows[k]
               old == t[k - 1]
    <2>1. k - 1 \in 0..c /\ k \in 0..c
        BY <1>2
    <2>2. old \in TickerType /\ row \in Interval /\ t[k] = AddRow(old, row)
        BY <1>5, <1>15, <2>1
    <2>3. /\ Lowest(row, Part(k)) /\ Highest(row, Part(k)) /\ Part(k) # {}
          /\ row.base = Sum(AmountsOf(Part(k))) /\ row.quote = Sum(QuotesOf(Part(k)))
          /\ Upto(k) = Upto(k - 1) \cup Part(k) /\ Upto(k - 1) \cap Part(k) = {}
        BY <1>5
    <2> HIDE DEF row, old
    <2>4. /\ old.open = first.open /\ old.base = Sum(AmountsOf(Upto(k - 1)))
          /\ old.quote = Sum(QuotesOf(Upto(k - 1)))
          /\ IF Upto(k - 1) = {} THEN old.low = 0 /\ old.high = 0
             ELSE Lowest(old, Upto(k - 1)) /\ Highest(old, Upto(k - 1))
        BY <1>17 DEF TickerSays, old
    <2>5. /\ t[k].open = old.open /\ t[k].base = old.base + row.base
          /\ t[k].quote = old.quote + row.quote
        BY <2>2, AddRowType
    <2>6. /\ t[k].base = Sum(AmountsOf(Upto(k))) /\ t[k].quote = Sum(QuotesOf(Upto(k)))
        <3>1. /\ Sum(AmountsOf(Upto(k - 1) \cup Part(k)))
                   = Sum(AmountsOf(Upto(k - 1))) + Sum(AmountsOf(Part(k)))
              /\ Sum(QuotesOf(Upto(k - 1) \cup Part(k)))
                   = Sum(QuotesOf(Upto(k - 1))) + Sum(QuotesOf(Part(k)))
            BY <2>3, SumOfTwo
        <3>2. QED
            BY <2>3, <2>4, <2>5, <3>1
    <2>7. Lowest(t[k], Upto(k)) /\ Highest(t[k], Upto(k))
        <3>1. Upto(k - 1) \in SUBSET (1..Len(orders)) /\ Part(k) \in SUBSET (1..Len(orders))
            BY <1>7, <2>1
        <3>2. /\ Lowest(AddRow(old, row), Upto(k - 1) \cup Part(k))
              /\ Highest(AddRow(old, row), Upto(k - 1) \cup Part(k))
            BY <2>2, <2>3, <2>4, <3>1, TickerPrices
        <3>3. QED
            BY <2>2, <2>3, <3>2
    <2>8. Upto(k) # {}
        BY <2>3
    <2>9. QED
        BY <2>4, <2>5, <2>6, <2>7, <2>8 DEF TickerSays
<1> DEFINE W == {k \in 0..c: Says(k)}
<1> HIDE DEF Says
<1>18. 0..c \subseteq W
    <2>1. 0 \in W
        BY <1>2, <1>16
    <2>2. ASSUME NEW k \in 1..c, k - 1 \in W PROVE k \in W
        <3>1. Says(k - 1) /\ k \in 0..c
            BY <1>2, <2>2
        <3>2. QED
            BY <1>17, <3>1
    <2> HIDE DEF W
    <2>3. QED
        BY <1>2, <2>1, <2>2, Upward
<1>19. Says(c)
    BY <1>2, <1>18
<1>20. TickerSays(Ticker, TradesIn(Recent, length), first.open)
    BY <1>6, <1>15, <1>19 DEF Says
<1>21. Ticker.open = first.open
    BY <1>20 DEF TickerSays
<1>22. Recent # {} => first.open = Row(list[1], length).open
    BY <1>2, <1>8, <1>11
<1>23. QED
    BY <1>20, <1>21, <1>22 DEF length, list

\* When no trade's quote amount is nothing (NoneForFree), a ticker is about the
\* trades of the intervals that began in its window and no others: open is a price
\* of their oldest second, and the last price, which has been read before, is
\* between low and high if its trade is one of them (tickers.go: buildTicker,
\* GetMarketsWithLastExecuted).
THEOREM TickerIsRecentTheorem == ASSUME NoneForFree PROVE Spec => []TickerIsRecent
<1>1. ASSUME ViewInv PROVE TickerIsRecent
    <2> DEFINE length == IntervalLength
               counted == {n \in DOMAIN orders: StartOf(orders[n].at, length) >= Before(Tickers)}
    <2>1. length \in Nat \ {0} /\ Recent \in SUBSET Starts(length)
        BY ViewAssumption DEF Recent
    <2>2. /\ DOMAIN orders = 1..Len(orders) /\ Len(orders) \in Nat /\ orders \in Seq(Order)
          /\ \A n \in 1..Len(orders): orders[n].at \in Nat /\ orders[n].price \in Nat
        BY <1>1, TradeTypes DEF ViewInv
    <2>3. counted = TradesIn(Recent, length)
        BY <2>2 DEF TradesIn, Recent, Starts
    <2>4. /\ Ticker.base = Sum(AmountsOf(counted)) /\ Ticker.quote = Sum(QuotesOf(counted))
          /\ counted # {} => Lowest(Ticker, counted) /\ Highest(Ticker, counted)
        BY <1>1, <2>3, TickerIs DEF TickerSays
    <2>5. /\ SumOf(counted, LAMBDA o: o.amount) = Sum(AmountsOf(counted))
          /\ SumOf(counted, LAMBDA o: o.quote) = Sum(QuotesOf(counted))
        BY DEF SumOf, AmountsOf, QuotesOf
    <2>6. counted \in SUBSET (1..Len(orders))
        BY <2>2
    <2>7. ASSUME NEW o \in last, StartOf(o.at, length) >= Before(Tickers)
          PROVE  Ticker.low <= o.price /\ o.price <= Ticker.high
        <3>1. PICK n \in 1..Len(orders): orders[n] = o
            BY <1>1 DEF ViewInv
        <3>2. n \in counted
            BY <2>2, <2>7, <3>1
        <3> HIDE DEF counted
        <3>3. QED
            BY <2>4, <3>1, <3>2 DEF Lowest, Highest
    <2>8. ASSUME counted # {}
          PROVE  Ticker.open \in PricesOf(OldestOf(counted))
        <3>1. Recent # {}
            BY <2>3, <2>8 DEF TradesIn
        <3> DEFINE row == Row(Ascending(Recent)[1], length)
        <3>2. Ticker.open = row.open
            BY <1>1, <3>1, TickerIs
        <3>3. Opened(row, counted)
            BY <1>1, <2>1, <2>3, <3>1, PartsOpenAndClose
        <3> HIDE DEF counted, row
        <3>4. row.open \in PricesOf(OldestOf(counted))
            BY <1>1, <2>6, <3>3, OpensWithOldest
        <3>5. QED
            BY <3>2, <3>4
    <2>9. ASSUME counted # {}
          PROVE  Ticker.low = Min(PricesOf(counted)) /\ Ticker.high = Max(PricesOf(counted))
        <3> HIDE DEF counted
        <3> DEFINE prices == PricesOf(counted)
        <3>1. /\ prices \in SUBSET Nat /\ Ticker.low \in prices /\ Ticker.high \in prices
              /\ \A x \in prices: Ticker.low <= x /\ x <= Ticker.high
            BY <2>2, <2>4, <2>6, <2>9 DEF PricesOf, Lowest, Highest
        <3> HIDE DEF prices
        <3>2. Min(prices) = Ticker.low /\ Max(prices) = Ticker.high
            BY <3>1, LeastIsOne, GreatestIs
        <3>3. QED
            BY <3>2 DEF prices
    <2>10. /\ Ticker.base = SumOf(counted, LAMBDA o: o.amount)
           /\ Ticker.quote = SumOf(counted, LAMBDA o: o.quote)
        BY <2>4, <2>5
    <2> HIDE DEF counted
    <2>11. /\ Ticker.base = SumOf(counted, LAMBDA o: o.amount)
           /\ Ticker.quote = SumOf(counted, LAMBDA o: o.quote)
           /\ counted # {} =>
               /\ Ticker.open \in PricesOf(OldestOf(counted))
               /\ Ticker.low = Min(PricesOf(counted)) /\ Ticker.high = Max(PricesOf(counted))
           /\ \A o \in last: StartOf(o.at, IntervalLength) >= Before(Tickers) =>
                  Ticker.low <= o.price /\ o.price <= Ticker.high
        BY <2>7, <2>8, <2>9, <2>10
    <2>12. QED
        BY <2>11 DEF TickerIsRecent, counted
<1>2. QED
    BY <1>1, ViewInvHolds, PTL
=============================================================================
