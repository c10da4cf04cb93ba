------------------------- MODULE IntervalAggregate -------------------------
(***************************************************************************)
(* Interval.AddOrder (app/service/interval/interval.go): the trades of one *)
(* interval are added one after the other, oldest second first as          *)
(* GetByExecutedAt returns them, and the interval keeps the prices and     *)
(* volumes that are written to market_history_interval.  MarketView uses   *)
(* it for every row of that table.                                         *)
(*                                                                         *)
(* Prices and amounts are whole numbers of their smallest unit.  A quote   *)
(* amount is what GetQuoteAmount (app/service/converter/market.go) leaves  *)
(* of price * amount: the decimals the quote asset does not have are cut.  *)
(***************************************************************************)
EXTENDS Naturals

CONSTANT QuoteUnit    \* price * amount that makes the quote asset's smallest unit

ASSUME QuoteUnitAssumption == QuoteUnit \in Nat \ {0}

Never == 0  \* the zero time.Time

\* An average price is a fraction: [num, den].
Whole(price) == [num |-> price, den |-> 1]
IsZero(average) == average.num = 0

GetQuoteAmount(amount, price) == (amount * price) \div QuoteUnit

NewInterval ==
    [open |-> 0, close |-> 0, low |-> 0, high |-> 0, average |-> Whole(0),
     base |-> 0, quote |-> 0, lowestExecutedAt |-> Never, highestExecutedAt |-> Never]

\* The trade is older, or newer, than all before it.
Opens(i, o) == i.lowestExecutedAt = Never \/ o.at < i.lowestExecutedAt
Closes(i, o) == i.highestExecutedAt = Never \/ i.highestExecutedAt < o.at

Low(i, o) == IF i.low = 0 \/ o.price < i.low THEN o.price ELSE i.low

\* Mutant: a highest price that is compared with the lowest one.
HighAboveLow(i, o) == IF i.high = 0 \/ o.price > i.low THEN o.price ELSE i.high

High(i, o) == IF i.high = 0 \/ o.price > i.high THEN o.price ELSE i.high

\* Mutant: the first trade's volumes set and then added, as without the early
\* return.
FirstTwice(i, o) ==
    LET times == IF IsZero(i.average) THEN 2 ELSE 1
    IN  [average |-> IF High(i, o) = Low(i, o) THEN Whole(o.price)
                     ELSE [num |-> i.quote + o.quote, den |-> i.base + o.amount],
         base |-> i.base + times * o.amount, quote |-> i.quote + times * o.quote]

\* Volumes and average price.  An average of zero stands for an interval
\* without trades: its volumes start with this one.
Volumes(i, o) ==
    IF IsZero(i.average)
    THEN [average |-> Whole(o.price), base |-> o.amount, quote |-> o.quote]
    ELSE [average |-> IF High(i, o) = Low(i, o) THEN Whole(o.price)
                      ELSE [num |-> i.quote + o.quote, den |-> i.base + o.amount],
          base |-> i.base + o.amount, quote |-> i.quote + o.quote]

AddOrder(i, o) ==
    [open |-> IF Opens(i, o) THEN o.price ELSE i.open,
     close |-> IF Closes(i, o) THEN o.price ELSE i.close,
     low |-> Low(i, o),
     high |-> High(i, o),
     average |-> Volumes(i, o).average,
     base |-> Volumes(i, o).base,
     quote |-> Volumes(i, o).quote,
     lowestExecutedAt |-> IF Opens(i, o) THEN o.at ELSE i.lowestExecutedAt,
     highestExecutedAt |-> IF Closes(i, o) THEN o.at ELSE i.highestExecutedAt]
=============================================================================
