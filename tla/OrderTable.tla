----------------------------- MODULE OrderTable -----------------------------
(***************************************************************************)
(* What the order sync promises those who read market_order, whatever      *)
(* reads, locks and goroutines it is made of: each side of the table is a  *)
(* side of one of the books the chain has had, and when a side is          *)
(* replaced, it is by a side of the same book or of a later one.  The two  *)
(* sides change together, but need not be of one book: the buys may be     *)
(* those of an earlier one.                                                *)
(***************************************************************************)
EXTENDS Naturals, Sequences

CONSTANTS
    Book,     \* the order books there may be: [buy, sell: sets of levels]
    Hidden    \* levels that are never shown

VARIABLES
    chain,    \* chain[h]: the book at height h
    table,    \* table[s]: the levels stored of side s
    asOf      \* asOf[s]: the height they are of, 0 if nothing was stored yet

tableVars == <<chain, table, asOf>>

Sides == {"buy", "sell"}

Init ==
    /\ \E b \in Book: chain = <<b>>
    /\ table = [s \in Sides |-> {}]
    /\ asOf = [s \in Sides |-> 0]

Publish ==
    /\ \E b \in Book: chain' = Append(chain, b)
    /\ UNCHANGED <<table, asOf>>

Replace ==
    /\ asOf' \in [Sides -> 1..Len(chain)]
    /\ \A s \in Sides: asOf[s] <= asOf'[s]
    /\ asOf'["buy"] <= asOf'["sell"]
    /\ table' = [s \in Sides |-> chain[asOf'[s]][s] \ Hidden]
    /\ UNCHANGED chain

Next == Publish \/ Replace

Spec == Init /\ [][Next]_tableVars
=============================================================================
