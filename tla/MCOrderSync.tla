---------------------------- MODULE MCOrderSync ----------------------------
(* Instances of OrderBook, and so of OrderSync, for TLC. *)
EXTENDS OrderBook

CONSTANTS w1, w2, p1

OneProcess == (w1 :> p1) @@ (w2 :> p1)

\* Books that are never crossed; they differ in one side, in both, or have an
\* empty side.
ActiveBooks ==
    {[buy |-> {1}, sell |-> {3}], [buy |-> {1, 2}, sell |-> {3}], [buy |-> {}, sell |-> {2, 3, 4}]}

\* The same with the book that has run dry.
AllBooks == ActiveBooks \union {[buy |-> {}, sell |-> {}]}
=============================================================================
