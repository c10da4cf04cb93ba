----------------------------- MODULE MCListener -----------------------------
(* Instances of Listener for TLC: two handlers, and two markets, one of which
   or none is there when the process starts. *)
EXTENDS Listener

CONSTANTS m1, m2

OneListed == {m1}

\* Saved and cancelled orders leave a book with orders on both sides, on one or
\* on none; trades leave some on both.
SavedLeave == [OrderExecuted |-> {{}}, OrderSaved |-> SUBSET Side]
AllLeaveSome == [OrderExecuted |-> {{}}, OrderSaved |-> {{}}]
=============================================================================
