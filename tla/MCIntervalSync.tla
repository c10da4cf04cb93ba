--------------------------- MODULE MCIntervalSync ---------------------------
(* Instances of IntervalSync for TLC. *)
EXTENDS IntervalSync, TLC

CONSTANTS w1, w2, p1, p2

\* Both callers are goroutines of one process, as in the listener.
OneProcess == (w1 :> p1) @@ (w2 :> p1)

\* The listener and `sync intervals` started beside it.
TwoProcesses == (w1 :> p1) @@ (w2 :> p2)

Callers == Permutations({w1, w2})
=============================================================================
