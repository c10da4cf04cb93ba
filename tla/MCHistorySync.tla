--------------------------- MODULE MCHistorySync ---------------------------
(* Instances of HistoryAnswers, and so of HistorySync, for TLC. *)
EXTENDS HistoryAnswers, TLC

CONSTANTS w1, w2, p1

\* Both callers are goroutines of one process, as in the listener.
OneProcess == (w1 :> p1) @@ (w2 :> p1)

EverySecond == {1}
SameOrNextSecond == {0, 1}
AllFine == {TRUE}

Callers == Permutations({w1, w2})
=============================================================================
