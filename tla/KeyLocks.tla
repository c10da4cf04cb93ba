------------------------------ MODULE KeyLocks ------------------------------
(***************************************************************************)
(* What the syncs rely on when they lock a key, however the locker makes   *)
(* and finds its mutexes: a key has one holder at a time, who is given it  *)
(* when nobody holds it and is the only one to give it back.               *)
(***************************************************************************)
CONSTANTS Holder, Name

VARIABLE holders    \* holders[k]: who holds key k

Init == holders = [k \in Name |-> {}]

Acquire(g, k) ==
    /\ holders[k] = {}
    /\ holders' = [holders EXCEPT ![k] = {g}]

Release(g, k) ==
    /\ holders[k] = {g}
    /\ holders' = [holders EXCEPT ![k] = {}]

Next == \E g \in Holder, k \in Name: Acquire(g, k) \/ Release(g, k)

Spec == Init /\ [][Next]_holders
=============================================================================
