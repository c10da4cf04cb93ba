---------------------------- MODULE TradeArchive ----------------------------
(***************************************************************************)
(* What the history sync promises its callers, whatever its pages, locks   *)
(* and transactions: the stored history is the beginning of the chain's    *)
(* history, it only ever gets longer, and a call that returned without an  *)
(* error vouches for a part of it.                                         *)
(***************************************************************************)
EXTENDS Naturals

CONSTANT Caller

VARIABLES
    published,  \* trades the chain has executed
    archived,   \* how many of them, from the first one on, are stored
    promised    \* how many of them each caller was told are stored

archiveVars == <<published, archived, promised>>

Init ==
    /\ published = 0
    /\ archived = 0
    /\ promised = [c \in Caller |-> 0]

Publish ==
    /\ published' = published + 1
    /\ UNCHANGED <<archived, promised>>

\* A caller takes its previous answer as obsolete and asks again.
Ask(c) ==
    /\ promised' = [promised EXCEPT ![c] = 0]
    /\ UNCHANGED <<published, archived>>

\* More of the history is stored, without telling anybody yet.
Archive ==
    /\ archived' \in (archived + 1)..published
    /\ UNCHANGED <<published, promised>>

\* A call ends, having stored more or not, and the caller is told how much of
\* the history it can count on.
Answer(c) ==
    /\ archived' \in archived..published
    /\ \E n \in 0..archived': promised' = [promised EXCEPT ![c] = n]
    /\ UNCHANGED published

Next == Publish \/ Archive \/ \E c \in Caller: Ask(c) \/ Answer(c)

Spec == Init /\ [][Next]_archiveVars
=============================================================================
