-------------------------- MODULE MCCachedServices --------------------------
(***************************************************************************)
(* HttpProcess for TLC.  The handlers are interchangeable, and so are the  *)
(* items: no property names one, and no property of the run is a liveness  *)
(* property.                                                               *)
(***************************************************************************)
EXTENDS HttpProcess, TLC

Symmetry == Permutations(Handler) \union Permutations(Item)

\* What the n-th call of Set stored is read no more once its entry is gone and
\* its timer has run out, but by NoPricesMeansNone, which looks at the backups.
Read(n) == entry[calls[n]] = n \/ n \in armed \union fired \/ calls[n] = "backup"

\* What the steps to come and the properties can tell of a state.
View == <<entry, armed, fired, [n \in DOMAIN calls |-> IF Read(n) THEN <<calls[n], data[n]>> ELSE <<>>],
          served, now, trade, synced, request, reply, spoiled, faults, gatherVars>>
=============================================================================
