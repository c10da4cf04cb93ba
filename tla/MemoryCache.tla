---------------------------- MODULE MemoryCache ----------------------------
(***************************************************************************)
(* service.InMemoryCache (app/service/memory_cache.go): the cache every    *)
(* HTTP service keeps its answers in.  Set arms a timer that deletes the   *)
(* key; the callback of a timer runs in a goroutine of its own, which Stop *)
(* no longer reaches once the timer has fired, and which then waits for    *)
(* the mutex.  Set and the callback each hold the mutex from beginning to  *)
(* end, so each is one step.                                               *)
(*                                                                         *)
(* The calls of Set are numbered: n names the data and the timer of the    *)
(* n-th call.  CacheSpec lets a timer fire whenever it is armed;           *)
(* CachedServices says when it is due and who calls Set.                   *)
(***************************************************************************)
EXTENDS Naturals, Sequences, FiniteSets

CONSTANTS
    CacheKey,
    MaxSets    \* bound: calls of Set

ASSUME CacheAssumption == MaxSets \in Nat

VARIABLES
    calls,    \* calls[n]: the key of the n-th call of Set
    entry,    \* entry[k]: the call whose data the cache holds for k, or Nothing
    armed,    \* timers that are running
    fired     \* timers whose callback has been started and not yet run

cacheVars == <<calls, entry, armed, fired>>

Nothing == 0
NextCall == Len(calls) + 1

\* Mutants: a key that is set again keeps the timer it has, as one that would
\* be re-armed only if Stop caught it; a timer numbered one too high.
StartUnlessSet(k) == IF entry[k] = Nothing THEN armed \union {NextCall} ELSE armed \ {entry[k]}
StartNext(k) == (armed \ {entry[k]}) \union {NextCall + 1}

\* entry.timer.Stop(), without a look at what it answers, and AfterFunc.
Restart(k) == (armed \ {entry[k]}) \union {NextCall}

\* Set: the previous timer is stopped if it can be, the new one is started.
Set(k) ==
    /\ Len(calls) < MaxSets
    /\ calls' = Append(calls, k)
    /\ armed' = Restart(k)
    /\ entry' = [entry EXCEPT ![k] = NextCall]
    /\ UNCHANGED fired

\* A timer expires: the runtime starts its callback.
Fire(n) ==
    /\ n \in armed
    /\ armed' = armed \ {n}
    /\ fired' = fired \union {n}
    /\ UNCHANGED <<calls, entry>>

\* Mutant: a callback that deletes nothing.
KeepKey(n) ==
    /\ n \in fired
    /\ fired' = fired \ {n}
    /\ UNCHANGED <<calls, entry, armed>>

\* The callback of timer n: the key is deleted, whoever set it last.
DeleteKey(n) ==
    /\ n \in fired
    /\ fired' = fired \ {n}
    /\ entry' = [entry EXCEPT ![calls[n]] = Nothing]
    /\ UNCHANGED <<calls, armed>>

CacheInit ==
    /\ calls = <<>>
    /\ entry = [k \in CacheKey |-> Nothing]
    /\ armed = {}
    /\ fired = {}

CacheNext ==
    \/ \E k \in CacheKey: Set(k)
    \/ \E n \in DOMAIN calls: Fire(n) \/ DeleteKey(n)

CacheSpec == CacheInit /\ [][CacheNext]_cacheVars

-----------------------------------------------------------------------------
CacheTypeOK ==
    /\ calls \in Seq(CacheKey)
    /\ Len(calls) <= MaxSets
    /\ entry \in [CacheKey -> 0..Len(calls)]
    /\ armed \subseteq DOMAIN calls
    /\ fired \subseteq DOMAIN calls

\* Nothing stays in the cache for good: what it holds has a timer that is
\* running or a callback about to run, which deletes this very key.
EntryHasTimer ==
    \A k \in CacheKey:
        entry[k] # Nothing => entry[k] \in armed \union fired /\ calls[entry[k]] = k
=============================================================================
