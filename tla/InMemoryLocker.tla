--------------------------- MODULE InMemoryLocker ---------------------------
(***************************************************************************)
(* lock.InMemoryLocker (app/service/lock/in_memory.go): a mutex per key,   *)
(* made when a key is first locked and kept in a sync.Map that nothing is  *)
(* ever removed from.  Lock and Unlock are each two steps: the look-up in  *)
(* the map, then the operation on the mutex that was found.                *)
(*                                                                         *)
(* LockerSpec lets every goroutine lock and unlock what it likes, as long  *)
(* as it unlocks what it locked; Listener says which locks the program     *)
(* takes.                                                                  *)
(***************************************************************************)
EXTENDS Naturals

CONSTANTS
    Goroutine,
    Key,
    None        \* no entry of the map; no call, so no key and no mutex

\* Goroutine g's new mutex for key k, stored if it is the first of the key.
Mutex == Goroutine \X Key

ASSUME LockerAssumption == None \notin Mutex

VARIABLES
    syncedMap,  \* syncedMap[k]: the mutex of key k
    held,       \* the mutexes that are locked
    pc,         \* what each goroutine is doing in the locker
    key,        \* the key of its current call
    found,      \* the mutex it found for that key
    owns        \* the keys whose Lock has returned and whose Unlock has not

lockerVars == <<syncedMap, held, pc, key, found, owns>>

\* Mutants: a mutex stored over the one that is there, and a look-up that
\* stores nothing.
StoreAlways(g, k) == <<g, k>>
LoadOnly(g, k) == syncedMap[k]

LoadOrStore(g, k) == IF syncedMap[k] = None THEN <<g, k>> ELSE syncedMap[k]

\* Lock(k), first half.
FindForLock(g, k) ==
    /\ pc[g] = "run"
    /\ k \notin owns[g]
    /\ syncedMap' = [syncedMap EXCEPT ![k] = LoadOrStore(g, k)]
    /\ found' = [found EXCEPT ![g] = LoadOrStore(g, k)]
    /\ key' = [key EXCEPT ![g] = k]
    /\ pc' = [pc EXCEPT ![g] = "lock"]
    /\ UNCHANGED <<held, owns>>

Returns(g) ==
    /\ pc' = [pc EXCEPT ![g] = "run"]
    /\ key' = [key EXCEPT ![g] = None]
    /\ found' = [found EXCEPT ![g] = None]

\* Lock(k), second half: blocks while the mutex is locked.
LockMutex(g) ==
    /\ pc[g] = "lock"
    /\ found[g] \notin held
    /\ held' = held \union {found[g]}
    /\ owns' = [owns EXCEPT ![g] = @ \union {key[g]}]
    /\ Returns(g)
    /\ UNCHANGED syncedMap

\* Unlock(k), first half.  Every caller unlocks what it locked.
FindForUnlock(g, k) ==
    /\ pc[g] = "run"
    /\ k \in owns[g]
    /\ found' = [found EXCEPT ![g] = syncedMap[k]]
    /\ key' = [key EXCEPT ![g] = k]
    /\ pc' = [pc EXCEPT ![g] = "unlock"]
    /\ UNCHANGED <<syncedMap, held, owns>>

\* Unlock(k), second half: it returns, whether it found a mutex or not.
UnlockMutex(g) ==
    /\ pc[g] = "unlock"
    /\ held' = held \ {found[g]}
    /\ owns' = [owns EXCEPT ![g] = @ \ {key[g]}]
    /\ Returns(g)
    /\ UNCHANGED syncedMap

LockerInit ==
    /\ syncedMap = [k \in Key |-> None]
    /\ held = {}
    /\ pc = [g \in Goroutine |-> "run"]
    /\ key = [g \in Goroutine |-> None]
    /\ found = [g \in Goroutine |-> None]
    /\ owns = [g \in Goroutine |-> {}]

LockerNext ==
    \E g \in Goroutine:
        \/ LockMutex(g)
        \/ UnlockMutex(g)
        \/ \E k \in Key: FindForLock(g, k) \/ FindForUnlock(g, k)

LockerSpec == LockerInit /\ [][LockerNext]_lockerVars

-----------------------------------------------------------------------------
LockerTypeOK ==
    /\ syncedMap \in [Key -> Mutex \union {None}]
    /\ held \subseteq Mutex
    /\ pc \in [Goroutine -> {"run", "lock", "unlock"}]
    /\ key \in [Goroutine -> Key \union {None}]
    /\ found \in [Goroutine -> Mutex \union {None}]
    /\ owns \in [Goroutine -> SUBSET Key]

\* Two goroutines never own one key, although both may have created its mutex.
MutualExclusion ==
    \A g, h \in Goroutine: g # h => owns[g] \intersect owns[h] = {}

(* What is promised: locks with one holder each. *)

Locks == INSTANCE KeyLocks
    WITH Holder <- Goroutine, Name <- Key,
         holders <- [k \in Key |-> {g \in Goroutine: k \in owns[g]}]

\* Although a look-up and the operation on what it found are two steps, and two
\* goroutines may both make a mutex for a new key, every key behaves as a lock:
\* it is given to a goroutine only while nobody owns it, and taken from nobody
\* but its owner.
ImplementsLocks == Locks!Spec

\* Unlocking a mutex that is not locked ends the process: it never happens.
NoFatalUnlock ==
    \A g \in Goroutine: pc[g] = "unlock" /\ found[g] # None => found[g] \in held
=============================================================================
