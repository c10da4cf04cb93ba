----------------------- MODULE InMemoryLocker_proofs -----------------------
(***************************************************************************)
(* Theorems about InMemoryLocker for any set of goroutines and keys.       *)
(***************************************************************************)
EXTENDS InMemoryLocker, TLAPS

\* The inductive invariant.  A mutex says which key it was made for, the one a
\* goroutine works with is the one in the map (entries never change), and an
\* owned key has a locked mutex.
LockerInv ==
    /\ LockerTypeOK
    /\ \A k \in Key: syncedMap[k] # None => syncedMap[k][2] = k
    /\ \A g \in Goroutine: pc[g] # "run" =>
            key[g] \in Key /\ found[g] = syncedMap[key[g]] /\ found[g] # None
    /\ \A g \in Goroutine: pc[g] = "unlock" => key[g] \in owns[g]
    /\ \A g \in Goroutine: \A k \in owns[g]: syncedMap[k] # None /\ syncedMap[k] \in held
    /\ MutualExclusion

LEMMA InitLockerInv == LockerInit => LockerInv
BY DEF LockerInit, LockerInv, LockerTypeOK, MutualExclusion

LEMMA NextLockerInv == LockerInv /\ [LockerNext]_lockerVars => LockerInv'
<1> SUFFICES ASSUME LockerInv, [LockerNext]_lockerVars
             PROVE  LockerInv'
    OBVIOUS
<1> USE LockerAssumption DEF LockerInv, LockerTypeOK, MutualExclusion
<1>1. ASSUME NEW g \in Goroutine, NEW k \in Key, FindForLock(g, k)
      PROVE  LockerInv'
    <2>1. LoadOrStore(g, k) \in Mutex /\ LoadOrStore(g, k)[2] = k
        BY DEF LoadOrStore, Mutex
    <2>2. syncedMap[k] # None => LoadOrStore(g, k) = syncedMap[k]
        BY DEF LoadOrStore
    <2>3. QED
        BY <1>1, <2>1, <2>2 DEF FindForLock
<1>2. ASSUME NEW g \in Goroutine, LockMutex(g)
      PROVE  LockerInv'
    <2>1. \A h \in Goroutine: key[g] \notin owns[h]
        BY <1>2 DEF LockMutex, Returns
    <2>2. QED
        BY <1>2, <2>1 DEF LockMutex, Returns
<1>3. ASSUME NEW g \in Goroutine, NEW k \in Key, FindForUnlock(g, k)
      PROVE  LockerInv'
    BY <1>3 DEF FindForUnlock
<1>4. ASSUME NEW g \in Goroutine, UnlockMutex(g)
      PROVE  LockerInv'
    <2>1. \A h \in Goroutine \ {g}: \A k \in owns[h]: k # key[g] /\ syncedMap[k] # found[g]
        BY <1>4 DEF UnlockMutex, Returns
    <2>2. \A k \in owns[g] \ {key[g]}: syncedMap[k] # found[g]
        BY <1>4 DEF UnlockMutex, Returns
    <2>3. QED
        BY <1>4, <2>1, <2>2 DEF UnlockMutex, Returns
<1>5. CASE UNCHANGED lockerVars
    BY <1>5 DEF lockerVars
<1>6. QED
    BY <1>1, <1>2, <1>3, <1>4, <1>5 DEF LockerNext

LEMMA LockerInvHolds == LockerSpec => []LockerInv
BY InitLockerInv, NextLockerInv, PTL DEF LockerSpec

\* No key is ever owned twice, however the look-ups and the mutex operations of
\* different goroutines interleave.
THEOREM ExclusiveOwners == LockerSpec => []MutualExclusion
BY LockerInvHolds, PTL DEF LockerInv

\* No Unlock meets a mutex that is not locked.
THEOREM UnlocksAreSafe == LockerSpec => []NoFatalUnlock
<1>1. LockerInv => NoFatalUnlock
    BY DEF LockerInv, NoFatalUnlock
<1>2. QED
    BY <1>1, LockerInvHolds, PTL

(* The locker implements KeyLocks. *)

LEMMA InitLocks == LockerInit => Locks!Init
BY DEF LockerInit, Locks!Init

LEMMA NextLocks == LockerInv /\ [LockerNext]_lockerVars => [Locks!Next]_([k \in Key |-> {g \in Goroutine: k \in owns[g]}])
<1> DEFINE holders == [k \in Key |-> {g \in Goroutine: k \in owns[g]}]
<1> SUFFICES ASSUME LockerInv, [LockerNext]_lockerVars
             PROVE  Locks!Next \/ UNCHANGED holders
    OBVIOUS
<1>1. ASSUME NEW g \in Goroutine, LockMutex(g)
      PROVE  Locks!Next
    <2>1. key[g] \in Key /\ owns' = [owns EXCEPT ![g] = @ \union {key[g]}]
        BY <1>1 DEF LockMutex, LockerInv
    <2>2. \A h \in Goroutine: key[g] \notin owns[h]
        BY <1>1 DEF LockMutex, LockerInv
    <2>3. holders[key[g]] = {}
        BY <2>1, <2>2
    <2>4. holders' = [holders EXCEPT ![key[g]] = {g}]
        <3>1. ASSUME NEW k \in Key
              PROVE  holders'[k] = IF k = key[g] THEN {g} ELSE holders[k]
            BY <2>1, <2>2 DEF LockerInv, LockerTypeOK
        <3>2. QED
            BY <3>1
    <2>5. QED
        BY <2>1, <2>3, <2>4 DEF Locks!Next, Locks!Acquire
<1>2. ASSUME NEW g \in Goroutine, UnlockMutex(g)
      PROVE  Locks!Next
    <2>1. key[g] \in Key /\ owns' = [owns EXCEPT ![g] = @ \ {key[g]}] /\ key[g] \in owns[g]
        BY <1>2 DEF UnlockMutex, LockerInv
    <2>2. \A h \in Goroutine: h # g => key[g] \notin owns[h]
        BY <2>1 DEF LockerInv, MutualExclusion
    <2>3. holders[key[g]] = {g}
        BY <2>1, <2>2
    <2>4. holders' = [holders EXCEPT ![key[g]] = {}]
        <3>1. ASSUME NEW k \in Key
              PROVE  holders'[k] = IF k = key[g] THEN {} ELSE holders[k]
            BY <2>1, <2>2 DEF LockerInv, LockerTypeOK
        <3>2. QED
            BY <3>1
    <2>5. QED
        BY <2>1, <2>3, <2>4 DEF Locks!Next, Locks!Release
<1>3. ASSUME NEW g \in Goroutine, NEW k \in Key, FindForLock(g, k) \/ FindForUnlock(g, k)
      PROVE  UNCHANGED holders
    BY <1>3 DEF FindForLock, FindForUnlock
<1>4. CASE UNCHANGED lockerVars
    BY <1>4 DEF lockerVars
<1>5. QED
    BY <1>1, <1>2, <1>3, <1>4 DEF LockerNext

\* However look-ups and mutex operations of any goroutines interleave, every key
\* is a lock with one holder, who alone gives it back.
THEOREM KeysAreLocks == LockerSpec => ImplementsLocks
BY InitLockerInv, NextLockerInv, InitLocks, NextLocks, PTL DEF LockerSpec, ImplementsLocks, Locks!Spec
=============================================================================
