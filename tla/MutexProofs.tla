---------------------------- MODULE MutexProofs ----------------------------
(***************************************************************************)
(* The safety of the futex mutex for any set of threads.  IInv (of Mutex)  *)
(* is inductive as a whole: a step that frees the word needs to know that  *)
(* no other thread owns it, which is MutualExclusion; a cas 0 -> 1 or 2    *)
(* needs that a free word has no owner, which is WordTellsHolder; and      *)
(* TypeOK bounds the values on which the branches of the code turn.        *)
(***************************************************************************)
EXTENDS Mutex, TLAPS

\* The enum constants are visible wherever a step compares the word.
USE DEF UNLOCKED, LOCKED_NO_WAITER, LOCKED

\* The initial word is free and nobody is inside the mutex.
LEMMA InitIInv == Init => IInv
BY DEF Init, IInv, TypeOK, MutualExclusion, WordTellsHolder, NoLostWakeup,
       Holds, Asleep, Labels

\* The word and the labels stay in their domains; the decrement is safe since
\* only an owner makes it and an owned word is 1 or 2.
LEMMA NextTypeOK == IInv /\ [Next]_vars => TypeOK'
<1> SUFFICES ASSUME IInv, [Next]_vars PROVE TypeOK'
  OBVIOUS
<1> USE DEF IInv, TypeOK, Labels, Goto
<1>1. CASE UNCHANGED vars
  BY <1>1 DEF vars
<1>2. ASSUME NEW t \in Threads, Lock(t) PROVE TypeOK'
  <2>1. CASE FastLock(t)
    BY <2>1 DEF FastLock, Contended
  <2>2. CASE Mark(t)
    BY <2>2 DEF Mark
  <2>3. CASE FutexWait(t)
    BY <2>3 DEF FutexWait
  <2>4. CASE Retry(t)
    BY <2>4 DEF Retry, Contended
  <2> QED
    BY <1>2, <2>1, <2>2, <2>3, <2>4 DEF Lock
<1>3. ASSUME NEW t \in Threads, Unlock(t) PROVE TypeOK'
  <2>1. CASE Decrement(t)
    <3>1. val \in {1, 2}
      BY <2>1 DEF Decrement, WordTellsHolder, Holds
    <3> QED
      BY <2>1, <3>1 DEF Decrement
  <2>2. CASE StoreUnlocked(t)
    BY <2>2 DEF StoreUnlocked
  <2>3. CASE FutexWake(t)
    BY <2>3 DEF FutexWake, Asleep
  <2> QED
    BY <1>3, <2>1, <2>2, <2>3 DEF Unlock
<1>4. ASSUME NEW t \in Threads, SpuriousWakeup(t) PROVE TypeOK'
  BY <1>4 DEF SpuriousWakeup
<1> QED
  BY <1>1, <1>2, <1>3, <1>4 DEF Next

\* A cas takes only a word that says 0, when nobody owns the lock, and the
\* owner alone makes it 0.
LEMMA NextHolders ==
  IInv /\ [Next]_vars => MutualExclusion' /\ WordTellsHolder'
<1> SUFFICES ASSUME IInv, [Next]_vars
             PROVE  MutualExclusion' /\ WordTellsHolder'
  OBVIOUS
<1> USE DEF IInv, TypeOK, MutualExclusion, WordTellsHolder, Holds, Goto
<1>1. CASE UNCHANGED vars
  BY <1>1 DEF vars
<1>2. ASSUME NEW t \in Threads, Lock(t)
      PROVE  MutualExclusion' /\ WordTellsHolder'
  <2>1. CASE FastLock(t)
    BY <2>1 DEF FastLock, Contended
  <2>2. CASE Mark(t)
    BY <2>2 DEF Mark
  <2>3. CASE FutexWait(t)
    BY <2>3 DEF FutexWait
  <2>4. CASE Retry(t)
    BY <2>4 DEF Retry, Contended
  <2> QED
    BY <1>2, <2>1, <2>2, <2>3, <2>4 DEF Lock
<1>3. ASSUME NEW t \in Threads, Unlock(t)
      PROVE  MutualExclusion' /\ WordTellsHolder'
  <2>1. CASE Decrement(t)
    <3>1. val \in {1, 2}
      BY <2>1 DEF Decrement
    <3> QED
      BY <2>1, <3>1 DEF Decrement
  <2>2. CASE StoreUnlocked(t)
    BY <2>2 DEF StoreUnlocked
  <2>3. CASE FutexWake(t)
    BY <2>3 DEF FutexWake, Asleep
  <2> QED
    BY <1>3, <2>1, <2>2, <2>3 DEF Unlock
<1>4. ASSUME NEW t \in Threads, SpuriousWakeup(t)
      PROVE  MutualExclusion' /\ WordTellsHolder'
  BY <1>4 DEF SpuriousWakeup
<1> QED
  BY <1>1, <1>2, <1>3, <1>4 DEF Next

\* Only two steps could strand a sleeper: leaving the word other than LOCKED,
\* which puts the thread that does it on the way to a wake, and finishing such
\* a wake, which puts the woken thread on the way to set LOCKED again.
LEMMA NextNoLostWakeup == IInv /\ [Next]_vars => NoLostWakeup'
<1> SUFFICES ASSUME IInv, [Next]_vars PROVE NoLostWakeup'
  OBVIOUS
<1> USE DEF IInv, TypeOK, NoLostWakeup, Asleep, Goto
<1>1. CASE UNCHANGED vars
  BY <1>1 DEF vars
<1>2. ASSUME NEW t \in Threads, Lock(t) PROVE NoLostWakeup'
  <2>1. CASE FastLock(t)
    BY <2>1 DEF FastLock, Contended
  <2>2. CASE Mark(t)
    BY <2>2 DEF Mark
  <2>3. CASE FutexWait(t)
    BY <2>3 DEF FutexWait
  <2>4. CASE Retry(t)
    BY <2>4 DEF Retry, Contended
  <2> QED
    BY <1>2, <2>1, <2>2, <2>3, <2>4 DEF Lock
<1>3. ASSUME NEW t \in Threads, Unlock(t) PROVE NoLostWakeup'
  <2>1. CASE Decrement(t)
    BY <2>1 DEF Decrement
  <2>2. CASE StoreUnlocked(t)
    BY <2>2 DEF StoreUnlocked
  <2>3. CASE FutexWake(t)
    BY <2>3 DEF FutexWake
  <2> QED
    BY <1>3, <2>1, <2>2, <2>3 DEF Unlock
<1>4. ASSUME NEW t \in Threads, SpuriousWakeup(t) PROVE NoLostWakeup'
  BY <1>4 DEF SpuriousWakeup
<1> QED
  BY <1>1, <1>2, <1>3, <1>4 DEF Next

\* The inductive invariant holds throughout mutex_lock and mutex_unlock, for
\* any number of threads.
THEOREM SpecIInv == Spec => []IInv
<1>1. IInv /\ [Next]_vars => IInv'
  BY NextTypeOK, NextHolders, NextNoLostWakeup DEF IInv
<1> QED
  BY InitIInv, <1>1, PTL DEF Spec

\* The word never leaves the enum of futex.c.
THEOREM SpecTypeOK == Spec => []TypeOK
<1>1. IInv => TypeOK
  BY DEF IInv
<1> QED
  BY SpecIInv, <1>1, PTL

\* At most one thread is between mutex_lock and the release in mutex_unlock.
THEOREM SpecMutualExclusion == Spec => []MutualExclusion
<1>1. IInv => MutualExclusion
  BY DEF IInv
<1> QED
  BY SpecIInv, <1>1, PTL

\* No thread sleeps in FUTEX_WAIT with nobody left to wake it.
THEOREM SpecNoLostWakeup == Spec => []NoLostWakeup
<1>1. IInv => NoLostWakeup
  BY DEF IInv
<1> QED
  BY SpecIInv, <1>1, PTL

\* Every step of futex.c acquires or releases the abstract lock, or leaves the
\* set of holders as it was.
THEOREM Refinement == Spec => ImplementsLock
<1> DEFINE H == {t \in Threads : Holds(t)}
<1>1. Init => Abstract!Init
  BY DEF Init, Abstract!Init, Holds
<1>2. IInv /\ IInv' /\ [Next]_vars => [Abstract!Next]_H
  <2> SUFFICES ASSUME IInv, IInv', [Next]_vars
               PROVE  Abstract!Next \/ H' = H
    OBVIOUS
  <2> USE DEF IInv, TypeOK, MutualExclusion, WordTellsHolder, Holds, Goto
  <2>1. CASE UNCHANGED vars
    BY <2>1 DEF vars
  <2>2. ASSUME NEW t \in Threads,
               pc[t] \notin {"cs", "store"}, pc'[t] = "cs", val = UNLOCKED,
               \A s \in Threads \ {t} : pc'[s] = pc[s]
        PROVE  Abstract!Acquire(t)
    BY <2>2 DEF Abstract!Acquire
  <2>3. ASSUME NEW t \in Threads, Lock(t)
        PROVE  Abstract!Next \/ H' = H
    <3>1. CASE FastLock(t)
      <4>1. CASE val = UNLOCKED
        BY <2>2, <3>1, <4>1 DEF FastLock, Abstract!Next
      <4>2. CASE val # UNLOCKED
        BY <3>1, <4>2 DEF FastLock, Contended
      <4> QED BY <4>1, <4>2
    <3>2. CASE Mark(t)
      BY <3>2 DEF Mark
    <3>3. CASE FutexWait(t)
      BY <3>3 DEF FutexWait
    <3>4. CASE Retry(t)
      <4>1. CASE val = UNLOCKED
        BY <2>2, <3>4, <4>1 DEF Retry, Abstract!Next
      <4>2. CASE val # UNLOCKED
        BY <3>4, <4>2 DEF Retry, Contended
      <4> QED BY <4>1, <4>2
    <3> QED
      BY <2>3, <3>1, <3>2, <3>3, <3>4 DEF Lock
  <2>4. ASSUME NEW t \in Threads,
               pc[t] \in {"cs", "store"}, pc'[t] \notin {"cs", "store"},
               \A s \in Threads \ {t} : pc'[s] = pc[s]
        PROVE  Abstract!Release(t)
    BY <2>4 DEF Abstract!Release
  <2>5. ASSUME NEW t \in Threads, Unlock(t)
        PROVE  Abstract!Next \/ H' = H
    <3>1. CASE Decrement(t)
      <4>1. CASE val = LOCKED_NO_WAITER
        BY <2>4, <3>1, <4>1 DEF Decrement, Abstract!Next
      <4>2. CASE val # LOCKED_NO_WAITER
        BY <3>1, <4>2 DEF Decrement
      <4> QED BY <4>1, <4>2
    <3>2. CASE StoreUnlocked(t)
      BY <2>4, <3>2 DEF StoreUnlocked, Abstract!Next
    <3>3. CASE FutexWake(t)
      BY <3>3 DEF FutexWake, Asleep
    <3> QED
      BY <2>5, <3>1, <3>2, <3>3 DEF Unlock
  <2>6. ASSUME NEW t \in Threads, SpuriousWakeup(t)
        PROVE  H' = H
    BY <2>6 DEF SpuriousWakeup
  <2> QED
    BY <2>1, <2>3, <2>5, <2>6 DEF Next
<1> QED
  BY SpecIInv, <1>1, <1>2, PTL DEF Spec, ImplementsLock, Abstract!Spec
=============================================================================
