------------------------------- MODULE Mutex -------------------------------
(***************************************************************************)
(* The three-state futex mutex of 2021q1_croutine/futex.c, one action per  *)
(* atomic memory operation or system call.  val is the word in user        *)
(* memory; a thread whose pc is "asleep" is on the kernel's wait queue of  *)
(* that word.  Memory is sequentially consistent here.                     *)
(***************************************************************************)
EXTENDS Naturals, FiniteSets

CONSTANT Threads

UNLOCKED == 0
LOCKED_NO_WAITER == 1
LOCKED == 2

VARIABLES val,          \* struct mutex.val
          pc            \* where each thread is in mutex_lock / mutex_unlock

vars == <<val, pc>>

\* "mark"  about to cas 1 -> 2            "wait"  about to call FUTEX_WAIT
\* "retry" about to cas 0 -> 2            "cs"    mutex_lock has returned
\* "store" unlocking, about to store 0    "wake"  about to call FUTEX_WAKE
Labels == {"idle", "mark", "wait", "asleep", "retry", "cs", "store", "wake"}

Asleep == {t \in Threads : pc[t] = "asleep"}

\* The lock belongs to a thread from the cas that took it until the store or
\* the decrement that makes the word 0 again.
Holds(t) == pc[t] \in {"cs", "store"}

Goto(t, l) == pc' = [pc EXCEPT ![t] = l]

Init == /\ val = UNLOCKED
        /\ pc = [t \in Threads |-> "idle"]

\* The branch of the loop body on the value the last cas returned.
Contended(v) == IF v = LOCKED THEN "wait" ELSE "mark"

-----------------------------------------------------------------------------
(* mutex_lock *)

FastLockUnconditional(t) == /\ pc[t] = "idle"
                            /\ val' = LOCKED_NO_WAITER
                            /\ Goto(t, "cs")

\* The uncontended path: one cas 0 -> 1.
FastLock(t) ==
  /\ pc[t] = "idle"
  /\ \/ /\ val = UNLOCKED
        /\ val' = LOCKED_NO_WAITER
        /\ Goto(t, "cs")
     \/ /\ val # UNLOCKED
        /\ Goto(t, Contended(val))
        /\ UNCHANGED val

\* cas 1 -> 2 announces a waiter; if it finds 0 the thread does not sleep.
Mark(t) ==
  /\ pc[t] = "mark"
  /\ val' = IF val = LOCKED_NO_WAITER THEN LOCKED ELSE val
  /\ Goto(t, IF val = UNLOCKED THEN "retry" ELSE "wait")

\* The kernel compares the word and queues the thread in one step.
FutexWait(t) ==
  /\ pc[t] = "wait"
  /\ Goto(t, IF val = LOCKED THEN "asleep" ELSE "retry")
  /\ UNCHANGED val

\* FUTEX_WAIT may also return for no reason the program sees (a signal).
SpuriousWakeup(t) == pc[t] = "asleep" /\ Goto(t, "retry") /\ UNCHANGED val

RetryAsNoWaiter(t) ==
  /\ pc[t] = "retry"
  /\ \/ val = UNLOCKED /\ val' = LOCKED_NO_WAITER /\ Goto(t, "cs")
     \/ val # UNLOCKED /\ Goto(t, Contended(val)) /\ UNCHANGED val

\* The loop condition: cas 0 -> 2, pessimistically as if there were waiters.
Retry(t) ==
  /\ pc[t] = "retry"
  /\ \/ val = UNLOCKED /\ val' = LOCKED /\ Goto(t, "cs")
     \/ val # UNLOCKED /\ Goto(t, Contended(val)) /\ UNCHANGED val

-----------------------------------------------------------------------------
(* mutex_unlock *)

\* fetch_sub: a word that was not 1 takes the slow path.
Decrement(t) ==
  /\ pc[t] = "cs"
  /\ val' = val - 1
  /\ Goto(t, IF val = LOCKED_NO_WAITER THEN "idle" ELSE "store")

StoreUnlocked(t) == pc[t] = "store" /\ val' = UNLOCKED /\ Goto(t, "wake")

\* FUTEX_WAKE(1): any one of the sleepers, if there is one.
FutexWake(t) ==
  /\ pc[t] = "wake"
  /\ \/ Asleep = {} /\ Goto(t, "idle")
     \/ \E s \in Asleep : pc' = [pc EXCEPT ![t] = "idle", ![s] = "retry"]
  /\ UNCHANGED val

-----------------------------------------------------------------------------
Lock(t) == FastLock(t) \/ Mark(t) \/ FutexWait(t) \/ Retry(t)
Unlock(t) == Decrement(t) \/ StoreUnlocked(t) \/ FutexWake(t)

Next == \E t \in Threads : Lock(t) \/ Unlock(t) \/ SpuriousWakeup(t)

Spec == Init /\ [][Next]_vars

\* A thread inside mutex_lock or mutex_unlock, or in its critical section,
\* keeps running; nothing makes an idle thread ask for the lock.
Fairness ==
  \A t \in Threads :
     WF_vars(Mark(t) \/ FutexWait(t) \/ Retry(t) \/ Unlock(t))

FairSpec == Spec /\ Fairness

-----------------------------------------------------------------------------
(* Properties *)

\* The word stays one of the three values of the enum (lines 26-30), so the
\* decrement of mutex_unlock never wraps below 0.
TypeOK == /\ val \in {UNLOCKED, LOCKED_NO_WAITER, LOCKED}
          /\ pc \in [Threads -> Labels]

\* chan.c relies on it (lines 24-25): two threads are never both past
\* mutex_lock and before the end of mutex_unlock's release.
MutualExclusion == \A s, t \in Threads : Holds(s) /\ Holds(t) => s = t

\* While a thread sleeps in FUTEX_WAIT, either the word still says LOCKED, so
\* that the holder will take the slow path of mutex_unlock, or another thread
\* is awake on its way to wake it or to set LOCKED again.
NoLostWakeup ==
  Asleep # {} =>
     \/ val = LOCKED
     \/ \E t \in Threads : pc[t] \in {"mark", "wait", "retry", "store", "wake"}

\* A free word has no owner and an owned word is not free; in particular no
\* release by one thread frees a lock that another has taken meanwhile.
WordTellsHolder == (val = UNLOCKED) <=> (\A t \in Threads : ~Holds(t))

\* The inductive invariant the proofs use.
IInv == TypeOK /\ MutualExclusion /\ WordTellsHolder /\ NoLostWakeup

\* Threads that have found the lock taken and have not got it yet.
Contenders == {t \in Threads : pc[t] \in {"mark", "wait", "asleep", "retry"}}

\* If threads are waiting in mutex_lock, the lock is taken again and again:
\* a lost wakeup would leave it free forever with a thread asleep.
DeadlockFree == Contenders # {} ~> \E t \in Threads : pc[t] = "cs"

\* futex.c implements the abstract lock.
Abstract == INSTANCE AbstractLock WITH holders <- {t \in Threads : Holds(t)}
ImplementsLock == Abstract!Spec
=============================================================================
