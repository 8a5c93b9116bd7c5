---------------------------- MODULE AbstractLock ----------------------------
(***************************************************************************)
(* What a mutex promises its callers: at most one thread holds it, a       *)
(* thread that holds it is the only one that gives it back, and the lock   *)
(* never passes from one thread to another without being free in between.  *)
(* The futex mutex of futex.c is shown to implement this specification.    *)
(***************************************************************************)
CONSTANT Threads

VARIABLE holders        \* the threads that hold the lock

Init == holders = {}

Acquire(t) == /\ holders = {}
              /\ holders' = {t}

Release(t) == /\ holders = {t}
              /\ holders' = {}

Next == \E t \in Threads : Acquire(t) \/ Release(t)

Spec == Init /\ [][Next]_holders
=============================================================================
