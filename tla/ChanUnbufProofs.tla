---------------------------- MODULE ChanUnbufProofs ----------------------------
(***************************************************************************)
(* The safety of the unbuffered channel for any number of writers, readers *)
(* and messages and any number of repetitions, when chan_close is called   *)
(* after the threads have been joined, as main.c does.  (An early close    *)
(* breaks it: ChanUnbuf's OkMeansExchanged.)                               *)
(*                                                                         *)
(* The argument: a side's mutex leaves one thread of a side in the         *)
(* protocol (Ownership), so a pointer in datap has one thread that may     *)
(* follow it (Service), and the value of a futex is known from whether     *)
(* its side's thread has made the increment and whether the partner still  *)
(* owes the decrement (FtxCounts).  A thread gets past its futex only when *)
(* the decrement is no longer owed, and by then it has been served         *)
(* (Exchange).                                                             *)
(***************************************************************************)
EXTENDS ChanUnbuf, TestThreadsProofs

InMutex(t) == pc[t] \notin {"idle", "lock", "end"}

\* From the cas that left a pointer to the end of the do-while loop.
Waiting(t) == pc[t] \in {"inc", "wait", "asleep", "load"}

Ownership ==
  /\ \A t \in Threads : InMutex(t) <=> owner[Side(t)] = t
  /\ \A s \in Sides : owner[s] # NULL => Side(owner[s]) = s

Posted == datap # NULL => Waiting(datap)

Service ==
  \A u \in Threads : pc[u] \in {"copy", "clear", "dec"} =>
     /\ ptr[u] \in Threads /\ Side(ptr[u]) = Other(Side(u))
     /\ Waiting(ptr[u])
     /\ datap = IF pc[u] = "dec" THEN NULL ELSE ptr[u]

\* The thread of side s waits for a decrement that its partner still owes.
Owed(s) == \/ datap # NULL /\ Side(datap) = s
           \/ \E u \in Threads : Side(u) = Other(s) /\ pc[u] = "dec"
AtIncrement(s) == \E t \in Threads : Side(t) = s /\ pc[t] = "inc"

FtxCounts ==
  \A s \in Sides : ftx[s] = CHAN_NOT_READY + (IF Owed(s) THEN 1 ELSE 0)
                                           - (IF AtIncrement(s) THEN 1 ELSE 0)

\* A thread that waits has been served once its pointer has left datap or the
\* partner is about to take it away.
Exchange ==
  \A t \in Threads :
    /\ pc[t] \in {"lock", "cas", "copy"} => ~exchanged[t]
    /\ pc[t] \in {"clear", "dec", "wake", "check", "unlock"} => exchanged[t]
    /\ Waiting(t) => (exchanged[t] <=> \/ datap # t
                                       \/ \E u \in Threads : pc[u] = "clear" /\ ptr[u] = t)

\* main.c closes the channel only when every thread is through its messages.
CloseAfterJoin ==
  /\ closed <=> main # <<"join">>
  /\ \A t \in Threads : /\ pc[t] # "end"
                        /\ InCall(t) => done[t] < Batch(t)
                        /\ closed => pc[t] = "idle" /\ done[t] = Batch(t)

IInv == /\ TypeOK /\ Ownership /\ Posted /\ Service /\ Exchange
        /\ CloseAfterJoin /\ NoLostWakeup
        /\ ~closed => FtxCounts

-----------------------------------------------------------------------------
\* The mutex is taken at the label lock and given back at the label unlock.
LEMMA NextOwnership ==
  ASSUME ~EarlyClose, IInv, [Next]_vars PROVE Ownership'
<1> USE ThreadSides DEF IInv, TypeOK, Goto, chanVars, progVars, CloseAfterJoin, Labels, Pointers, NULL, Ownership, InMutex
<1>1. ASSUME NEW t \in Threads, Step(t) PROVE Ownership'
  <2>1. CASE Call(t)
    BY <2>1 DEF Call
  <2>2. CASE Lock(t)
    BY <2>2 DEF Lock
  <2>3. CASE CasDatap(t)
    BY <2>3 DEF CasDatap
  <2>4. CASE Copy(t)
    BY <2>4 DEF Copy
  <2>5. CASE ClearDatap(t)
    BY <2>5 DEF ClearDatap
  <2>6. CASE Decrement(t)
    BY <2>6 DEF Decrement
  <2>7. CASE Wake(t)
    BY <2>7 DEF Wake, Asleep
  <2>8. CASE Increment(t)
    BY <2>8 DEF Increment
  <2>9. CASE FutexWait(t)
    BY <2>9 DEF FutexWait
  <2>10. CASE LoadFtx(t)
    BY <2>10 DEF LoadFtx
  <2>11. CASE CheckClosed(t)
    BY <2>11 DEF CheckClosed
  <2>12. CASE Return(t)
    BY <2>12 DEF Return
  <2> QED
    BY <1>1, <2>1, <2>2, <2>3, <2>4, <2>5, <2>6, <2>7, <2>8, <2>9, <2>10, <2>11, <2>12 DEF Step
<1>2. ASSUME NEW t \in Threads, SpuriousWakeup(t) PROVE Ownership'
  BY <1>2 DEF SpuriousWakeup
<1>3. CASE NextRepetition
  BY <1>3 DEF NextRepetition, Joined
<1>4. CASE Close
  BY <1>4 DEF Close, CloseSetClosed, CloseStore, CloseWakeAll, Joined, Asleep
<1>5. CASE UNCHANGED vars
  BY <1>5 DEF vars, chanVars, progVars
<1> QED
  BY <1>1, <1>2, <1>3, <1>4, <1>5 DEF Next, Finished

\* Types are preserved; that a futex stays within its enum follows from FtxCounts,
\* that a message is one of Messages from the bounds of the batches.
LEMMA NextTypeOK ==
  ASSUME ~EarlyClose, IInv, [Next]_vars PROVE TypeOK'
<1> USE ThreadSides DEF IInv, TypeOK, Goto, chanVars, progVars, CloseAfterJoin, Labels, Pointers, NULL, InCall, CHAN_NOT_READY, CHAN_WAITING, CHAN_CLOSED
<1>1. ASSUME NEW t \in Threads, Step(t) PROVE TypeOK'
  <2>1. CASE Call(t)
    <3>1. From(t) + done[t] \in Messages
      <4>1. done[t] \in Int /\ done[t] >= 0 /\ done[t] < Batch(t)
        BY <2>1, BatchBounds DEF Call
      <4> QED
        BY <4>1, BatchBounds, ThreadsAssumption DEF Messages
    <3> QED
      BY <2>1, <3>1 DEF Call
  <2>2. CASE Lock(t)
    BY <2>2 DEF Lock
  <2>3. CASE CasDatap(t)
    <3>1. datap # NULL => datap \in Threads
      BY DEF CasDatap
    <3>2. pc' \in [Threads -> Labels]
      BY <2>3 DEF CasDatap
    <3>3. ptr' \in [Threads -> Pointers]
      BY <2>3, <3>1 DEF CasDatap
    <3> QED
      BY <2>3, <3>1, <3>2, <3>3 DEF CasDatap
  <2>4. CASE Copy(t)
    BY <2>4 DEF Copy, Service, NoMsg
  <2>5. CASE ClearDatap(t)
    BY <2>5 DEF ClearDatap
  <2>6. CASE Decrement(t)
    <3> DEFINE o == Other(Side(t))
    <3>1. ~closed /\ o \in Sides /\ ftx[o] - 1 \in 0 .. 2
      <4>1. o \in Sides /\ Side(t) = Other(o) /\ ~closed
        BY <2>6 DEF Decrement
      <4>2. Owed(o)
        BY <2>6, <4>1 DEF Decrement, Owed
      <4> QED
        BY <4>1, <4>2 DEF FtxCounts
    <3> QED
      BY <2>6, <3>1 DEF Decrement
  <2>7. CASE Wake(t)
    BY <2>7 DEF Wake, Asleep
  <2>8. CASE Increment(t)
    <3> DEFINE s == Side(t)
    <3>1. ~closed /\ s \in Sides /\ ftx[s] + 1 \in 0 .. 2
      <4>1. s \in Sides /\ ~closed /\ AtIncrement(s)
        BY <2>8 DEF Increment, AtIncrement
      <4>2. FtxCounts
        BY <4>1
      <4> HIDE DEF IInv
      <4> QED
        BY <4>1, <4>2 DEF FtxCounts
    <3> QED
      BY <2>8, <3>1 DEF Increment
  <2>9. CASE FutexWait(t)
    BY <2>9 DEF FutexWait
  <2>10. CASE LoadFtx(t)
    BY <2>10 DEF LoadFtx
  <2>11. CASE CheckClosed(t)
    BY <2>11 DEF CheckClosed
  <2>12. CASE Return(t)
    BY <2>12, BatchBounds DEF Return
  <2> QED
    BY <1>1, <2>1, <2>2, <2>3, <2>4, <2>5, <2>6, <2>7, <2>8, <2>9, <2>10, <2>11, <2>12 DEF Step
<1>2. ASSUME NEW t \in Threads, SpuriousWakeup(t) PROVE TypeOK'
  BY <1>2 DEF SpuriousWakeup
<1>3. CASE NextRepetition
  BY <1>3, BatchBounds, RunAssumption DEF NextRepetition, Joined
<1>4. CASE Close
  <2>1. CASE CloseSetClosed
    BY <2>1 DEF CloseSetClosed, Joined, Sides
  <2>2. CASE CloseStore("recv", <<"store", "send">>)
    BY <2>2 DEF CloseStore, Sides
  <2>3. CASE CloseStore("send", <<"wake", "recv">>)
    BY <2>3 DEF CloseStore, Sides
  <2>4. CASE CloseWakeAll("recv", <<"wake", "send">>)
    BY <2>4 DEF CloseWakeAll, Asleep, Sides
  <2>5. CASE CloseWakeAll("send", <<"done">>)
    BY <2>5 DEF CloseWakeAll, Asleep, Sides
  <2> QED
    BY <1>4, <2>1, <2>2, <2>3, <2>4, <2>5 DEF Close
<1>5. CASE UNCHANGED vars
  BY <1>5 DEF vars, chanVars, progVars
<1> QED
  BY <1>1, <1>2, <1>3, <1>4, <1>5 DEF Next, Finished

\* Of each side at most one thread is in the protocol.
LEMMA Alone ==
  ASSUME IInv, NEW t \in Threads, NEW u \in Threads,
         Side(t) = Side(u), InMutex(t), InMutex(u)
  PROVE  t = u
BY DEF IInv, Ownership

\* What a waiter's side is owed is owed to the waiter.
LEMMA OwedToWaiter ==
  ASSUME IInv, NEW t \in Threads, Waiting(t)
  PROVE  /\ Owed(Side(t)) <=> \/ datap = t
                              \/ \E u \in Threads : pc[u] = "dec" /\ ptr[u] = t
         /\ AtIncrement(Side(t)) <=> pc[t] = "inc"
<1>1. InMutex(t) /\ (\A u \in Threads : Waiting(u) => InMutex(u)) /\ t # NULL
  BY ThreadSides DEF Waiting, InMutex, NULL
<1>2. datap # NULL => datap \in Threads /\ Waiting(datap)
  BY DEF IInv, TypeOK, Pointers, Posted
<1>3. datap # NULL /\ Side(datap) = Side(t) => datap = t
  BY <1>1, <1>2, Alone
<1>4. ASSUME NEW u \in Threads, pc[u] = "dec"
      PROVE  Side(u) = Other(Side(t)) <=> ptr[u] = t
  <2>1. ptr[u] \in Threads /\ Side(ptr[u]) = Other(Side(u)) /\ InMutex(ptr[u])
    BY <1>1, <1>4 DEF IInv, Service
  <2> QED
    BY <2>1, <1>1, Alone, ThreadSides
<1>5. AtIncrement(Side(t)) <=> pc[t] = "inc"
  <2>1. ASSUME NEW u \in Threads, Side(u) = Side(t), pc[u] = "inc" PROVE u = t
    BY <2>1, <1>1, Alone DEF Waiting
  <2> QED
    BY <2>1 DEF AtIncrement
<1> QED
  BY <1>1, <1>3, <1>4, <1>5 DEF Owed

\* A waiter reads off its futex whether its partner still owes the decrement.
LEMMA FtxOfWaiter ==
  ASSUME IInv, ~closed, NEW t \in Threads, Waiting(t)
  PROVE  ftx[Side(t)] = (IF pc[t] = "inc" THEN CHAN_NOT_READY ELSE CHAN_WAITING)
            <=> \/ datap = t
                \/ \E u \in Threads : pc[u] = "dec" /\ ptr[u] = t
<1>1. ftx[Side(t)] = CHAN_NOT_READY + (IF Owed(Side(t)) THEN 1 ELSE 0)
                                    - (IF pc[t] = "inc" THEN 1 ELSE 0)
  BY ThreadSides, OwedToWaiter DEF IInv, FtxCounts
<1> QED
  BY <1>1, OwedToWaiter DEF CHAN_NOT_READY, CHAN_WAITING

\* A pointer stays with a thread that waits until the partner, which alone holds
\* the other mutex, has made its decrement.
LEMMA NextService ==
  ASSUME ~EarlyClose, IInv, [Next]_vars PROVE (Posted /\ Service)'
<1> USE ThreadSides DEF IInv, TypeOK, Goto, chanVars, progVars, CloseAfterJoin, Labels, Pointers, NULL, Ownership, InMutex, InCall, Posted, Service, Waiting
<1>1. ASSUME NEW t \in Threads, Step(t) PROVE (Posted /\ Service)'
  <2>1. CASE Call(t)
    BY <2>1 DEF Call
  <2>2. CASE Lock(t)
    BY <2>2 DEF Lock
  <2>3. CASE CasDatap(t)
    <3>1. datap # NULL => datap \in Threads /\ Side(datap) = Other(Side(t))
      <4> SUFFICES ASSUME datap # NULL PROVE Side(datap) = Other(Side(t)) /\ datap \in Threads
        OBVIOUS
      <4>1. datap \in Threads /\ InMutex(datap) /\ InMutex(t) /\ datap # t
        BY <2>3 DEF CasDatap, Posted, Waiting
      <4> QED
        BY <4>1, Alone
    <3>2. \A u \in Threads : InMutex(u) /\ Side(u) = Side(t) => u = t
      BY <2>3, Alone DEF CasDatap, InMutex
    <3>3. \A u \in Threads : pc[u] \notin {"copy", "clear", "dec"}
      <4> SUFFICES ASSUME NEW u \in Threads, pc[u] \in {"copy", "clear", "dec"} PROVE FALSE
        OBVIOUS
      <4>1. ptr[u] \in Threads /\ InMutex(ptr[u]) /\ Side(ptr[u]) = Other(Side(u)) /\ Waiting(ptr[u])
        BY DEF Service, Waiting
      <4>2. Side(u) # Side(t)
        BY <3>2, <2>3 DEF CasDatap
      <4> QED
        BY <3>2, <4>1, <4>2, <2>3 DEF CasDatap, Waiting
    <3>4. CASE datap = NULL
      BY <2>3, <3>2, <3>3, <3>4 DEF CasDatap
    <3>5. CASE datap # NULL
      BY <2>3, <3>1, <3>3, <3>5 DEF CasDatap
    <3> QED
      BY <3>4, <3>5
  <2>4. CASE Copy(t)
    BY <2>4 DEF Copy
  <2>5. CASE ClearDatap(t)
    BY <2>5 DEF ClearDatap
  <2>6. CASE Decrement(t)
    BY <2>6 DEF Decrement
  <2>7. CASE Wake(t)
    <3>1. CASE pc' = [pc EXCEPT ![t] = "unlock"]
      BY <2>7, <3>1 DEF Wake
    <3>2. ASSUME NEW u \in Threads, pc[u] = "asleep", pc' = [pc EXCEPT ![t] = "unlock", ![u] = "load"]
          PROVE  (Posted /\ Service)'
      <4>1. \A x \in Threads : /\ Waiting(x)' <=> Waiting(x)
                               /\ pc'[x] \in {"copy", "clear", "dec"} => pc'[x] = pc[x]
                               /\ pc'[x] \in {"lock", "cas", "copy"} => pc'[x] = pc[x]
                               /\ pc'[x] \in {"clear", "dec", "wake", "check"} => pc'[x] = pc[x]
                               /\ pc'[x] = "unlock" => pc[x] \in {"wake", "unlock"}
                               /\ pc'[x] = "clear" <=> pc[x] = "clear"
        BY <2>7, <3>2 DEF Wake
      <4>2. datap # NULL => datap \in Threads
        OBVIOUS
      <4>3. UNCHANGED <<datap, ptr, exchanged>>
        BY <2>7 DEF Wake
      <4> HIDE DEF Waiting
      <4> QED
        BY <4>1, <4>2, <4>3
    <3> QED
      BY <2>7, <3>1, <3>2 DEF Wake, Asleep
  <2>8. CASE Increment(t)
    <3>1. Waiting(t) /\ ~closed /\ pc[t] = "inc"
      BY <2>8 DEF Increment, Waiting, InCall, InMutex
    <3>2. CASE ftx[Side(t)] = CHAN_NOT_READY
      BY <2>8, <3>2 DEF Increment
    <3>3. CASE ftx[Side(t)] # CHAN_NOT_READY
      <4>1. datap # t /\ \A u \in Threads : ~(pc[u] \in {"copy", "clear", "dec"} /\ ptr[u] = t)
        <5>1. datap # t /\ \A u \in Threads : ~(pc[u] = "dec" /\ ptr[u] = t)
          <6> HIDE DEF IInv, Waiting
          <6> QED
            BY <3>1, <3>3, FtxOfWaiter
        <5> QED
          BY <5>1 DEF Service
      <4> QED
        BY <2>8, <3>3, <4>1 DEF Increment
    <3> QED
      BY <3>2, <3>3
  <2>9. CASE FutexWait(t)
    BY <2>9 DEF FutexWait
  <2>10. CASE LoadFtx(t)
    <3>1. Waiting(t) /\ ~closed
      BY <2>10 DEF LoadFtx, Waiting, InCall, InMutex
    <3> QED
      BY <2>10, <3>1, FtxOfWaiter, Alone DEF LoadFtx, CHAN_NOT_READY, CHAN_WAITING
  <2>11. CASE CheckClosed(t)
    BY <2>11 DEF CheckClosed
  <2>12. CASE Return(t)
    BY <2>12 DEF Return
  <2> QED
    BY <1>1, <2>1, <2>2, <2>3, <2>4, <2>5, <2>6, <2>7, <2>8, <2>9, <2>10, <2>11, <2>12 DEF Step
<1>2. ASSUME NEW t \in Threads, SpuriousWakeup(t) PROVE (Posted /\ Service)'
  BY <1>2 DEF SpuriousWakeup
<1>3. CASE NextRepetition
  BY <1>3 DEF NextRepetition, Joined
<1>4. CASE Close
  BY <1>4 DEF Close, CloseSetClosed, CloseStore, CloseWakeAll, Joined, Asleep
<1>5. CASE UNCHANGED vars
  BY <1>5 DEF vars, chanVars, progVars
<1> QED
  BY <1>1, <1>2, <1>3, <1>4, <1>5 DEF Next, Finished

\* The program closes the channel when the threads have ended.
LEMMA NextCloseAfterJoin ==
  ASSUME ~EarlyClose, IInv, [Next]_vars PROVE CloseAfterJoin'
<1> USE ThreadSides DEF IInv, TypeOK, Goto, chanVars, progVars, CloseAfterJoin, Labels, Pointers, NULL, InCall
<1>1. ASSUME NEW t \in Threads, Step(t) PROVE CloseAfterJoin'
  <2>1. CASE Call(t)
    BY <2>1 DEF Call
  <2>2. CASE Lock(t)
    BY <2>2 DEF Lock
  <2>3. CASE CasDatap(t)
    BY <2>3 DEF CasDatap
  <2>4. CASE Copy(t)
    BY <2>4 DEF Copy
  <2>5. CASE ClearDatap(t)
    BY <2>5 DEF ClearDatap
  <2>6. CASE Decrement(t)
    BY <2>6 DEF Decrement
  <2>7. CASE Wake(t)
    BY <2>7 DEF Wake, Asleep
  <2>8. CASE Increment(t)
    BY <2>8 DEF Increment
  <2>9. CASE FutexWait(t)
    BY <2>9 DEF FutexWait
  <2>10. CASE LoadFtx(t)
    BY <2>10 DEF LoadFtx
  <2>11. CASE CheckClosed(t)
    BY <2>11 DEF CheckClosed
  <2>12. CASE Return(t)
    BY <2>12, BatchBounds DEF Return
  <2> QED
    BY <1>1, <2>1, <2>2, <2>3, <2>4, <2>5, <2>6, <2>7, <2>8, <2>9, <2>10, <2>11, <2>12 DEF Step
<1>2. ASSUME NEW t \in Threads, SpuriousWakeup(t) PROVE CloseAfterJoin'
  BY <1>2 DEF SpuriousWakeup
<1>3. CASE NextRepetition
  BY <1>3, BatchBounds DEF NextRepetition, Joined
<1>4. CASE Close
  BY <1>4 DEF Close, CloseSetClosed, CloseStore, CloseWakeAll, Joined, Asleep
<1>5. CASE UNCHANGED vars
  BY <1>5 DEF vars, chanVars, progVars
<1> QED
  BY <1>1, <1>2, <1>3, <1>4, <1>5 DEF Next, Finished

\* A pointer is taken out of datap by the thread that has moved the data.
LEMMA NextExchange ==
  ASSUME ~EarlyClose, IInv, [Next]_vars PROVE Exchange'
<1> USE ThreadSides DEF IInv, TypeOK, Goto, chanVars, progVars, CloseAfterJoin, Labels, Pointers, NULL, Ownership, InMutex, InCall, Posted, Service, Waiting, Exchange
<1>1. ASSUME NEW t \in Threads, Step(t) PROVE Exchange'
  <2>1. CASE Call(t)
    BY <2>1 DEF Call
  <2>2. CASE Lock(t)
    BY <2>2 DEF Lock
  <2>3. CASE CasDatap(t)
    <3>1. datap # NULL => datap \in Threads /\ Side(datap) = Other(Side(t))
      <4> SUFFICES ASSUME datap # NULL PROVE Side(datap) = Other(Side(t)) /\ datap \in Threads
        OBVIOUS
      <4>1. datap \in Threads /\ InMutex(datap) /\ InMutex(t) /\ datap # t
        BY <2>3 DEF CasDatap, Posted, Waiting
      <4> QED
        BY <4>1, Alone
    <3>2. \A u \in Threads : InMutex(u) /\ Side(u) = Side(t) => u = t
      BY <2>3, Alone DEF CasDatap, InMutex
    <3>3. \A u \in Threads : pc[u] \notin {"copy", "clear", "dec"}
      <4> SUFFICES ASSUME NEW u \in Threads, pc[u] \in {"copy", "clear", "dec"} PROVE FALSE
        OBVIOUS
      <4>1. ptr[u] \in Threads /\ InMutex(ptr[u]) /\ Side(ptr[u]) = Other(Side(u)) /\ Waiting(ptr[u])
        BY DEF Service, Waiting
      <4>2. Side(u) # Side(t)
        BY <3>2, <2>3 DEF CasDatap
      <4> QED
        BY <3>2, <4>1, <4>2, <2>3 DEF CasDatap, Waiting
    <3>4. CASE datap = NULL
      BY <2>3, <3>2, <3>3, <3>4 DEF CasDatap
    <3>5. CASE datap # NULL
      BY <2>3, <3>1, <3>3, <3>5 DEF CasDatap
    <3> QED
      BY <3>4, <3>5
  <2>4. CASE Copy(t)
    BY <2>4 DEF Copy
  <2>5. CASE ClearDatap(t)
    BY <2>5 DEF ClearDatap
  <2>6. CASE Decrement(t)
    BY <2>6 DEF Decrement
  <2>7. CASE Wake(t)
    <3>1. CASE pc' = [pc EXCEPT ![t] = "unlock"]
      BY <2>7, <3>1 DEF Wake
    <3>2. ASSUME NEW u \in Threads, pc[u] = "asleep", pc' = [pc EXCEPT ![t] = "unlock", ![u] = "load"]
          PROVE  Exchange'
      <4>1. \A x \in Threads : /\ Waiting(x)' <=> Waiting(x)
                               /\ pc'[x] \in {"copy", "clear", "dec"} => pc'[x] = pc[x]
                               /\ pc'[x] \in {"lock", "cas", "copy"} => pc'[x] = pc[x]
                               /\ pc'[x] \in {"clear", "dec", "wake", "check"} => pc'[x] = pc[x]
                               /\ pc'[x] = "unlock" => pc[x] \in {"wake", "unlock"}
                               /\ pc'[x] = "clear" <=> pc[x] = "clear"
        BY <2>7, <3>2 DEF Wake
      <4>2. datap # NULL => datap \in Threads
        OBVIOUS
      <4>3. UNCHANGED <<datap, ptr, exchanged>>
        BY <2>7 DEF Wake
      <4> HIDE DEF Waiting
      <4> QED
        BY <4>1, <4>2, <4>3
    <3> QED
      BY <2>7, <3>1, <3>2 DEF Wake, Asleep
  <2>8. CASE Increment(t)
    <3>1. Waiting(t) /\ ~closed /\ pc[t] = "inc"
      BY <2>8 DEF Increment, Waiting, InCall, InMutex
    <3>2. CASE ftx[Side(t)] = CHAN_NOT_READY
      BY <2>8, <3>2 DEF Increment
    <3>3. CASE ftx[Side(t)] # CHAN_NOT_READY
      <4>1. datap # t /\ \A u \in Threads : ~(pc[u] \in {"copy", "clear", "dec"} /\ ptr[u] = t)
        <5>1. datap # t /\ \A u \in Threads : ~(pc[u] = "dec" /\ ptr[u] = t)
          <6> HIDE DEF IInv, Waiting
          <6> QED
            BY <3>1, <3>3, FtxOfWaiter
        <5> QED
          BY <5>1 DEF Service
      <4> QED
        BY <2>8, <3>3, <4>1 DEF Increment
    <3> QED
      BY <3>2, <3>3
  <2>9. CASE FutexWait(t)
    BY <2>9 DEF FutexWait
  <2>10. CASE LoadFtx(t)
    <3>1. Waiting(t) /\ ~closed
      BY <2>10 DEF LoadFtx, Waiting, InCall, InMutex
    <3> QED
      BY <2>10, <3>1, FtxOfWaiter, Alone DEF LoadFtx, CHAN_NOT_READY, CHAN_WAITING
  <2>11. CASE CheckClosed(t)
    BY <2>11 DEF CheckClosed
  <2>12. CASE Return(t)
    BY <2>12 DEF Return
  <2> QED
    BY <1>1, <2>1, <2>2, <2>3, <2>4, <2>5, <2>6, <2>7, <2>8, <2>9, <2>10, <2>11, <2>12 DEF Step
<1>2. ASSUME NEW t \in Threads, SpuriousWakeup(t) PROVE Exchange'
  BY <1>2 DEF SpuriousWakeup
<1>3. CASE NextRepetition
  BY <1>3 DEF NextRepetition, Joined
<1>4. CASE Close
  BY <1>4 DEF Close, CloseSetClosed, CloseStore, CloseWakeAll, Joined, Asleep
<1>5. CASE UNCHANGED vars
  BY <1>5 DEF vars, chanVars, progVars
<1> QED
  BY <1>1, <1>2, <1>3, <1>4, <1>5 DEF Next, Finished

\* The decrement that finds WAITING is followed by a FUTEX_WAKE.
LEMMA NextNoLostWakeup ==
  ASSUME ~EarlyClose, IInv, [Next]_vars PROVE NoLostWakeup'
<1> USE ThreadSides DEF IInv, TypeOK, Goto, chanVars, progVars, CloseAfterJoin, Labels, Pointers, NULL, Ownership, InMutex, InCall, NoLostWakeup, CHAN_NOT_READY, CHAN_WAITING
<1>1. ASSUME NEW t \in Threads, Step(t) PROVE NoLostWakeup'
  <2>1. CASE Call(t)
    BY <2>1 DEF Call
  <2>2. CASE Lock(t)
    BY <2>2 DEF Lock
  <2>3. CASE CasDatap(t)
    BY <2>3 DEF CasDatap
  <2>4. CASE Copy(t)
    BY <2>4 DEF Copy
  <2>5. CASE ClearDatap(t)
    BY <2>5 DEF ClearDatap
  <2>6. CASE Decrement(t)
    BY <2>6 DEF Decrement
  <2>7. CASE Wake(t)
    <3>1. CASE pc' = [pc EXCEPT ![t] = "unlock"] /\ Asleep(Other(Side(t))) = {}
      BY <2>7, <3>1 DEF Wake, Asleep
    <3>2. ASSUME NEW u \in Threads, pc[u] = "asleep", Side(u) = Other(Side(t)),
                 pc' = [pc EXCEPT ![t] = "unlock", ![u] = "load"]
          PROVE  NoLostWakeup'
      <4>1. \A x \in Threads : pc'[x] = "asleep" => pc[x] = "asleep" /\ x # u
        BY <2>7, <3>2 DEF Wake
      <4>2. \A x \in Threads : pc[x] = "asleep" /\ Side(x) = Side(u) => x = u
        BY <2>7, <3>2, Alone DEF InMutex
      <4> QED
        BY <2>7, <3>2, <4>1, <4>2 DEF Wake
    <3> QED
      BY <2>7, <3>1, <3>2 DEF Wake, Asleep
  <2>8. CASE Increment(t)
    BY <2>8 DEF Increment
  <2>9. CASE FutexWait(t)
    BY <2>9 DEF FutexWait
  <2>10. CASE LoadFtx(t)
    BY <2>10 DEF LoadFtx
  <2>11. CASE CheckClosed(t)
    BY <2>11 DEF CheckClosed
  <2>12. CASE Return(t)
    BY <2>12 DEF Return
  <2> QED
    BY <1>1, <2>1, <2>2, <2>3, <2>4, <2>5, <2>6, <2>7, <2>8, <2>9, <2>10, <2>11, <2>12 DEF Step
<1>2. ASSUME NEW t \in Threads, SpuriousWakeup(t) PROVE NoLostWakeup'
  BY <1>2 DEF SpuriousWakeup
<1>3. CASE NextRepetition
  BY <1>3 DEF NextRepetition, Joined
<1>4. CASE Close
  BY <1>4 DEF Close, CloseSetClosed, CloseStore, CloseWakeAll, Joined, Asleep
<1>5. CASE UNCHANGED vars
  BY <1>5 DEF vars, chanVars, progVars
<1> QED
  BY <1>1, <1>2, <1>3, <1>4, <1>5 DEF Next, Finished

\* A step that touches neither futex nor debt keeps the count.
LEMMA FtxKept ==
  ASSUME IInv, closed' = closed, ftx' = ftx,
         \A s \in Sides : (Owed(s)' <=> Owed(s)) /\ (AtIncrement(s)' <=> AtIncrement(s))
  PROVE  (~closed => FtxCounts)'
BY DEF IInv, FtxCounts

\* The futex follows the increment of its side and the decrement of the other.
LEMMA NextFtxCounts ==
  ASSUME ~EarlyClose, IInv, [Next]_vars PROVE (~closed => FtxCounts)'
<1> USE ThreadSides DEF IInv, TypeOK, Goto, chanVars, progVars, CloseAfterJoin, Labels, Pointers, NULL, Ownership, InMutex, InCall
<1>1. ASSUME NEW t \in Threads, Step(t) PROVE (~closed => FtxCounts)'
  <2>1. CASE Call(t)
    <3>1. closed' = closed /\ ftx' = ftx
      BY <2>1 DEF Call
    <3>2. \A s \in Sides : (Owed(s)' <=> Owed(s)) /\ (AtIncrement(s)' <=> AtIncrement(s))
      BY <2>1 DEF Call, Owed, AtIncrement
    <3> HIDE DEF IInv
    <3> QED
      BY <3>1, <3>2, FtxKept
  <2>2. CASE Lock(t)
    <3>1. closed' = closed /\ ftx' = ftx
      BY <2>2 DEF Lock
    <3>2. \A s \in Sides : (Owed(s)' <=> Owed(s)) /\ (AtIncrement(s)' <=> AtIncrement(s))
      BY <2>2 DEF Lock, Owed, AtIncrement
    <3> HIDE DEF IInv
    <3> QED
      BY <3>1, <3>2, FtxKept
  <2>3. CASE CasDatap(t)
    <3> DEFINE s == Side(t)
    <3>1. \A u \in Threads : InMutex(u) /\ Side(u) = s => u = t
      BY <2>3, Alone DEF CasDatap
    <3>2. \A u \in Threads : pc[u] \notin {"copy", "clear", "dec"}
      <4> SUFFICES ASSUME NEW u \in Threads, pc[u] \in {"copy", "clear", "dec"} PROVE FALSE
        OBVIOUS
      <4>1. ptr[u] \in Threads /\ InMutex(ptr[u]) /\ Side(ptr[u]) = Other(Side(u)) /\ Waiting(ptr[u])
        BY DEF Service, Waiting
      <4>2. Side(u) # s
        BY <3>1, <2>3 DEF CasDatap
      <4> QED
        BY <3>1, <4>1, <4>2, <2>3 DEF CasDatap, Waiting
    <3>3. CASE datap = NULL
      <4>1. /\ ~Owed(s) /\ Owed(s)' /\ ~AtIncrement(s) /\ AtIncrement(s)'
            /\ (Owed(Other(s))' <=> Owed(Other(s))) /\ (AtIncrement(Other(s))' <=> AtIncrement(Other(s)))
        <5>1. /\ \A x \in Threads : pc'[x] = IF x = t THEN "inc" ELSE pc[x]
              /\ datap' = t /\ t # NULL /\ Other(s) # s
          BY <2>3, <3>3 DEF CasDatap
        <5>2. ~Owed(s) /\ Owed(s)' /\ (Owed(Other(s))' <=> Owed(Other(s)))
          BY <5>1, <3>2, <3>3 DEF Owed
        <5>3. ~AtIncrement(s) /\ AtIncrement(s)' /\ (AtIncrement(Other(s))' <=> AtIncrement(Other(s)))
          <6>1. pc[t] = "cas" /\ Side(t) = s
            BY <2>3 DEF CasDatap
          <6> HIDE DEF IInv
          <6>2. ~AtIncrement(s)
            BY <3>1, <6>1 DEF AtIncrement
          <6>3. AtIncrement(s)'
            BY <5>1, <6>1 DEF AtIncrement
          <6>4. AtIncrement(Other(s))' <=> AtIncrement(Other(s))
            BY <5>1, <6>1 DEF AtIncrement
          <6> QED
            BY <6>2, <6>3, <6>4
        <5> QED
          BY <5>2, <5>3
      <4>2. s \in Sides /\ ftx' = ftx /\ closed' = closed /\ ~closed
        BY <2>3 DEF CasDatap
      <4>3. FtxCounts /\ ftx[s] \in Int /\ ftx[Other(s)] \in Int
        BY <4>2
      <4> HIDE DEF IInv
      <4> QED
        BY <4>1, <4>2, <4>3, ThreadSides DEF FtxCounts, CHAN_NOT_READY
    <3>4. CASE datap # NULL
      <4>1. ftx' = ftx /\ closed' = closed
        BY <2>3 DEF CasDatap
      <4>2. \A o \in Sides : (Owed(o)' <=> Owed(o)) /\ (AtIncrement(o)' <=> AtIncrement(o))
        BY <2>3, <3>4 DEF CasDatap, Owed, AtIncrement
      <4> HIDE DEF IInv
      <4> QED
        BY <4>1, <4>2, FtxKept
    <3> QED
      BY <3>3, <3>4
  <2>4. CASE Copy(t)
    <3>1. closed' = closed /\ ftx' = ftx
      BY <2>4 DEF Copy
    <3>2. \A s \in Sides : (Owed(s)' <=> Owed(s)) /\ (AtIncrement(s)' <=> AtIncrement(s))
      BY <2>4 DEF Copy, Owed, AtIncrement
    <3> HIDE DEF IInv
    <3> QED
      BY <3>1, <3>2, FtxKept
  <2>5. CASE ClearDatap(t)
    <3> DEFINE s == Side(t)
    <3>1. s \in Sides /\ datap # NULL /\ Side(datap) = Other(s)
      BY <2>5 DEF ClearDatap, Service
    <3>2. /\ Owed(Other(s)) /\ Owed(Other(s))' /\ (Owed(s)' <=> Owed(s))
          /\ \A o \in Sides : AtIncrement(o)' <=> AtIncrement(o)
      BY <2>5, <3>1 DEF ClearDatap, Owed, AtIncrement
    <3>3. ftx' = ftx /\ closed' = closed
      BY <2>5 DEF ClearDatap
    <3>4. \A o \in Sides : (Owed(o)' <=> Owed(o)) /\ (AtIncrement(o)' <=> AtIncrement(o))
      BY <3>1, <3>2
    <3> HIDE DEF IInv
    <3> QED
      BY <3>3, <3>4, FtxKept
  <2>6. CASE Decrement(t)
    <3> DEFINE s == Side(t)
    <3>1. /\ s \in Sides /\ datap = NULL /\ ~closed
          /\ \A u \in Threads : InMutex(u) /\ Side(u) = s => u = t
      BY <2>6, Alone DEF Decrement, Service
    <3>2. /\ Owed(Other(s)) /\ ~Owed(Other(s))' /\ (Owed(s)' <=> Owed(s))
          /\ \A o \in Sides : AtIncrement(o)' <=> AtIncrement(o)
      BY <2>6, <3>1 DEF Decrement, Owed, AtIncrement
    <3>3. ftx' = [ftx EXCEPT ![Other(s)] = ftx[Other(s)] - 1] /\ ftx[s] \in Int /\ ftx[Other(s)] \in Int
      BY <2>6, <3>1 DEF Decrement
    <3> QED
      BY <3>1, <3>2, <3>3 DEF FtxCounts, CHAN_NOT_READY
  <2>7. CASE Wake(t)
    <3>1. \A x \in Threads : /\ pc'[x] = "inc" <=> pc[x] = "inc"
                             /\ pc'[x] = "dec" <=> pc[x] = "dec"
      <4>1. CASE pc' = [pc EXCEPT ![t] = "unlock"]
        BY <2>7, <4>1 DEF Wake
      <4>2. ASSUME NEW u \in Threads, pc[u] = "asleep", pc' = [pc EXCEPT ![t] = "unlock", ![u] = "load"]
            PROVE  \A x \in Threads : (pc'[x] = "inc" <=> pc[x] = "inc") /\ (pc'[x] = "dec" <=> pc[x] = "dec")
        BY <2>7, <4>2 DEF Wake
      <4> QED
        BY <2>7, <4>1, <4>2 DEF Wake, Asleep
    <3>2. UNCHANGED <<closed, datap, ftx>>
      BY <2>7 DEF Wake
    <3>3. \A s \in Sides : (Owed(s)' <=> Owed(s)) /\ (AtIncrement(s)' <=> AtIncrement(s))
      BY <3>1, <3>2 DEF Owed, AtIncrement
    <3> QED
      BY <3>2, <3>3 DEF FtxCounts
  <2>8. CASE Increment(t)
    <3> DEFINE s == Side(t)
    <3>1. /\ s \in Sides /\ ~closed
          /\ \A u \in Threads : InMutex(u) /\ Side(u) = s => u = t
      BY <2>8, Alone DEF Increment
    <3>2. /\ AtIncrement(s) /\ ~AtIncrement(s)' /\ (AtIncrement(Other(s))' <=> AtIncrement(Other(s)))
          /\ \A o \in Sides : Owed(o)' <=> Owed(o)
      BY <2>8, <3>1 DEF Increment, Owed, AtIncrement
    <3>3. ftx' = [ftx EXCEPT ![s] = ftx[s] + 1] /\ ftx[s] \in Int /\ ftx[Other(s)] \in Int
      BY <2>8, <3>1 DEF Increment
    <3> QED
      BY <3>1, <3>2, <3>3 DEF FtxCounts, CHAN_NOT_READY
  <2>9. CASE FutexWait(t)
    <3>1. closed' = closed /\ ftx' = ftx
      BY <2>9 DEF FutexWait
    <3>2. \A s \in Sides : (Owed(s)' <=> Owed(s)) /\ (AtIncrement(s)' <=> AtIncrement(s))
      BY <2>9 DEF FutexWait, Owed, AtIncrement
    <3> HIDE DEF IInv
    <3> QED
      BY <3>1, <3>2, FtxKept
  <2>10. CASE LoadFtx(t)
    <3>1. closed' = closed /\ ftx' = ftx
      BY <2>10 DEF LoadFtx
    <3>2. \A s \in Sides : (Owed(s)' <=> Owed(s)) /\ (AtIncrement(s)' <=> AtIncrement(s))
      BY <2>10 DEF LoadFtx, Owed, AtIncrement
    <3> HIDE DEF IInv
    <3> QED
      BY <3>1, <3>2, FtxKept
  <2>11. CASE CheckClosed(t)
    <3>1. closed' = closed /\ ftx' = ftx
      BY <2>11 DEF CheckClosed
    <3>2. \A s \in Sides : (Owed(s)' <=> Owed(s)) /\ (AtIncrement(s)' <=> AtIncrement(s))
      BY <2>11 DEF CheckClosed, Owed, AtIncrement
    <3> HIDE DEF IInv
    <3> QED
      BY <3>1, <3>2, FtxKept
  <2>12. CASE Return(t)
    <3>1. closed' = closed /\ ftx' = ftx
      BY <2>12 DEF Return
    <3>2. \A s \in Sides : (Owed(s)' <=> Owed(s)) /\ (AtIncrement(s)' <=> AtIncrement(s))
      BY <2>12 DEF Return, Owed, AtIncrement
    <3> HIDE DEF IInv
    <3> QED
      BY <3>1, <3>2, FtxKept
  <2> QED
    BY <1>1, <2>1, <2>2, <2>3, <2>4, <2>5, <2>6, <2>7, <2>8, <2>9, <2>10, <2>11, <2>12 DEF Step
<1>2. ASSUME NEW t \in Threads, SpuriousWakeup(t) PROVE (~closed => FtxCounts)'
  <2>1. closed' = closed /\ ftx' = ftx
    BY <1>2 DEF SpuriousWakeup
  <2>2. \A s \in Sides : (Owed(s)' <=> Owed(s)) /\ (AtIncrement(s)' <=> AtIncrement(s))
    BY <1>2 DEF SpuriousWakeup, Owed, AtIncrement
  <2> HIDE DEF IInv
  <2> QED
    BY <2>1, <2>2, FtxKept
<1>3. CASE NextRepetition
  <2>1. closed' = closed /\ ftx' = ftx
    BY <1>3 DEF NextRepetition, Joined
  <2>2. \A s \in Sides : (Owed(s)' <=> Owed(s)) /\ (AtIncrement(s)' <=> AtIncrement(s))
    BY <1>3 DEF NextRepetition, Joined, Owed, AtIncrement
  <2> HIDE DEF IInv
  <2> QED
    BY <2>1, <2>2, FtxKept
<1>4. CASE Close
  BY <1>4 DEF Close, CloseSetClosed, CloseStore, CloseWakeAll, Joined, Asleep
<1>5. CASE UNCHANGED vars
  <2>1. closed' = closed /\ ftx' = ftx
    BY <1>5 DEF vars
  <2>2. \A s \in Sides : (Owed(s)' <=> Owed(s)) /\ (AtIncrement(s)' <=> AtIncrement(s))
    BY <1>5 DEF vars, Owed, AtIncrement
  <2> HIDE DEF IInv
  <2> QED
    BY <2>1, <2>2, FtxKept
<1> QED
  BY <1>1, <1>2, <1>3, <1>4, <1>5 DEF Next, Finished

\* chan_init leaves a channel with nothing posted and both futexes NOT_READY.
THEOREM InitIInv ==
  Init => IInv
<1> SUFFICES ASSUME Init PROVE IInv
  OBVIOUS
<1> USE ThreadSides, BatchBounds, RunAssumption DEF Init
<1>1. TypeOK
  <2>1. \A t \in Threads : 0 <= Batch(t)
    BY BatchBounds
  <2>2. /\ ftx \in [Sides -> IF closed THEN -1 .. 5 ELSE 0 .. CHAN_WAITING]
        /\ msg_count \in [Messages -> Nat] /\ rep \in 1 .. Repeat
    BY DEF CHAN_NOT_READY, CHAN_WAITING
  <2> QED
    BY <2>1, <2>2 DEF TypeOK, Pointers, Labels
<1>2. Ownership /\ Posted /\ Service
  BY DEF Ownership, Posted, Service, InMutex, NULL
<1>3. Exchange /\ NoLostWakeup
  BY DEF Exchange, NoLostWakeup, Waiting
<1>4. CloseAfterJoin
  BY DEF CloseAfterJoin, InCall
<1>5. FtxCounts
  <2>1. \A s \in Sides : ~Owed(s) /\ ~AtIncrement(s)
    BY DEF Owed, AtIncrement
  <2> QED
    BY <2>1 DEF FtxCounts, CHAN_NOT_READY
<1> QED
  BY <1>1, <1>2, <1>3, <1>4, <1>5 DEF IInv

\* Every step of the calls and of the main thread preserves the invariant.
THEOREM NextIInv ==
  ASSUME ~EarlyClose, IInv, [Next]_vars PROVE IInv'
<1>1. TypeOK' /\ Ownership' /\ Posted' /\ Service'
  BY NextTypeOK, NextOwnership, NextService
<1>2. Exchange' /\ CloseAfterJoin' /\ NoLostWakeup' /\ (~closed => FtxCounts)'
  BY NextExchange, NextCloseAfterJoin, NextNoLostWakeup, NextFtxCounts
<1> QED
  BY <1>1, <1>2 DEF IInv

\* The invariant holds whatever the interleaving of the calls.
THEOREM SpecIInv ==
  ASSUME ~EarlyClose PROVE Spec => []IInv
<1>1. IInv /\ [Next]_vars => IInv'
  BY NextIInv
<1> QED
  BY InitIInv, <1>1, PTL DEF Spec

-----------------------------------------------------------------------------
(* Theorems *)

\* A pointer that may be followed is a waiter's, whose cell lives until the
\* exchange is over.
LEMMA InvNoDanglingPointer == IInv => NoDanglingPointer
<1> SUFFICES ASSUME IInv PROVE NoDanglingPointer
  OBVIOUS
<1>1. datap # NULL => datap \in Threads /\ InMutex(datap) /\ InCall(datap)
  BY DEF IInv, Posted, TypeOK, Pointers, Waiting, InMutex, InCall
<1>2. ASSUME NEW t \in Threads, pc[t] = "copy"
      PROVE  /\ InCall(ptr[t]) /\ Side(ptr[t]) = Other(Side(t))
             /\ datap = ptr[t] /\ ~exchanged[ptr[t]]
  <2>1. /\ ptr[t] \in Threads /\ Side(ptr[t]) = Other(Side(t))
        /\ Waiting(ptr[t]) /\ datap = ptr[t]
    BY <1>2 DEF IInv, Service
  <2>2. ASSUME NEW u \in Threads, pc[u] = "clear", ptr[u] = ptr[t] PROVE FALSE
    <3>1. Side(u) = Side(t)
      BY <2>1, <2>2, ThreadSides DEF IInv, Service
    <3> QED
      BY <1>2, <2>2, <3>1, Alone DEF InMutex
  <2> QED
    BY <2>1, <2>2 DEF IInv, Exchange, Waiting, InCall
<1> QED
  BY <1>1, <1>2 DEF NoDanglingPointer, IInv, Ownership

\* chan.c:29-34, :218-224: for any number of threads and messages the channel
\* keeps its types, follows no pointer to a cell whose call has returned and
\* leaves no sleeper without a waker.
THEOREM SpecChannelInv ==
  ASSUME ~EarlyClose PROVE Spec => []ChannelInv
<1>1. IInv => ChannelInv
  BY InvNoDanglingPointer DEF IInv, ChannelInv
<1> QED
  BY SpecIInv, <1>1, PTL

\* A call that is about to return 0 has had its data moved.
THEOREM SpecOkMeansExchanged ==
  ASSUME ~EarlyClose PROVE Spec => []OkMeansExchanged
<1>1. IInv => OkMeansExchanged
  BY DEF IInv, Exchange, OkMeansExchanged
<1> QED
  BY SpecIInv, <1>1, PTL

\* Each repetition hands the channel over to the next as chan_init made it.
THEOREM SpecLeftAsInitialised ==
  ASSUME ~EarlyClose PROVE Spec => []LeftAsInitialised
<1>1. IInv => LeftAsInitialised
  <2> SUFFICES ASSUME IInv, Joined, ~closed
               PROVE  /\ datap = NULL
                      /\ \A s \in Sides : ftx[s] = CHAN_NOT_READY /\ owner[s] = NULL
    BY DEF LeftAsInitialised
  <2>1. \A t \in Threads : pc[t] \in {"idle", "end"}
    BY DEF Joined
  <2>2. datap = NULL
    BY <2>1 DEF IInv, TypeOK, Pointers, Posted, Waiting
  <2>3. \A s \in Sides : ~Owed(s) /\ ~AtIncrement(s)
    BY <2>1, <2>2 DEF Owed, AtIncrement
  <2>4. \A s \in Sides : ftx[s] = CHAN_NOT_READY
    BY <2>3 DEF IInv, FtxCounts, CHAN_NOT_READY
  <2>5. \A s \in Sides : owner[s] = NULL
    BY <2>1 DEF IInv, TypeOK, Pointers, Ownership, InMutex
  <2> QED
    BY <2>2, <2>4, <2>5
<1> QED
  BY SpecIInv, <1>1, PTL

\* The data moves while both calls are in progress, between one sender and one
\* receiver: each step of chan.c is one of Rendezvous, or leaves the calls as
\* they were.
THEOREM Refinement ==
  ASSUME ~EarlyClose PROVE Spec => ImplementsRendezvous
<1> DEFINE call == [t \in Threads |-> CallState(t)]
<1>0. Threads = Abstract!Threads
  BY DEF Threads, Abstract!Threads
<1>1. Init => Abstract!Init
  BY <1>0 DEF Init, Abstract!Init, CallState, InCall
<1>2. IInv /\ [Next]_vars => [Abstract!Next]_call
  <2> SUFFICES ASSUME IInv, [Next]_vars PROVE Abstract!Next \/ call' = call
    OBVIOUS
  <2> USE DEF Goto, chanVars, progVars, CallState, InCall
  <2>0. pc \in [Threads -> Labels] /\ exchanged \in [Threads -> BOOLEAN]
    BY DEF IInv, TypeOK
  <2>1. ASSUME NEW t \in Threads, Step(t) PROVE Abstract!Next \/ call' = call
    <3> DEFINE Inside == {"lock", "cas", "copy", "clear", "dec", "wake", "inc",
                          "wait", "asleep", "load", "check", "unlock"}
    <3>1. CASE Call(t)
      <4>1. call[t] = "out" /\ call' = [call EXCEPT ![t] = "in"]
        <5>1. ~closed
          BY <3>1, BatchBounds DEF Call, IInv, CloseAfterJoin
        <5> QED
          BY <2>0, <3>1, <5>1 DEF Call
      <4> QED
        BY <1>0, <4>1 DEF Abstract!Next, Abstract!Enter
    <3>2. CASE Return(t)
      <4>1. call[t] = "exchanged" /\ call' = [call EXCEPT ![t] = "out"]
        BY <2>0, <3>2 DEF Return, IInv, Exchange
      <4> QED
        BY <1>0, <4>1 DEF Abstract!Next, Abstract!Leave
    <3>3. CASE Copy(t)
      <4> DEFINE u == ptr[t]
      <4>1. u \in Threads /\ Side(u) = Other(Side(t)) /\ InCall(u) /\ ~exchanged[u]
        BY <3>3, InvNoDanglingPointer DEF Copy, IInv, Service, NoDanglingPointer
      <4>2. /\ call[t] = "in" /\ call[u] = "in"
            /\ call' = [call EXCEPT ![t] = "exchanged", ![u] = "exchanged"]
        BY <2>0, <3>3, <4>1 DEF Copy, IInv, Exchange
      <4>3. (t \in Writers /\ u \in Readers) \/ (u \in Writers /\ t \in Readers)
        BY <4>1, ThreadSides DEF Threads, Other, Sides
      <4>4. call' = [call EXCEPT ![u] = "exchanged", ![t] = "exchanged"]
        BY <4>2, <4>1, ThreadSides
      <4> QED
        BY <4>2, <4>3, <4>4 DEF Abstract!Next, Abstract!Meet
    <3>4. CASE Lock(t) \/ CasDatap(t) \/ ClearDatap(t) \/ Decrement(t)
      BY <2>0, <3>4 DEF Lock, CasDatap, ClearDatap, Decrement
    <3>5. CASE Increment(t) \/ FutexWait(t) \/ LoadFtx(t)
      BY <2>0, <3>5 DEF Increment, FutexWait, LoadFtx
    <3>6. CASE Wake(t)
      BY <2>0, <3>6 DEF Wake, Asleep
    <3>7. CASE CheckClosed(t)
      BY <2>0, <3>7 DEF CheckClosed, IInv, CloseAfterJoin
    <3> QED
      BY <2>1, <3>1, <3>2, <3>3, <3>4, <3>5, <3>6, <3>7 DEF Step
  <2>2. ASSUME NEW t \in Threads, SpuriousWakeup(t) PROVE call' = call
    BY <2>0, <2>2 DEF SpuriousWakeup
  <2>3. CASE NextRepetition
    BY <2>0, <2>3 DEF NextRepetition, Joined
  <2>4. CASE Close
    BY <2>0, <2>4 DEF Close, CloseSetClosed, CloseStore, CloseWakeAll, Asleep
  <2>5. CASE UNCHANGED vars
    BY <2>5 DEF vars
  <2> QED
    BY <2>1, <2>2, <2>3, <2>4, <2>5 DEF Next, Finished
<1> QED
  BY SpecIInv, <1>1, <1>2, PTL DEF Spec, ImplementsRendezvous, Abstract!Spec

-----------------------------------------------------------------------------
(* Exactly once *)

\* Message m has been moved from a writer's cell to a reader's.
Moved(m) ==
  \E w \in Writers :
     \/ From(w) <= m /\ m < From(w) + done[w]
     \/ InCall(w) /\ exchanged[w] /\ m = From(w) + done[w]

\* Reader r has been given m and has not counted it yet.
Given(r, m) == InCall(r) /\ exchanged[r] /\ cell[r] = m

\* What has been moved has been counted, once, or is in the hand of one reader.
CountInv ==
  /\ \A w \in Writers : InCall(w) => cell[w] = From(w) + done[w]
  /\ \A r \in Readers : InCall(r) /\ exchanged[r] => cell[r] \in Messages
  /\ \A m \in Messages :
        /\ Moved(m) <=> msg_count[m] = 1 \/ \E r \in Readers : Given(r, m)
        /\ msg_count[m] \in 0 .. 1
        /\ msg_count[m] = 1 => \A r \in Readers : ~Given(r, m)
        /\ \A r, q \in Readers : Given(r, m) /\ Given(q, m) => r = q

\* A step inside the calls that moves no data changes no count.
LEMMA CountKept ==
  ASSUME CountInv, UNCHANGED <<cell, done, msg_count, exchanged>>,
         \A t \in Threads : InCall(t)' <=> InCall(t)
  PROVE  CountInv'
<1>1. \A m \in Messages : Moved(m)' <=> Moved(m)
  BY DEF Moved, Threads
<1>2. \A m \in Messages : \A r \in Readers : Given(r, m)' <=> Given(r, m)
  BY DEF Given, Threads
<1> QED
  BY <1>1, <1>2 DEF CountInv, Threads

\* A message leaves its writer at the copy and its reader's hand at the return.
LEMMA NextCountInv ==
  ASSUME ~EarlyClose, IInv, CountInv, [Next]_vars PROVE CountInv'
<1> USE DEF Goto, chanVars, progVars
<1>0. /\ pc \in [Threads -> Labels] /\ exchanged \in [Threads -> BOOLEAN]
      /\ cell \in [Threads -> Messages \cup {NoMsg}] /\ msg_count \in [Messages -> Nat]
      /\ done \in [Threads -> Nat]
  BY BatchBounds DEF IInv, TypeOK
<1>1. ASSUME NEW t \in Threads, Call(t) PROVE CountInv'
  <2> USE <1>0, <1>1 DEF Call
  <2>1. /\ \A u \in Threads \ {t} : InCall(u)' <=> InCall(u)
        /\ \A u \in Threads \ {t} : exchanged'[u] = exchanged[u] /\ cell'[u] = cell[u]
        /\ ~InCall(t) /\ ~exchanged'[t] /\ UNCHANGED <<done, msg_count>>
    BY DEF InCall
  <2>2. Side(t) = "send" => cell'[t] = From(t) + done[t]
    OBVIOUS
  <2> USE DEF Threads
  <2>3. \A m \in Messages : Moved(m)' <=> Moved(m)
    BY <2>1 DEF Moved
  <2>4. \A m \in Messages, r \in Readers : Given(r, m)' <=> Given(r, m)
    BY <2>1 DEF Given
  <2>5. \A w \in Writers : InCall(w)' => cell'[w] = From(w) + done[w]
    BY <2>1, <2>2, ThreadSides DEF CountInv
  <2>6. \A r \in Readers : InCall(r)' /\ exchanged'[r] => cell'[r] \in Messages
    BY <2>1 DEF CountInv
  <2> QED
    BY <2>1, <2>3, <2>4, <2>5, <2>6 DEF CountInv
<1>2. ASSUME NEW t \in Threads, Copy(t) PROVE CountInv'
  <2> DEFINE u == ptr[t]
             w == IF Side(t) = "send" THEN t ELSE u
             r == IF Side(t) = "send" THEN u ELSE t
             n == From(w) + done[w]
  <2>1. /\ u \in Threads /\ Side(u) = Other(Side(t))
        /\ InCall(t) /\ InCall(u) /\ ~exchanged[t] /\ ~exchanged[u]
    BY <1>2, InvNoDanglingPointer DEF Copy, IInv, Service, NoDanglingPointer, Exchange, InCall
  <2>2. /\ w \in Writers /\ r \in Readers /\ InCall(w) /\ InCall(r)
        /\ ~exchanged[w] /\ ~exchanged[r]
    BY <2>1, ThreadSides DEF Threads, Other, Sides
  <2>3. cell' = [cell EXCEPT ![r] = cell[w]]
    BY <1>2, <2>1 DEF Copy
  <2>4. exchanged' = [exchanged EXCEPT ![w] = TRUE, ![r] = TRUE]
    BY <1>2, <1>0, <2>1, ThreadSides DEF Copy
  <2>5. UNCHANGED <<done, msg_count>> /\ \A x \in Threads : InCall(x)' <=> InCall(x)
    BY <1>2, <1>0 DEF Copy, InCall
  <2>6. w # r /\ Writers \cap Readers = {} /\ Writers \subseteq Threads /\ Readers \subseteq Threads
    BY <2>2 DEF Writers, Readers, Threads
  <2>7. cell[w] = n /\ n \in Messages
    <3>1. done[w] \in Nat /\ done[w] < Batch(w)
      BY <1>0, <2>2, <2>6 DEF IInv, CloseAfterJoin
    <3> QED
      BY <2>2, <2>6, <3>1, BatchBounds, ThreadsAssumption DEF CountInv, Messages
  <2>8. ~Moved(n)
    <3> SUFFICES ASSUME NEW v \in Writers,
                        \/ From(v) <= n /\ n < From(v) + done[v]
                        \/ InCall(v) /\ exchanged[v] /\ n = From(v) + done[v]
                 PROVE  FALSE
      BY DEF Moved
    <3>1. done[w] \in Nat /\ done[w] < Batch(w) /\ done[v] \in Nat /\ done[v] <= Batch(v)
          /\ (InCall(v) => done[v] < Batch(v))
      BY <1>0, <2>2, <2>6 DEF IInv, CloseAfterJoin, TypeOK
    <3>2. From(v) \in Nat /\ From(w) \in Nat /\ Batch(v) \in Nat /\ Batch(w) \in Nat
      BY <2>2, <2>6, BatchBounds
    <3>3. PICK j \in Nat : j < Batch(v) /\ j <= done[v] /\ n = From(v) + j
                           /\ (j = done[v] => exchanged[v])
      <4>1. CASE From(v) <= n /\ n < From(v) + done[v]
        <5> DEFINE j == n - From(v)
        <5>1. j \in Nat /\ j < done[v] /\ n = From(v) + j
          BY <2>2, <3>1, <3>2, <4>1
        <5> HIDE DEF n, j
        <5> QED BY <3>1, <3>2, <5>1
      <4>2. CASE InCall(v) /\ exchanged[v] /\ n = From(v) + done[v]
        BY <3>1, <3>2, <4>2
      <4> QED BY <4>1, <4>2
    <3>4. v = w
      BY <2>2, <3>1, <3>3, OneWriter
    <3> QED
      BY <2>2, <3>1, <3>2, <3>3, <3>4
  <2>9. \A m \in Messages : Moved(m)' <=> Moved(m) \/ m = n
    BY <1>0, <2>2, <2>4, <2>5, <2>6 DEF Moved
  <2>10. \A m \in Messages, q \in Readers : Given(q, m)' <=> Given(q, m) \/ (q = r /\ m = n)
    BY <1>0, <2>2, <2>3, <2>4, <2>5, <2>6, <2>7 DEF Given
  <2>11. \A q \in Readers : ~Given(q, n) /\ msg_count[n] = 0
    BY <2>7, <2>8, <1>0 DEF CountInv
  <2>12. \A v \in Writers : InCall(v)' => cell'[v] = From(v) + done[v]
    BY <1>0, <2>2, <2>3, <2>5, <2>6 DEF CountInv
  <2>13. \A q \in Readers : InCall(q)' /\ exchanged'[q] => cell'[q] \in Messages
    BY <1>0, <2>2, <2>3, <2>4, <2>5, <2>6, <2>7 DEF CountInv
  <2> HIDE DEF n, w, r
  <2>14. ASSUME NEW m \in Messages
         PROVE  /\ Moved(m)' <=> msg_count'[m] = 1 \/ \E q \in Readers : Given(q, m)'
                /\ msg_count'[m] \in 0 .. 1
                /\ msg_count'[m] = 1 => \A q \in Readers : ~Given(q, m)'
                /\ \A q, x \in Readers : Given(q, m)' /\ Given(x, m)' => q = x
    BY <2>2, <2>5, <2>7, <2>9, <2>10, <2>11 DEF CountInv
  <2> QED
    BY <2>5, <2>12, <2>13, <2>14 DEF CountInv
<1>3. ASSUME NEW t \in Threads, Return(t) PROVE CountInv'
  <2>1. /\ InCall(t) /\ exchanged[t] /\ ~InCall(t)' /\ exchanged' = exchanged /\ cell' = cell
        /\ \A u \in Threads \ {t} : InCall(u)' <=> InCall(u)
        /\ done' = [done EXCEPT ![t] = done[t] + 1]
    BY <1>0, <1>3 DEF Return, InCall, IInv, Exchange
  <2>2. Writers \subseteq Threads /\ Readers \subseteq Threads /\ Writers \cap Readers = {}
    BY DEF Writers, Readers, Threads
  <2>3. \A w \in Writers : InCall(w)' => cell'[w] = From(w) + done'[w]
    BY <1>0, <2>1, <2>2 DEF CountInv
  <2>4. \A r \in Readers : InCall(r)' /\ exchanged'[r] => cell'[r] \in Messages
    BY <2>1, <2>2 DEF CountInv
  <2>5. \A m \in Messages : Moved(m)' <=> Moved(m)
    <3> SUFFICES ASSUME NEW m \in Messages, NEW w \in Writers
                 PROVE  (\/ From(w) <= m /\ m < From(w) + done'[w]
                         \/ InCall(w)' /\ exchanged[w] /\ m = From(w) + done'[w])
                    <=> (\/ From(w) <= m /\ m < From(w) + done[w]
                         \/ InCall(w) /\ exchanged[w] /\ m = From(w) + done[w])
      BY <2>1 DEF Moved
    <3>1. From(w) \in Nat /\ done[w] \in Nat /\ m \in Nat
      BY <1>0, <2>2, BatchBounds, ThreadsAssumption DEF Messages
    <3> QED
      BY <1>0, <2>1, <2>2, <3>1
  <2>6. CASE Side(t) = "send"
    <3>1. msg_count' = msg_count /\ t \notin Readers
      BY <1>3, <2>6 DEF Return, Readers, Side
    <3>2. \A m \in Messages, r \in Readers : Given(r, m)' <=> Given(r, m)
      BY <2>1, <2>2, <3>1 DEF Given
    <3> QED
      BY <2>3, <2>4, <2>5, <3>1, <3>2 DEF CountInv
  <2>7. CASE Side(t) # "send"
    <3>1. t \in Readers /\ cell[t] \in Messages
      BY <2>1, <2>7, ThreadSides DEF CountInv, Sides
    <3>2. msg_count' = [msg_count EXCEPT ![cell[t]] = msg_count[cell[t]] + 1]
      BY <1>3, <3>1, <2>7, ThreadSides DEF Return, Sides
    <3>3. \A m \in Messages, r \in Readers : Given(r, m)' <=> Given(r, m) /\ r # t
      BY <2>1, <2>2 DEF Given
    <3>4. \A m \in Messages : Given(t, m) <=> m = cell[t]
      BY <2>1 DEF Given
    <3>5. msg_count[cell[t]] = 0
      BY <1>0, <3>1, <3>4 DEF CountInv
    <3>6. \A m \in Messages : msg_count'[m] = IF m = cell[t] THEN 1 ELSE msg_count[m]
      BY <1>0, <3>1, <3>2, <3>5
    <3> QED
      BY <2>3, <2>4, <2>5, <3>1, <3>3, <3>4, <3>5, <3>6 DEF CountInv
  <2> QED
    BY <2>6, <2>7
<1>4. CASE NextRepetition
  <2>1. \A t \in Threads : ~InCall(t)' /\ done'[t] = 0
    BY <1>4 DEF NextRepetition, InCall
  <2>2. Writers \subseteq Threads /\ Readers \subseteq Threads
    BY DEF Threads
  <2>3. \A m \in Messages : msg_count'[m] = 0
    BY <1>4 DEF NextRepetition
  <2>4. \A m \in Messages : ~Moved(m)' /\ \A r \in Readers : ~Given(r, m)'
    <3>1. \A w \in Writers, m \in Messages : From(w) \in Nat /\ m \in Nat
      BY <2>2, BatchBounds, ThreadsAssumption DEF Messages
    <3> QED
      BY <2>1, <2>2, <3>1 DEF Moved, Given
  <2> QED
    BY <2>1, <2>2, <2>3, <2>4 DEF CountInv
<1>5. ASSUME NEW t \in Threads,
             Lock(t) \/ CasDatap(t) \/ ClearDatap(t) \/ Decrement(t) \/ Wake(t) \/ Increment(t)
             \/ FutexWait(t) \/ LoadFtx(t) \/ CheckClosed(t) \/ SpuriousWakeup(t)
      PROVE  CountInv'
  <2>1. \A u \in Threads : InCall(u)' <=> InCall(u)
    <3>1. CASE Lock(t) \/ CasDatap(t) \/ ClearDatap(t) \/ Decrement(t) \/ SpuriousWakeup(t)
      BY <1>0, <3>1 DEF Lock, CasDatap, ClearDatap, Decrement, SpuriousWakeup, InCall
    <3>2. CASE Increment(t) \/ FutexWait(t) \/ LoadFtx(t) \/ CheckClosed(t)
      BY <1>0, <3>2 DEF Increment, FutexWait, LoadFtx, CheckClosed, InCall, IInv, CloseAfterJoin
    <3>3. CASE Wake(t)
      BY <1>0, <3>3 DEF Wake, Asleep, InCall
    <3> QED
      BY <1>5, <3>1, <3>2, <3>3
  <2>2. UNCHANGED <<cell, done, msg_count, exchanged>>
    BY <1>5 DEF Lock, CasDatap, ClearDatap, Decrement, Wake, Increment, FutexWait, LoadFtx,
                CheckClosed, SpuriousWakeup
  <2> QED
    BY <2>1, <2>2, CountKept
<1>6. CASE Close \/ UNCHANGED vars
  <2>1. \A u \in Threads : InCall(u)' <=> InCall(u)
    BY <1>0, <1>6 DEF Close, CloseSetClosed, CloseStore, CloseWakeAll, Asleep, InCall, vars
  <2>2. UNCHANGED <<cell, done, msg_count, exchanged>>
    BY <1>6 DEF Close, CloseSetClosed, CloseStore, CloseWakeAll, vars
  <2> QED
    BY <2>1, <2>2, CountKept
<1> QED
  BY <1>1, <1>2, <1>3, <1>4, <1>5, <1>6 DEF Next, Step, Finished

\* main.c:167: no message is ever counted twice, and when the threads have been
\* joined every message has been counted once, for any numbers of threads and
\* messages, in every repetition.
THEOREM SpecExactlyOnce ==
  ASSUME ~EarlyClose PROVE Spec => []ExactlyOnce
<1>1. Init => CountInv
  <2>1. \A t \in Threads : Init => ~InCall(t) /\ done[t] = 0 /\ From(t) \in Nat
    BY BatchBounds DEF Init, InCall
  <2> QED
    BY <2>1, ThreadsAssumption DEF Init, CountInv, Moved, Given, Threads, Messages
<1>2. IInv /\ CountInv /\ [Next]_vars => CountInv'
  BY NextCountInv
<1>3. IInv /\ CountInv => ExactlyOnce
  <2> SUFFICES ASSUME IInv, CountInv, NEW m \in Messages
               PROVE  msg_count[m] <= 1 /\ (Joined => msg_count[m] = 1)
    BY DEF ExactlyOnce
  <2>1. msg_count[m] \in 0 .. 1
    BY DEF CountInv
  <2>2. ASSUME Joined PROVE msg_count[m] = 1
    <3>1. PICK w \in Threads : Side(w) = "send" /\ From(w) <= m /\ m < From(w) + Batch(w)
      BY BatchesCover DEF Sides
    <3>2. w \in Writers /\ done[w] = Batch(w)
      BY <2>2, <3>1, ThreadSides DEF Joined, IInv, CloseAfterJoin
    <3>3. \A r \in Readers : ~Given(r, m)
      BY <2>2 DEF Joined, Given, InCall, Threads
    <3> QED
      BY <3>1, <3>2, <3>3 DEF CountInv, Moved
  <2> QED
    BY <2>1, <2>2
<1> QED
  BY SpecIInv, <1>1, <1>2, <1>3, PTL DEF Spec

=============================================================================
