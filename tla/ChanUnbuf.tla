----------------------------- MODULE ChanUnbuf -----------------------------
(***************************************************************************)
(* The unbuffered channel of 2021q1_croutine/chan.c, driven by the test    *)
(* program of 2021q1_croutine/main.c: writers and readers meet in pairs,   *)
(* one leaves a pointer to its cell in datap and sleeps on its side's      *)
(* futex, the other moves the data through the pointer and wakes it.       *)
(*                                                                         *)
(* chan_send_unbuf and chan_recv_unbuf are the same protocol with the      *)
(* sides exchanged, so each step is one action of a thread t, with Side(t) *)
(* for what the code calls its own mutex and futex and Other(Side(t)) for  *)
(* the ones of its partner.  A mutex is the abstract lock that Mutex is    *)
(* shown to implement; a thread labelled "asleep" is on the wait queue of  *)
(* its side's futex.                                                       *)
(***************************************************************************)
EXTENDS TestThreads

CONSTANTS Repeat,               \* repetitions on the same channel
          EarlyClose            \* may chan_close run before the threads end?

ASSUME RunAssumption == Repeat \in Nat \ {0} /\ EarlyClose \in BOOLEAN

NULL == <<>>

CHAN_NOT_READY == 1
CHAN_WAITING == 2
CHAN_CLOSED == 3

VARIABLES
  closed, datap, ftx, owner,    \* struct chan; owner[s] holds the s mutex
  pc, cell, ptr,                \* per call: label, data or *data, local ptr
  done, msg_count,              \* per thread calls that returned 0; main.c
  rep, main,                    \* the main thread: repetition and label
  exchanged                     \* history: has t's current call had its
                                \* data moved, by itself or by its partner?

chanVars == <<closed, datap, ftx, owner>>
progVars == <<done, msg_count, rep, main>>
vars == <<chanVars, pc, cell, ptr, progVars, exchanged>>

Labels == {"idle", "lock", "cas", "copy", "clear", "dec", "wake", "inc",
           "wait", "asleep", "load", "check", "unlock", "end"}

Asleep(s) == {t \in Threads : Side(t) = s /\ pc[t] = "asleep"}

Goto(t, l) == pc' = [pc EXCEPT ![t] = l]

Init ==
  /\ closed = FALSE /\ datap = NULL
  /\ ftx = [s \in Sides |-> CHAN_NOT_READY]
  /\ owner = [s \in Sides |-> NULL]
  /\ pc = [t \in Threads |-> "idle"]
  /\ cell = [t \in Threads |-> NoMsg]
  /\ ptr = [t \in Threads |-> NULL]
  /\ done = [t \in Threads |-> 0]
  /\ msg_count = [m \in Messages |-> 0]
  /\ rep = 1 /\ main = <<"join">>
  /\ exchanged = [t \in Threads |-> FALSE]

-----------------------------------------------------------------------------
(* One call, from writer() or reader() through the return *)

\* The loop of writer / reader enters the next call, which looks at closed.
Call(t) ==
  /\ pc[t] = "idle" /\ done[t] < Batch(t)
  /\ Goto(t, IF closed THEN "end" ELSE "lock")
  /\ cell' = IF Side(t) = "send"
             THEN [cell EXCEPT ![t] = From(t) + done[t]] ELSE cell
  /\ exchanged' = [exchanged EXCEPT ![t] = FALSE]
  /\ UNCHANGED <<chanVars, ptr, progVars>>

Lock(t) ==
  /\ pc[t] = "lock" /\ owner[Side(t)] = NULL
  /\ owner' = [owner EXCEPT ![Side(t)] = t]
  /\ Goto(t, "cas")
  /\ UNCHANGED <<closed, datap, ftx, cell, ptr, progVars, exchanged>>

\* The cas on datap: leave a pointer, or find the partner's.
CasDatap(t) ==
  /\ pc[t] = "cas"
  /\ IF datap = NULL
     THEN datap' = t /\ Goto(t, "inc") /\ UNCHANGED ptr
     ELSE ptr' = [ptr EXCEPT ![t] = datap] /\ Goto(t, "copy") /\ UNCHANGED datap
  /\ UNCHANGED <<closed, ftx, owner, cell, progVars, exchanged>>

\* A sender writes its data into the cell pointed to, a receiver reads it.
Copy(t) ==
  /\ pc[t] = "copy"
  /\ cell' = IF Side(t) = "send" THEN [cell EXCEPT ![ptr[t]] = cell[t]]
                                 ELSE [cell EXCEPT ![t] = cell[ptr[t]]]
  /\ exchanged' = [exchanged EXCEPT ![t] = TRUE, ![ptr[t]] = TRUE]
  /\ Goto(t, "clear")
  /\ UNCHANGED <<chanVars, ptr, progVars>>

ClearDatap(t) ==
  /\ pc[t] = "clear" /\ datap' = NULL /\ Goto(t, "dec")
  /\ UNCHANGED <<closed, ftx, owner, cell, ptr, progVars, exchanged>>

DecrementWakeless(t) ==
  /\ pc[t] = "dec" /\ ftx' = [ftx EXCEPT ![Other(Side(t))] = @ - 1]
  /\ Goto(t, "unlock")
  /\ UNCHANGED <<closed, datap, owner, cell, ptr, progVars, exchanged>>

\* Tell the partner that the exchange is done; wake it only if it may sleep.
Decrement(t) ==
  LET o == Other(Side(t)) IN
  /\ pc[t] = "dec"
  /\ ftx' = [ftx EXCEPT ![o] = @ - 1]
  /\ Goto(t, IF ftx[o] = CHAN_WAITING THEN "wake" ELSE "unlock")
  /\ UNCHANGED <<closed, datap, owner, cell, ptr, progVars, exchanged>>

Wake(t) ==
  LET sleepers == Asleep(Other(Side(t))) IN
  /\ pc[t] = "wake"
  /\ \/ sleepers = {} /\ Goto(t, "unlock")
     \/ \E u \in sleepers :
           pc' = [pc EXCEPT ![t] = "unlock", ![u] = "load"]
  /\ UNCHANGED <<chanVars, cell, ptr, progVars, exchanged>>

IncrementUnlessDone(t) ==
  /\ pc[t] = "inc"
  /\ IF ftx[Side(t)] = CHAN_NOT_READY
     THEN ftx' = [ftx EXCEPT ![Side(t)] = @ + 1] /\ Goto(t, "wait")
     ELSE Goto(t, "unlock") /\ UNCHANGED ftx
  /\ UNCHANGED <<closed, datap, owner, cell, ptr, progVars, exchanged>>

IncrementNeverWait(t) ==
  /\ pc[t] = "inc" /\ ftx' = [ftx EXCEPT ![Side(t)] = @ + 1] /\ Goto(t, "unlock")
  /\ UNCHANGED <<closed, datap, owner, cell, ptr, progVars, exchanged>>

\* Announce a waiter, unless the partner has already decremented.
Increment(t) ==
  LET s == Side(t) IN
  /\ pc[t] = "inc"
  /\ ftx' = [ftx EXCEPT ![s] = @ + 1]
  /\ Goto(t, IF ftx[s] = CHAN_NOT_READY THEN "wait" ELSE "unlock")
  /\ UNCHANGED <<closed, datap, owner, cell, ptr, progVars, exchanged>>

FutexWait(t) ==
  /\ pc[t] = "wait"
  /\ Goto(t, IF ftx[Side(t)] = CHAN_WAITING THEN "asleep" ELSE "load")
  /\ UNCHANGED <<chanVars, cell, ptr, progVars, exchanged>>

SpuriousWakeup(t) ==
  /\ pc[t] = "asleep" /\ Goto(t, "load")
  /\ UNCHANGED <<chanVars, cell, ptr, progVars, exchanged>>

LoadFtxOnce(t) ==
  /\ pc[t] = "load" /\ Goto(t, "check")
  /\ UNCHANGED <<chanVars, cell, ptr, progVars, exchanged>>

\* The condition of the do-while loop around FUTEX_WAIT.
LoadFtx(t) ==
  /\ pc[t] = "load"
  /\ Goto(t, IF ftx[Side(t)] = CHAN_WAITING THEN "wait" ELSE "check")
  /\ UNCHANGED <<chanVars, cell, ptr, progVars, exchanged>>

\* EPIPE after a wait returns without unlocking the mutex; the loop of
\* writer / reader breaks.
CheckClosed(t) ==
  /\ pc[t] = "check"
  /\ Goto(t, IF closed THEN "end" ELSE "unlock")
  /\ UNCHANGED <<chanVars, cell, ptr, progVars, exchanged>>

\* mutex_unlock and return 0; reader() then counts the message it was given.
Return(t) ==
  /\ pc[t] = "unlock"
  /\ owner' = [owner EXCEPT ![Side(t)] = NULL]
  /\ Goto(t, "idle")
  /\ done' = [done EXCEPT ![t] = @ + 1]
  /\ msg_count' = IF Side(t) = "recv" /\ cell[t] \in Messages
                  THEN [msg_count EXCEPT ![cell[t]] = @ + 1] ELSE msg_count
  /\ UNCHANGED <<closed, datap, ftx, cell, ptr, rep, main, exchanged>>

Step(t) ==
  \/ Call(t) \/ Lock(t) \/ CasDatap(t) \/ Copy(t) \/ ClearDatap(t)
  \/ Decrement(t) \/ Wake(t) \/ Increment(t) \/ FutexWait(t) \/ LoadFtx(t)
  \/ CheckClosed(t) \/ Return(t)

-----------------------------------------------------------------------------
(* The main thread: test_chan and chan_close *)

Joined == \A t \in Threads :
             pc[t] = "end" \/ (pc[t] = "idle" /\ done[t] = Batch(t))

\* The next repetition starts new threads on the channel as it was left.
NextRepetition ==
  /\ main = <<"join">> /\ Joined /\ rep < Repeat
  /\ rep' = rep + 1
  /\ msg_count' = [m \in Messages |-> 0]
  /\ done' = [t \in Threads |-> 0]
  /\ pc' = [t \in Threads |-> "idle"]
  /\ UNCHANGED <<chanVars, cell, ptr, main, exchanged>>

CloseSetClosed ==
  /\ main = <<"join">> /\ (EarlyClose \/ (Joined /\ rep = Repeat))
  /\ closed' = TRUE /\ main' = <<"store", "recv">>
  /\ UNCHANGED <<datap, ftx, owner, pc, cell, ptr, done, msg_count, rep, exchanged>>

CloseStore(s, next) ==
  /\ main = <<"store", s>>
  /\ ftx' = [ftx EXCEPT ![s] = CHAN_CLOSED] /\ main' = next
  /\ UNCHANGED <<closed, datap, owner, pc, cell, ptr, done, msg_count, rep, exchanged>>

\* FUTEX_WAKE(INT_MAX)
CloseWakeAll(s, next) ==
  /\ main = <<"wake", s>>
  /\ pc' = [t \in Threads |-> IF t \in Asleep(s) THEN "load" ELSE pc[t]]
  /\ main' = next
  /\ UNCHANGED <<chanVars, cell, ptr, done, msg_count, rep, exchanged>>

Close == \/ CloseSetClosed
         \/ CloseStore("recv", <<"store", "send">>)
         \/ CloseStore("send", <<"wake", "recv">>)
         \/ CloseWakeAll("recv", <<"wake", "send">>)
         \/ CloseWakeAll("send", <<"done">>)

Finished == main = <<"done">> /\ Joined /\ UNCHANGED vars

Next == \/ \E t \in Threads : Step(t) \/ SpuriousWakeup(t)
        \/ NextRepetition
        \/ Close
        \/ Finished

Spec == Init /\ [][Next]_vars

\* Every thread that can run is scheduled again; sleeping threads run again
\* only when woken.  The program calls chan_close at its end.
FairSpec == /\ Spec
            /\ \A t \in Threads : WF_vars(Step(t))
            /\ WF_vars(NextRepetition \/ Close)

-----------------------------------------------------------------------------
(* Properties *)

Pointers == {NULL} \cup Threads

\* The futexes only take the enum's values 0 .. 2 until chan_close.
TypeOK ==
  /\ closed \in BOOLEAN /\ datap \in Pointers
  /\ owner \in [Sides -> Pointers]
  /\ ftx \in [Sides -> IF closed THEN -1 .. 5 ELSE 0 .. CHAN_WAITING]
  /\ pc \in [Threads -> Labels]
  /\ cell \in [Threads -> Messages \cup {NoMsg}]
  /\ ptr \in [Threads -> Pointers]
  /\ done \in [Threads -> Nat] /\ \A t \in Threads : done[t] <= Batch(t)
  /\ msg_count \in [Messages -> Nat]
  /\ rep \in 1 .. Repeat
  /\ main \in {<<"join">>, <<"done">>} \cup ({"store", "wake"} \X Sides)
  /\ exchanged \in [Threads -> BOOLEAN]

\* Labels at which a thread is still inside its call, its cell alive.
InCall(t) == pc[t] \notin {"idle", "end"}

\* A pointer in datap, or held by the partner about to move data through it,
\* points to the cell of a call that has not returned (lines 218-224, 263-269
\* pass the address of a local variable between threads).
NoDanglingPointer ==
  /\ datap # NULL => InCall(datap) /\ owner[Side(datap)] = datap
  /\ \A t \in Threads : pc[t] = "copy" =>
        /\ InCall(ptr[t]) /\ Side(ptr[t]) = Other(Side(t))
        /\ datap = ptr[t] /\ ~exchanged[ptr[t]]

\* A call that is about to return 0 has had its data moved: the increment of
\* a futex never lets a thread go that nobody has served (lines 29-31).
OkMeansExchanged == \A t \in Threads : pc[t] = "unlock" => exchanged[t]

\* main.c:167, at every moment: no message is ever counted twice, even while
\* threads run, and all are counted once when the threads have been joined.
ExactlyOnce ==
  /\ \A m \in Messages : msg_count[m] <= 1
  /\ Joined => \A m \in Messages : msg_count[m] = 1

\* A thread that sleeps on a futex that no longer says WAITING has its waker
\* on the way: the partner between its decrement and its FUTEX_WAKE, or
\* chan_close, whenever it is called, before its FUTEX_WAKE of that side.
NoLostWakeup ==
  \A t \in Threads :
     pc[t] = "asleep" /\ ftx[Side(t)] # CHAN_WAITING =>
        \/ \E u \in Threads : Side(u) # Side(t) /\ pc[u] = "wake"
        \/ main[1] = "store" \/ main = <<"wake", "recv">>
        \/ main = <<"wake", Side(t)>>

\* What holds between any two steps of the calls, of however many repetitions:
\* chan.c:29-34 and :218-224.
ChannelInv == TypeOK /\ NoDanglingPointer /\ NoLostWakeup

\* test_chan reuses the channel without initialising it again (line 151): the
\* threads of one repetition leave it as chan_init made it.
LeftAsInitialised ==
  Joined /\ ~closed =>
     /\ datap = NULL
     /\ \A s \in Sides : ftx[s] = CHAN_NOT_READY /\ owner[s] = NULL

\* Every thread gets through all its messages and the program ends.
Termination == <>(main = <<"done">>)

\* The abstract rendezvous: both calls are in progress when data moves.
CallState(t) == IF ~InCall(t) THEN "out"
                ELSE IF exchanged[t] THEN "exchanged" ELSE "in"
Abstract == INSTANCE Rendezvous WITH call <- [t \in Threads |-> CallState(t)]
ImplementsRendezvous == Abstract!Spec

\* Lines 29-31 again, under an early chan_close: a waiter whose exchange is
\* done is released.
DecrementReleasesWaiter ==
  \A t \in Threads : (InCall(t) /\ exchanged[t]) ~> ~InCall(t)
=============================================================================
