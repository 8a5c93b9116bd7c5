------------------------------ MODULE ChanBuf ------------------------------
(***************************************************************************)
(* The buffered channel of 2021q1_croutine/chan.c, driven by the threads   *)
(* of main.c.  A thread claims a slot of the ring by a cas on its side's   *)
(* cursor, moves the data, and publishes the slot to the other side by     *)
(* incrementing its lap.  A thread that finds the ring full (or empty)     *)
(* takes a credit from its side's futex, or sleeps on it while it is 0,    *)
(* and tries again; every success gives the other side a credit.           *)
(*                                                                         *)
(* chan_send_buf / chan_trysend_buf and chan_recv_buf / chan_tryrecv_buf   *)
(* are one protocol with the sides exchanged.  cursor["send"] is tail and  *)
(* cursor["recv"] is head, each a pair of the 32-bit halves lap and pos.   *)
(***************************************************************************)
EXTENDS TestThreads

CONSTANTS Cap,                  \* slots of the ring
          Modulus,              \* the futex words count modulo this (2^32)
          EarlyClose            \* may chan_close run before the threads end?

ASSUME RunAssumption == /\ Cap \in Nat \ {0}
                        /\ Modulus \in Nat \ {0, 1}
                        /\ EarlyClose \in BOOLEAN

VARIABLES
  closed, ring, cursor,         \* struct chan
  ftx, waiters,                 \* its futex words and counts of waiters
  pc, cur, cell,                \* per call: label, local head/tail, data
  done, msg_count,              \* per thread calls that returned 0; main.c
  main                          \* the main thread

bufVars == <<ring, cursor>>
creditVars == <<ftx, waiters>>
progVars == <<done, msg_count, main>>
vars == <<closed, bufVars, creditVars, pc, cur, cell, progVars>>

Slots == 0 .. Cap - 1

Labels == {"idle", "try", "cursor", "lap", "claim", "data", "publish", "add",
           "waiters", "wake", "return",
           "credit", "announce", "wait", "asleep", "leave", "end"}

Asleep(s) == {t \in Threads : Side(t) = s /\ pc[t] = "asleep"}

Goto(t, l) == pc' = [pc EXCEPT ![t] = l]

\* memset clears the ring, so the data of a fresh slot reads as message 0.
Init ==
  /\ closed = FALSE
  /\ ring = [p \in Slots |-> [lap |-> 0, data |-> 0]]
  /\ cursor = [s \in Sides |-> [lap |-> IF s = "recv" THEN 1 ELSE 0, pos |-> 0]]
  /\ ftx = [s \in Sides |-> 0]
  /\ waiters = [s \in Sides |-> 0]
  /\ pc = [t \in Threads |-> "idle"]
  /\ cur = [t \in Threads |-> [lap |-> 0, pos |-> 0]]
  /\ cell = [t \in Threads |-> NoMsg]
  /\ done = [t \in Threads |-> 0]
  /\ msg_count = [m \in Messages |-> 0]
  /\ main = "join"

-----------------------------------------------------------------------------
(* chan_trysend_buf and chan_tryrecv_buf *)

\* The loop of writer / reader enters the next call.
Call(t) ==
  /\ pc[t] = "idle" /\ done[t] < Batch(t)
  /\ cell' = IF Side(t) = "send"
             THEN [cell EXCEPT ![t] = From(t) + done[t]] ELSE cell
  /\ Goto(t, "try")
  /\ UNCHANGED <<closed, bufVars, creditVars, cur, progVars>>

\* EPIPE ends the thread's loop.
Try(t) ==
  /\ pc[t] = "try" /\ Goto(t, IF closed THEN "end" ELSE "cursor")
  /\ UNCHANGED <<closed, bufVars, creditVars, cur, cell, progVars>>

LoadCursor(t) ==
  /\ pc[t] = "cursor" /\ cur' = [cur EXCEPT ![t] = cursor[Side(t)]]
  /\ Goto(t, "lap")
  /\ UNCHANGED <<closed, bufVars, creditVars, cell, progVars>>

\* A slot of another lap is not this side's yet: EAGAIN.
LoadLap(t) ==
  /\ pc[t] = "lap"
  /\ Goto(t, IF ring[cur[t].pos].lap = cur[t].lap THEN "claim" ELSE "credit")
  /\ UNCHANGED <<closed, bufVars, creditVars, cur, cell, progVars>>

AdvanceOneLap(c) == IF c.pos + 1 = Cap THEN [lap |-> c.lap + 1, pos |-> 0]
                                       ELSE [c EXCEPT !.pos = @ + 1]

\* The last slot is followed by the first one, two laps on.
Advance(c) == IF c.pos + 1 = Cap THEN [lap |-> c.lap + 2, pos |-> 0]
                                 ELSE [c EXCEPT !.pos = @ + 1]

ClaimByStore(t) ==
  /\ pc[t] = "claim"
  /\ cursor' = [cursor EXCEPT ![Side(t)] = Advance(cur[t])] /\ Goto(t, "data")
  /\ UNCHANGED <<closed, ring, creditVars, cur, cell, progVars>>

\* The cas on the cursor; a thread that loses it starts from a fresh load.
Claim(t) ==
  LET s == Side(t) IN
  /\ pc[t] = "claim"
  /\ \/ /\ cursor[s] = cur[t]
        /\ cursor' = [cursor EXCEPT ![s] = Advance(@)]
        /\ Goto(t, "data")
     \/ cursor[s] # cur[t] /\ Goto(t, "cursor") /\ UNCHANGED cursor
  /\ UNCHANGED <<closed, ring, creditVars, cur, cell, progVars>>

MoveData(t) ==
  LET p == cur[t].pos IN
  /\ pc[t] = "data"
  /\ IF Side(t) = "send"
     THEN ring' = [ring EXCEPT ![p].data = cell[t]] /\ UNCHANGED cell
     ELSE cell' = [cell EXCEPT ![t] = ring[p].data] /\ UNCHANGED ring
  /\ Goto(t, "publish")
  /\ UNCHANGED <<closed, cursor, creditVars, cur, progVars>>

Publish(t) ==
  /\ pc[t] = "publish"
  /\ ring' = [ring EXCEPT ![cur[t].pos].lap = @ + 1]
  /\ Goto(t, "add")
  /\ UNCHANGED <<closed, cursor, creditVars, cur, cell, progVars>>

-----------------------------------------------------------------------------
(* The credit futexes in chan_send_buf and chan_recv_buf *)

\* The cas loop at lines 124-126 / 186-188 either takes a credit or reads 0;
\* its failed attempts change nothing.
TakeCredit(t) ==
  LET s == Side(t) IN
  /\ pc[t] = "credit"
  /\ \/ ftx[s] > 0 /\ ftx' = [ftx EXCEPT ![s] = @ - 1] /\ Goto(t, "try")
     \/ ftx[s] = 0 /\ Goto(t, "announce") /\ UNCHANGED ftx
  /\ UNCHANGED <<closed, bufVars, waiters, cur, cell, progVars>>

Announce(t) ==
  /\ pc[t] = "announce" /\ waiters' = [waiters EXCEPT ![Side(t)] = @ + 1]
  /\ Goto(t, "wait")
  /\ UNCHANGED <<closed, bufVars, ftx, cur, cell, progVars>>

FutexWaitUnchecked(t) ==
  /\ pc[t] = "wait" /\ Goto(t, "asleep")
  /\ UNCHANGED <<closed, bufVars, creditVars, cur, cell, progVars>>

FutexWait(t) ==
  /\ pc[t] = "wait" /\ Goto(t, IF ftx[Side(t)] = 0 THEN "asleep" ELSE "leave")
  /\ UNCHANGED <<closed, bufVars, creditVars, cur, cell, progVars>>

SpuriousWakeup(t) ==
  /\ pc[t] = "asleep" /\ Goto(t, "leave")
  /\ UNCHANGED <<closed, bufVars, creditVars, cur, cell, progVars>>

Leave(t) ==
  /\ pc[t] = "leave" /\ waiters' = [waiters EXCEPT ![Side(t)] = @ - 1]
  /\ Goto(t, "credit")
  /\ UNCHANGED <<closed, bufVars, ftx, cur, cell, progVars>>

AddCredit(t) ==
  LET o == Other(Side(t)) IN
  /\ pc[t] = "add" /\ ftx' = [ftx EXCEPT ![o] = (@ + 1) % Modulus]
  /\ Goto(t, "waiters")
  /\ UNCHANGED <<closed, bufVars, waiters, cur, cell, progVars>>

LoadWaitersOwnSide(t) ==
  /\ pc[t] = "waiters"
  /\ Goto(t, IF waiters[Side(t)] > 0 THEN "wake" ELSE "return")
  /\ UNCHANGED <<closed, bufVars, creditVars, cur, cell, progVars>>

\* Somebody waits on the other side, or did at this moment.
LoadWaiters(t) ==
  /\ pc[t] = "waiters"
  /\ Goto(t, IF waiters[Other(Side(t))] > 0 THEN "wake" ELSE "return")
  /\ UNCHANGED <<closed, bufVars, creditVars, cur, cell, progVars>>

Wake(t) ==
  LET sleepers == Asleep(Other(Side(t))) IN
  /\ pc[t] = "wake"
  /\ \/ sleepers = {} /\ Goto(t, "return")
     \/ \E u \in sleepers : pc' = [pc EXCEPT ![t] = "return", ![u] = "leave"]
  /\ UNCHANGED <<closed, bufVars, creditVars, cur, cell, progVars>>

\* Return 0; reader() counts the message it was given.
Return(t) ==
  /\ pc[t] = "return" /\ Goto(t, "idle")
  /\ done' = [done EXCEPT ![t] = @ + 1]
  /\ msg_count' = IF Side(t) = "recv"
                  THEN [msg_count EXCEPT ![cell[t]] = @ + 1] ELSE msg_count
  /\ UNCHANGED <<closed, bufVars, creditVars, cur, cell, main>>

Step(t) ==
  \/ Call(t) \/ Try(t) \/ LoadCursor(t) \/ LoadLap(t) \/ Claim(t)
  \/ MoveData(t) \/ Publish(t)
  \/ TakeCredit(t) \/ Announce(t) \/ FutexWait(t) \/ Leave(t)
  \/ AddCredit(t) \/ LoadWaiters(t) \/ Wake(t) \/ Return(t)

-----------------------------------------------------------------------------
(* The main thread: chan_close leaves the futex words of a buffered channel *)
(* alone and wakes all sleepers.                                            *)

Joined == \A t \in Threads :
             pc[t] = "end" \/ (pc[t] = "idle" /\ done[t] = Batch(t))

CloseSetClosed ==
  /\ main = "join" /\ (EarlyClose \/ Joined)
  /\ closed' = TRUE /\ main' = "recv"
  /\ UNCHANGED <<bufVars, creditVars, pc, cur, cell, done, msg_count>>

CloseWakeAll(s, next) ==
  /\ main = s /\ main' = next
  /\ pc' = [t \in Threads |-> IF t \in Asleep(s) THEN "leave" ELSE pc[t]]
  /\ UNCHANGED <<closed, bufVars, creditVars, cur, cell, done, msg_count>>

Close == CloseSetClosed \/ CloseWakeAll("recv", "send") \/ CloseWakeAll("send", "done")

Finished == main = "done" /\ Joined /\ UNCHANGED vars

Next == \/ \E t \in Threads : Step(t) \/ SpuriousWakeup(t)
        \/ Close
        \/ Finished

Spec == Init /\ [][Next]_vars

\* Every thread that can run is scheduled again; a sleeping thread only after
\* it is woken.
FairSpec == Spec /\ WF_vars(Close) /\ \A t \in Threads : WF_vars(Step(t))

-----------------------------------------------------------------------------
(* Properties *)

Cursors == [lap : 0 .. 2 * Total + 1, pos : Slots]

\* Counters of waiters never pass the number of threads of the side.
TypeOK ==
  /\ closed \in BOOLEAN
  /\ ring \in [Slots -> [lap : 0 .. 2 * Total, data : Messages \cup {0}]]
  /\ cursor \in [Sides -> Cursors]
  /\ ftx \in [Sides -> 0 .. Modulus - 1]
  /\ waiters \in [Sides -> Nat]
  /\ waiters["send"] <= NWriters /\ waiters["recv"] <= NReaders
  /\ pc \in [Threads -> Labels]
  /\ cur \in [Threads -> Cursors]
  /\ cell \in [Threads -> Messages \cup {NoMsg}]
  /\ done \in [Threads -> Nat] /\ \A t \in Threads : done[t] <= Batch(t)
  /\ msg_count \in [Messages -> Nat]
  /\ main \in {"join", "recv", "send", "done"}

\* The slot a thread has claimed and not yet published.
Owns(t) == pc[t] \in {"data", "publish"}

\* item->data is a plain variable: no two threads, of either side, are ever
\* between the claim and the publication of the same slot.
SlotExclusive ==
  \A t, u \in Threads :
     t # u /\ Owns(t) /\ Owns(u) => cur[t].pos # cur[u].pos

\* A claimed slot still has the lap the claimer saw: between the load of the
\* lap and the cas on the cursor nobody passed the slot on.
ClaimNotStale ==
  \A t \in Threads : Owns(t) => ring[cur[t].pos].lap = cur[t].lap

\* Position in the order of all claims of a side; laps count by two.
Ticket(c) == (c.lap \div 2) * Cap + c.pos

\* The readers never overtake the writers, the writers never lap the readers.
CursorsWithinCap ==
  LET ahead == Ticket(cursor["send"]) - Ticket(cursor["recv"])
  IN  ahead \in 0 .. Cap

\* main.c:167, at every moment: no message is counted twice, and all are
\* counted when the threads have been joined after a full run.
ExactlyOnce ==
  /\ \A m \in Messages : msg_count[m] <= 1
  /\ Joined /\ ~EarlyClose => \A m \in Messages : msg_count[m] = 1

\* A thread does not sleep on while its side has a credit (lines 33-34): the
\* thread that gave it is about to look for waiters, or one of its own side is
\* awake and about to take it.
NoSleepOnCredit ==
  \A s \in Sides :
     Asleep(s) # {} /\ ftx[s] > 0 =>
        \/ \E u \in Threads : Side(u) = Other(s) /\ pc[u] \in {"waiters", "wake"}
        \/ \E u \in Threads : Side(u) = s /\ pc[u] \in {"leave", "credit"}

\* What holds between any two steps of the calls: chan.c:33-34 and :37-45.
RingInv == TypeOK /\ ExactlyOnce /\ NoSleepOnCredit

\* The channel as a queue.  A send takes effect at its cas on tail and a
\* receive at its cas on head; until the writer has stored it, the message of
\* a claimed slot is in the writer's own cell.
MessageAt(ticket) ==
  LET claimers == {w \in Writers : pc[w] = "data" /\ Ticket(cur[w]) = ticket}
  IN  IF claimers # {} THEN cell[CHOOSE w \in claimers : TRUE]
                       ELSE ring[ticket % Cap].data

Queue == LET head == Ticket(cursor["recv"])
         IN  [i \in 1 .. Ticket(cursor["send"]) - head |-> MessageAt(head + i - 1)]

AfterClaim(t) == pc[t] \in {"data", "publish", "add", "waiters", "wake", "return"}

Sent(w) == IF AfterClaim(w) THEN done[w] + 1 ELSE done[w]

Hand(r) == IF ~AfterClaim(r) THEN NoMsg
           ELSE IF pc[r] = "data" THEN ring[cur[r].pos].data ELSE cell[r]

Abstract == INSTANCE BoundedFifo WITH
              q <- Queue,
              sent <- [w \in Writers |-> Sent(w)],
              hand <- [r \in Readers |-> Hand(r)],
              Outgoing <- [w \in Writers |->
                             [i \in 1 .. Batch(w) |-> From(w) + i - 1]]

\* The ring with its two cursors and laps implements the bounded queue, with
\* or without an early chan_close.
ImplementsFifo == Abstract!Spec

\* main.c:167 needs every thread to get through its messages: with one thread
\* on a side the program always ends.
Termination == <>(main = "done")
=============================================================================
