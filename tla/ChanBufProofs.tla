---------------------------- MODULE ChanBufProofs ----------------------------
(***************************************************************************)
(* The safety of the buffered channel for any number of writers, readers,  *)
(* messages and slots, whenever chan_close runs.                           *)
(*                                                                         *)
(* The argument: the lap of a slot says whose turn it is and whether some  *)
(* thread owns it (SlotInv), so the cas on a cursor, which makes an owner, *)
(* succeeds only on a slot nobody owns although the lap was loaded before  *)
(* (ClaimFresh).  A message is then in one place at a time (MessageInv),   *)
(* and the claims of the two sides, counted, keep the cursors within the   *)
(* capacity (CountInv).  A side with credits and sleepers has a thread on  *)
(* its way to one of them, since tokens and threads are counted together   *)
(* (CreditInv).                                                            *)
(***************************************************************************)
EXTENDS ChanBuf, TestThreadsProofs, FiniteSetTheorems, SequenceTheorems

-----------------------------------------------------------------------------
(* The ring *)

\* Types without the bounds on the counters.
Shape ==
  /\ closed \in BOOLEAN
  /\ ring \in [Slots -> [lap : Nat, data : Messages \cup {0}]]
  /\ cursor \in [Sides -> [lap : Nat, pos : Slots]]
  /\ ftx \in [Sides -> 0 .. Modulus - 1]
  /\ waiters \in [Sides -> Int]
  /\ pc \in [Threads -> Labels]
  /\ cur \in [Threads -> [lap : Nat, pos : Slots]]
  /\ cell \in [Threads -> Messages \cup {NoMsg}]
  /\ done \in [Threads -> Nat]
  /\ msg_count \in [Messages -> Nat]
  /\ main \in {"join", "recv", "send", "done"}

InCall(t) == pc[t] \notin {"idle", "end"}

\* The loops of writer and reader end with the batch.
WithinBatch ==
  \A t \in Threads : /\ done[t] <= Batch(t)
                     /\ InCall(t) => done[t] < Batch(t)

\* The lap at which side s claims slot p the next time.
NextLap(s, p) == IF cursor[s].pos <= p THEN cursor[s].lap ELSE cursor[s].lap + 2

OwnerOf(p) == {t \in Threads : Owns(t) /\ cur[t].pos = p}

\* A slot nobody owns has the lap of the side whose turn it is, which is one
\* lap before the other's next.
Free(p) == \E s \in Sides : /\ ring[p].lap = NextLap(s, p)
                            /\ NextLap(Other(s), p) = ring[p].lap + 1

\* An owned slot still has the lap its owner claimed it at.
OwnedBy(t, p) == /\ ring[p].lap = cur[t].lap
                 /\ NextLap(Side(t), p) = ring[p].lap + 2
                 /\ NextLap(Other(Side(t)), p) = ring[p].lap + 1

SlotInv ==
  \A p \in Slots : \/ OwnerOf(p) = {} /\ Free(p)
                   \/ \E t \in Threads : OwnerOf(p) = {t} /\ OwnedBy(t, p)

\* The cursors only move forward, so a cursor that is still the one a thread
\* has loaded has not moved in between, nor has the lap of its slot.
Behind(c, d) == c.lap < d.lap \/ (c.lap = d.lap /\ c.pos <= d.pos)

ClaimFresh ==
  \A t \in Threads :
    /\ pc[t] \in {"lap", "claim"} => Behind(cur[t], cursor[Side(t)])
    /\ pc[t] = "claim" /\ cursor[Side(t)] = cur[t]
          => ring[cur[t].pos].lap = cur[t].lap

RingIInv == Shape /\ WithinBatch /\ SlotInv /\ ClaimFresh

-----------------------------------------------------------------------------
(* The messages *)

\* Labels at which a call has moved its data.
Moved(t) == pc[t] \in {"publish", "add", "waiters", "wake", "return"}

\* Message m has left its writer.
Out(m) == \E w \in Writers : \/ From(w) <= m /\ m < From(w) + done[w]
                             \/ Moved(w) /\ m = From(w) + done[w]

\* The data of slot p is a message nobody has taken yet.
Live(p) ==
  \/ OwnerOf(p) = {} /\ ring[p].lap = NextLap("recv", p)
  \/ \E t \in OwnerOf(p) : pc[t] = IF Side(t) = "send" THEN "publish" ELSE "data"

Counted == <<"counted", 0>>
Places == ({"slot"} \X Slots) \cup Readers \cup {Counted}

At(x, m) ==
  \/ x[1] = "slot" /\ Live(x[2]) /\ ring[x[2]].data = m
  \/ x[1] = "recv" /\ Moved(x) /\ cell[x] = m
  \/ x = Counted /\ msg_count[m] = 1

\* A message that has left its writer is at exactly one place.
MessageInv ==
  /\ \A w \in Writers : InCall(w) => cell[w] = From(w) + done[w]
  /\ \A p \in Slots : Live(p) => ring[p].data \in Messages
  /\ \A r \in Readers : Moved(r) => cell[r] \in Messages
  /\ \A m \in Messages :
       /\ msg_count[m] \in 0 .. 1
       /\ Out(m) <=> \E x \in Places : At(x, m)
       /\ \A x, y \in Places : At(x, m) /\ At(y, m) => x = y

-----------------------------------------------------------------------------
(* The counters *)

\* The messages whose slot has been claimed, and as many numbers as readers have
\* returned, dealt out as the messages are.
Claims == {m \in Messages : \E w \in Writers : From(w) <= m /\ m < From(w) + Sent(w)}
Receipts == {m \in Messages : \E r \in Readers : From(r) <= m /\ m < From(r) + done[r]}
CountedMessages == {m \in Messages : msg_count[m] = 1}

CountInv ==
  /\ \A s \in Sides : cursor[s].lap % 2 = (IF s = "recv" THEN 1 ELSE 0)
  /\ Ticket(cursor["send"]) = Cardinality(Claims)
  /\ Cardinality(Receipts) = Cardinality(CountedMessages)

-----------------------------------------------------------------------------
(* The credits *)

Announced(s) == {t \in Threads : Side(t) = s /\ pc[t] \in {"wait", "asleep", "leave"}}
Wakers(s) == {t \in Threads : Side(t) = Other(s) /\ pc[t] \in {"waiters", "wake"}}
Takers(s) == {t \in Threads : Side(t) = s /\ pc[t] \in {"leave", "credit"}}

\* While a thread sleeps, every credit of its side has somebody to see to it.
CreditInv ==
  \A s \in Sides :
    /\ waiters[s] = Cardinality(Announced(s))
    /\ Asleep(s) # {} => ftx[s] <= Cardinality(Wakers(s)) + Cardinality(Takers(s))

-----------------------------------------------------------------------------
(* The rest *)

\* A thread's copy of a cursor is never ahead of it.
CopyInv == \A t \in Threads : cur[t].lap <= cursor[Side(t)].lap

\* chan_close after the joins finds no call under way, and stops none.
CloseInv == ~EarlyClose =>
  \A t \in Threads : pc[t] # "end" /\ (closed => pc[t] = "idle" /\ done[t] = Batch(t))

IInv == RingIInv /\ MessageInv /\ CountInv /\ CreditInv /\ CopyInv /\ CloseInv

-----------------------------------------------------------------------------
(* The ring is kept *)

\* The steps that leave the ring and the cursors alone.
Aside(t) ==
  \/ Call(t) \/ Try(t) \/ TakeCredit(t) \/ Announce(t) \/ FutexWait(t)
  \/ SpuriousWakeup(t) \/ Leave(t) \/ AddCredit(t) \/ LoadWaiters(t) \/ Wake(t) \/ Return(t)

\* Advance passes the cursor over its slot and no other.
LEMMA AdvanceNext ==
  ASSUME NEW c \in [lap : Nat, pos : Slots]
  PROVE  /\ Advance(c) \in [lap : Nat, pos : Slots]
         /\ \A p \in Slots :
              (IF Advance(c).pos <= p THEN Advance(c).lap ELSE Advance(c).lap + 2)
                = (IF c.pos <= p THEN c.lap ELSE c.lap + 2) + (IF p = c.pos THEN 2 ELSE 0)
         /\ Behind(c, Advance(c)) /\ Advance(c) # c
         /\ \A d \in [lap : Nat, pos : Slots] : Behind(d, c) => Behind(d, Advance(c)) /\ Advance(c) # d
BY RunAssumption DEF Advance, Slots, Behind

\* The lap is one field of a slot.
LEMMA LapType ==
  ASSUME NEW D, NEW x \in [lap : Nat, data : D]
  PROVE  [x EXCEPT !.lap = @ + 1] \in [lap : Nat, data : D]
<1>1. x.lap + 1 \in Nat
  OBVIOUS
<1> QED
  BY <1>1

\* Each step keeps the types, and a call stays within the thread's batch.
LEMMA NextShape ==
  ASSUME Shape, WithinBatch, MessageInv, [Next]_vars PROVE Shape' /\ WithinBatch'
<1> USE ThreadSides DEF Shape, WithinBatch, InCall, Goto, bufVars, creditVars, progVars, Labels
<1>1. ASSUME NEW t \in Threads, Call(t) PROVE Shape' /\ WithinBatch'
  <2>1. From(t) + done[t] \in Messages
    BY <1>1, BatchBounds, ThreadsAssumption DEF Call, Messages
  <2> QED
    BY <1>1, <2>1 DEF Call
<1>2. ASSUME NEW t \in Threads, Try(t) \/ LoadCursor(t) \/ LoadLap(t) PROVE Shape' /\ WithinBatch'
  <2>1. CASE Try(t)
    BY <2>1 DEF Try
  <2>2. CASE LoadCursor(t)
    <3>1. cursor[Side(t)] \in [lap : Nat, pos : Slots]
      OBVIOUS
    <3> QED
      BY <2>2, <3>1 DEF LoadCursor
  <2>3. CASE LoadLap(t)
    BY <2>3 DEF LoadLap
  <2> QED
    BY <1>2, <2>1, <2>2, <2>3
<1>3. ASSUME NEW t \in Threads, Claim(t) PROVE Shape' /\ WithinBatch'
  <2>1. Advance(cursor[Side(t)]) \in [lap : Nat, pos : Slots]
    BY AdvanceNext
  <2>2. cursor' \in [Sides -> [lap : Nat, pos : Slots]]
    <3>1. cursor' = [cursor EXCEPT ![Side(t)] = Advance(cursor[Side(t)])] \/ cursor' = cursor
      BY <1>3 DEF Claim
    <3> QED
      BY <2>1, <3>1
  <2>3. pc' \in [Threads -> Labels] /\ UNCHANGED <<closed, ring, creditVars, cur, cell, progVars>>
    BY <1>3 DEF Claim
  <2>4. InCall(t) /\ \A u \in Threads : pc'[u] \notin {"idle", "end"} => pc[u] \notin {"idle", "end"}
    BY <1>3 DEF Claim
  <2> QED
    BY <2>2, <2>3, <2>4
<1>4. ASSUME NEW t \in Threads, MoveData(t) PROVE Shape' /\ WithinBatch'
  <2>1. cur[t].pos \in Slots /\ ring[cur[t].pos] \in [lap : Nat, data : Messages \cup {0}]
    OBVIOUS
  <2>2. CASE Side(t) = "send"
    <3>1. From(t) + done[t] \in Messages
      <4>1. done[t] \in Nat /\ done[t] < Batch(t)
        BY <1>4 DEF MoveData
      <4> QED
        BY <4>1, BatchBounds, ThreadsAssumption DEF Messages
    <3>2. cell[t] \in Messages
      BY <1>4, <2>2, <3>1 DEF MoveData, MessageInv
    <3>3. [ring[cur[t].pos] EXCEPT !.data = cell[t]] \in [lap : Nat, data : Messages \cup {0}]
      BY <2>1, <3>2
    <3>4. ring' = [ring EXCEPT ![cur[t].pos] = [ring[cur[t].pos] EXCEPT !.data = cell[t]]]
      BY <1>4, <2>2 DEF MoveData
    <3>5. ring' \in [Slots -> [lap : Nat, data : Messages \cup {0}]]
      BY <2>1, <3>3, <3>4
    <3> QED
      BY <1>4, <2>2, <3>5 DEF MoveData
  <2>3. CASE Side(t) # "send"
    <3>1. 0 \in Messages
      <4>1. done[t] \in Nat /\ done[t] < Batch(t)
        BY <1>4 DEF MoveData
      <4>2. Total \in Nat \ {0}
        BY <4>1, BatchBounds, ThreadsAssumption
      <4> QED
        BY <4>2 DEF Messages
    <3>2. cell' \in [Threads -> Messages \cup {NoMsg}]
      <4>1. ring[cur[t].pos].data \in Messages
        BY <2>1, <3>1
      <4>2. cell' = [cell EXCEPT ![t] = ring[cur[t].pos].data]
        BY <1>4, <2>3 DEF MoveData
      <4> QED
        BY <4>1, <4>2
    <3> QED
      BY <1>4, <2>3, <3>2 DEF MoveData
  <2> QED
    BY <2>2, <2>3
<1>5. ASSUME NEW t \in Threads, Publish(t) PROVE Shape' /\ WithinBatch'
  <2>1. cur[t].pos \in Slots /\ ring[cur[t].pos] \in [lap : Nat, data : Messages \cup {0}]
    OBVIOUS
  <2>2. [ring[cur[t].pos] EXCEPT !.lap = @ + 1] \in [lap : Nat, data : Messages \cup {0}]
    BY <2>1, LapType
  <2>3. ring' = [ring EXCEPT ![cur[t].pos] = [ring[cur[t].pos] EXCEPT !.lap = @ + 1]]
    BY <1>5 DEF Publish
  <2>4. ring' \in [Slots -> [lap : Nat, data : Messages \cup {0}]]
    BY <2>1, <2>2, <2>3
  <2> QED
    BY <1>5, <2>4 DEF Publish
<1>6. ASSUME NEW t \in Threads, TakeCredit(t) \/ Announce(t) \/ FutexWait(t) \/ SpuriousWakeup(t) \/ Leave(t)
      PROVE  Shape' /\ WithinBatch'
  <2>1. CASE TakeCredit(t)
    <3>1. ftx' \in [Sides -> 0 .. Modulus - 1]
      <4>1. CASE ftx[Side(t)] > 0
        <5>1. ftx[Side(t)] - 1 \in 0 .. Modulus - 1
          BY <4>1, RunAssumption
        <5> QED
          BY <2>1, <4>1, <5>1 DEF TakeCredit
      <4>2. CASE ~(ftx[Side(t)] > 0)
        BY <2>1, <4>2 DEF TakeCredit
      <4> QED
        BY <4>1, <4>2
    <3> QED
      BY <2>1, <3>1 DEF TakeCredit
  <2>2. CASE Announce(t) \/ Leave(t)
    <3>1. waiters' \in [Sides -> Int]
      BY <2>2 DEF Announce, Leave
    <3> QED
      BY <2>2, <3>1 DEF Announce, Leave
  <2>3. CASE FutexWait(t) \/ SpuriousWakeup(t)
    BY <2>3 DEF FutexWait, SpuriousWakeup
  <2> QED
    BY <1>6, <2>1, <2>2, <2>3
<1>7. ASSUME NEW t \in Threads, AddCredit(t) PROVE Shape' /\ WithinBatch'
  <2>1. \A i \in 0 .. Modulus - 1 : (i + 1) % Modulus \in 0 .. Modulus - 1
    BY RunAssumption
  <2> QED
    BY <1>7, <2>1 DEF AddCredit
<1>8. ASSUME NEW t \in Threads, LoadWaiters(t) \/ Wake(t) PROVE Shape' /\ WithinBatch'
  BY <1>8 DEF LoadWaiters, Wake, Asleep
<1>9. ASSUME NEW t \in Threads, Return(t) PROVE Shape' /\ WithinBatch'
  <2>1. msg_count' \in [Messages -> Nat]
    <3>1. Side(t) = "recv" => cell[t] \in Messages
      BY <1>9 DEF Return, MessageInv, Moved
    <3> QED
      BY <1>9, <3>1 DEF Return
  <2>2. done' \in [Threads -> Nat] /\ WithinBatch'
    BY <1>9, BatchBounds DEF Return
  <2> QED
    BY <1>9, <2>1, <2>2 DEF Return
<1>10. CASE Close
  <2>1. CASE CloseSetClosed
    BY <2>1 DEF CloseSetClosed
  <2>2. ASSUME NEW s \in Sides, CloseWakeAll(s, IF s = "recv" THEN "send" ELSE "done")
        PROVE  Shape' /\ WithinBatch'
    BY <2>2 DEF CloseWakeAll, Asleep, Sides
  <2> QED
    BY <1>10, <2>1, <2>2 DEF Close, Sides
<1>11. CASE UNCHANGED vars
  BY <1>11 DEF vars
<1> QED
  BY <1>1, <1>2, <1>3, <1>4, <1>5, <1>6, <1>7, <1>8, <1>9, <1>10, <1>11 DEF Next, Step, Finished

\* Of an owned slot there is one owner, which has it as it was claimed.
LEMMA Owner ==
  ASSUME SlotInv, NEW t \in Threads, Owns(t), cur[t].pos \in Slots
  PROVE  OwnerOf(cur[t].pos) = {t} /\ OwnedBy(t, cur[t].pos)
BY DEF SlotInv, OwnerOf

\* Steps that touch neither a cursor, nor a lap, nor an owner keep the slots.
LEMMA SlotsKept ==
  ASSUME SlotInv, cursor' = cursor, \A p \in Slots : ring'[p].lap = ring[p].lap,
         \A t \in Threads : /\ Owns(t)' <=> Owns(t)
                            /\ Owns(t) => cur'[t] = cur[t]
  PROVE  SlotInv'
<1>1. \A p \in Slots : OwnerOf(p)' = OwnerOf(p) /\ (Free(p)' <=> Free(p))
  BY DEF OwnerOf, Free, NextLap
<1>2. \A p \in Slots, t \in Threads : Owns(t) => (OwnedBy(t, p)' <=> OwnedBy(t, p))
  BY DEF OwnedBy, NextLap
<1>3. \A p \in Slots, t \in Threads : OwnerOf(p) = {t} => Owns(t)
  BY DEF OwnerOf
<1> QED
  BY <1>1, <1>2, <1>3 DEF SlotInv

\* Steps that bring nobody before the cas keep what is known there.
LEMMA FreshKept ==
  ASSUME Shape, ClaimFresh, UNCHANGED <<cursor, cur>>, \A p \in Slots : ring'[p].lap = ring[p].lap,
         \A t \in Threads : pc'[t] \in {"lap", "claim"} => pc'[t] = pc[t]
  PROVE  ClaimFresh'
BY DEF Shape, ClaimFresh

\* The cas succeeds on a free slot whose turn it is, and makes the thread its
\* owner; the cursor a competitor has loaded before is behind it.
LEMMA ClaimRing ==
  ASSUME RingIInv, NEW t \in Threads, Claim(t), cursor[Side(t)] = cur[t]
  PROVE  LET p == cur[t].pos
         IN  /\ OwnerOf(p) = {} /\ Free(p) /\ ring[p].lap = NextLap(Side(t), p)
             /\ NextLap(Other(Side(t)), p) = ring[p].lap + 1
             /\ SlotInv' /\ ClaimFresh'
<1> DEFINE s == Side(t)
           p == cur[t].pos
<1> USE ThreadSides DEF RingIInv
<1>1. /\ cur[t] \in [lap : Nat, pos : Slots] /\ p \in Slots /\ s \in Sides
      /\ cursor' = [cursor EXCEPT ![s] = Advance(cur[t])] /\ UNCHANGED <<ring, cur>>
      /\ pc[t] = "claim" /\ pc' = [pc EXCEPT ![t] = "data"]
  BY DEF Claim, Shape, Goto
<1>2. ring[p].lap = cur[t].lap /\ NextLap(s, p) = ring[p].lap /\ ring[p].lap \in Nat
  <2>1. cursor[s] = cur[t] /\ ring[p].lap = cur[t].lap
    BY <1>1 DEF ClaimFresh
  <2>2. cursor[s].pos = p /\ p \in Int /\ cur[t].lap \in Nat
    BY <1>1, <2>1, RunAssumption DEF Slots
  <2> QED
    BY <2>1, <2>2 DEF NextLap
<1>3. OwnerOf(p) = {} /\ Free(p)
  <2> SUFFICES ASSUME NEW u \in Threads, OwnerOf(p) = {u}, OwnedBy(u, p) PROVE FALSE
    BY <1>1 DEF SlotInv
  <2>1. Side(u) = s \/ Side(u) = Other(s)
    BY <1>1
  <2> QED
    BY <1>1, <1>2, <2>1 DEF OwnedBy
<1>4. NextLap(Other(s), p) = ring[p].lap + 1
  <2>1. PICK o \in Sides : ring[p].lap = NextLap(o, p) /\ NextLap(Other(o), p) = ring[p].lap + 1
    BY <1>3 DEF Free
  <2>2. o = s \/ o = Other(s)
    BY <1>1
  <2> QED
    BY <1>1, <1>2, <2>1, <2>2
<1>5. \A q \in Slots : /\ NextLap(s, q)' = NextLap(s, q) + (IF q = p THEN 2 ELSE 0)
                       /\ NextLap(Other(s), q)' = NextLap(Other(s), q)
  BY <1>1, AdvanceNext DEF NextLap, Shape
<1>6. \A u \in Threads : Owns(u)' <=> Owns(u) \/ u = t
  BY <1>1 DEF Owns, Shape
<1>7. \A q \in Slots : OwnerOf(q)' = IF q = p THEN {t} ELSE OwnerOf(q)
  BY <1>1, <1>3, <1>6 DEF OwnerOf, Owns
<1>8. SlotInv'
  <2> SUFFICES ASSUME NEW q \in Slots
               PROVE  \/ OwnerOf(q)' = {} /\ Free(q)'
                      \/ \E u \in Threads : OwnerOf(q)' = {u} /\ OwnedBy(u, q)'
    BY DEF SlotInv
  <2>1. CASE q = p
    <3>1. OwnedBy(t, q)'
      BY <1>1, <1>2, <1>4, <1>5, <2>1 DEF OwnedBy
    <3>2. OwnerOf(q)' = {t}
      BY <1>7, <2>1
    <3> QED
      BY <3>1, <3>2
  <2>2. CASE q # p
    <3>1. \A o \in Sides : NextLap(o, q)' = NextLap(o, q)
      <4>1. NextLap(s, q) \in Nat
        BY <1>1 DEF NextLap, Shape
      <4> QED
        BY <1>1, <1>5, <2>2, <4>1
    <3>2. OwnerOf(q)' = OwnerOf(q) /\ ring' = ring /\ cur' = cur
      BY <1>1, <1>7, <2>2
    <3>3. Free(q) => Free(q)'
      BY <3>1, <3>2 DEF Free
    <3>4. \A u \in Threads : OwnedBy(u, q) => OwnedBy(u, q)'
      BY <3>1, <3>2 DEF OwnedBy
    <3> QED
      BY <3>2, <3>3, <3>4 DEF SlotInv
  <2> QED
    BY <2>1, <2>2
<1>9. ClaimFresh'
  <2> SUFFICES ASSUME NEW u \in Threads, pc'[u] \in {"lap", "claim"}
               PROVE  /\ Behind(cur[u], cursor'[Side(u)])
                      /\ pc'[u] = "claim" /\ cursor'[Side(u)] = cur[u]
                            => ring[cur[u].pos].lap = cur[u].lap
    BY <1>1 DEF ClaimFresh
  <2>1. pc'[u] = pc[u] /\ cur[u] \in [lap : Nat, pos : Slots] /\ Behind(cur[u], cursor[Side(u)])
    BY <1>1 DEF Shape, ClaimFresh
  <2>2. CASE Side(u) = s
    BY <1>1, <2>1, <2>2, AdvanceNext DEF Shape
  <2>3. CASE Side(u) # s
    BY <1>1, <2>1, <2>3 DEF ClaimFresh, Shape
  <2> QED
    BY <2>2, <2>3
<1> QED
  BY <1>2, <1>3, <1>4, <1>8, <1>9

\* The owner publishes its slot to the other side.
LEMMA PublishRing ==
  ASSUME RingIInv, NEW t \in Threads, Publish(t)
  PROVE  LET p == cur[t].pos
         IN  /\ OwnerOf(p) = {t} /\ OwnerOf(p)' = {}
             /\ ring'[p].lap = NextLap(Other(Side(t)), p)'
             /\ NextLap(Side(t), p)' = ring'[p].lap + 1
             /\ SlotInv' /\ ClaimFresh'
<1> DEFINE s == Side(t)
           p == cur[t].pos
<1> USE ThreadSides DEF RingIInv
<1>1. /\ cur[t] \in [lap : Nat, pos : Slots] /\ p \in Slots /\ s \in Sides
      /\ UNCHANGED <<cursor, cur>> /\ pc[t] = "publish" /\ pc' = [pc EXCEPT ![t] = "add"]
      /\ ring' = [ring EXCEPT ![p].lap = @ + 1]
  BY DEF Publish, Shape, Goto, bufVars
<1>2. OwnerOf(p) = {t} /\ OwnedBy(t, p) /\ ring[p].lap \in Nat
  BY <1>1, Owner DEF Owns, Shape
<1>3. \A q \in Slots : ring'[q].lap = ring[q].lap + (IF q = p THEN 1 ELSE 0)
  BY <1>1 DEF Shape
<1>4. \A q \in Slots, o \in Sides : NextLap(o, q)' = NextLap(o, q)
  BY <1>1 DEF NextLap
<1>5. \A u \in Threads : Owns(u)' <=> Owns(u) /\ u # t
  BY <1>1 DEF Owns, Shape
<1>6. \A q \in Slots : OwnerOf(q)' = IF q = p THEN {} ELSE OwnerOf(q)
  BY <1>1, <1>2, <1>5 DEF OwnerOf, Owns
<1>7. ring'[p].lap = NextLap(Other(s), p)' /\ NextLap(s, p)' = ring'[p].lap + 1
  BY <1>1, <1>2, <1>3, <1>4 DEF OwnedBy
<1>8. SlotInv'
  <2> SUFFICES ASSUME NEW q \in Slots
               PROVE  \/ OwnerOf(q)' = {} /\ Free(q)'
                      \/ \E u \in Threads : OwnerOf(q)' = {u} /\ OwnedBy(u, q)'
    BY DEF SlotInv
  <2>1. CASE q = p
    <3>1. Free(q)'
      BY <1>1, <1>7, <2>1 DEF Free
    <3>2. OwnerOf(q)' = {}
      BY <1>6, <2>1
    <3> QED
      BY <3>1, <3>2
  <2>2. CASE q # p
    <3>1. OwnerOf(q)' = OwnerOf(q) /\ ring'[q].lap = ring[q].lap /\ cur' = cur
      BY <1>1, <1>3, <1>6, <2>2 DEF Shape
    <3>2. Free(q) => Free(q)'
      BY <1>4, <3>1 DEF Free
    <3>3. \A u \in Threads : OwnedBy(u, q) => OwnedBy(u, q)'
      BY <1>4, <3>1 DEF OwnedBy
    <3> QED
      BY <3>1, <3>2, <3>3 DEF SlotInv
  <2> QED
    BY <2>1, <2>2
<1>9. ClaimFresh'
  <2> SUFFICES ASSUME NEW u \in Threads, pc'[u] \in {"lap", "claim"}
               PROVE  /\ Behind(cur[u], cursor[Side(u)])
                      /\ pc'[u] = "claim" /\ cursor[Side(u)] = cur[u]
                            => ring'[cur[u].pos].lap = cur[u].lap
    BY <1>1 DEF ClaimFresh
  <2>1. pc'[u] = pc[u] /\ cur[u].pos \in Slots /\ cur[u].lap \in Nat
    BY <1>1 DEF Shape
  <2>2. ASSUME pc[u] = "claim", cursor[Side(u)] = cur[u], cur[u].pos = p PROVE FALSE
    <3>1. ring[p].lap = cur[u].lap /\ NextLap(Side(u), p) = cur[u].lap
      BY <2>1, <2>2 DEF ClaimFresh, NextLap, Slots
    <3>2. Side(u) = s \/ Side(u) = Other(s)
      BY <1>1
    <3> QED
      BY <1>2, <3>1, <3>2 DEF OwnedBy
  <2> QED
    BY <1>3, <2>1, <2>2 DEF ClaimFresh, Shape
<1> QED
  BY <1>1, <1>2, <1>6, <1>7, <1>8, <1>9

\* Every step keeps the order of the ring.
LEMMA NextRing ==
  ASSUME RingIInv, [Next]_vars PROVE SlotInv' /\ ClaimFresh'
<1> USE DEF RingIInv, Goto, bufVars, creditVars, progVars, Owns
<1>0. pc \in [Threads -> Labels] /\ cur \in [Threads -> [lap : Nat, pos : Slots]]
  BY DEF Shape
<1>1. ASSUME NEW t \in Threads, LoadCursor(t) PROVE SlotInv' /\ ClaimFresh'
  <2>1. SlotInv'
    BY <1>0, <1>1, SlotsKept DEF LoadCursor
  <2>2. ClaimFresh'
    <3>1. UNCHANGED <<ring, cursor>> /\ pc' = [pc EXCEPT ![t] = "lap"]
          /\ cur' = [cur EXCEPT ![t] = cursor[Side(t)]]
      BY <1>1 DEF LoadCursor
    <3>2. Behind(cursor[Side(t)], cursor[Side(t)])
      BY RunAssumption, ThreadSides DEF Behind, Shape, Slots
    <3> QED
      BY <1>0, <3>1, <3>2 DEF ClaimFresh
  <2> QED
    BY <2>1, <2>2
<1>2. ASSUME NEW t \in Threads, LoadLap(t) PROVE SlotInv' /\ ClaimFresh'
  <2>1. SlotInv'
    BY <1>0, <1>2, SlotsKept DEF LoadLap
  <2>2. ClaimFresh'
    BY <1>0, <1>2 DEF LoadLap, ClaimFresh
  <2> QED
    BY <2>1, <2>2
<1>3. ASSUME NEW t \in Threads, Claim(t) PROVE SlotInv' /\ ClaimFresh'
  <2>1. CASE cursor[Side(t)] = cur[t]
    BY <1>3, <2>1, ClaimRing
  <2>2. CASE cursor[Side(t)] # cur[t]
    <3>1. /\ UNCHANGED <<ring, cursor, cur>>
          /\ \A u \in Threads : pc'[u] = IF u = t THEN "cursor" ELSE pc[u]
          /\ pc[t] = "claim"
      BY <1>0, <1>3, <2>2 DEF Claim
    <3> QED
      BY <3>1, SlotsKept, FreshKept
  <2> QED
    BY <2>1, <2>2
<1>4. ASSUME NEW t \in Threads, MoveData(t) PROVE SlotInv' /\ ClaimFresh'
  <2>1. \A p \in Slots : ring'[p].lap = ring[p].lap
    <3>1. ring \in [Slots -> [lap : Nat, data : Messages \cup {0}]]
      BY DEF Shape
    <3>2. ring' = [ring EXCEPT ![cur[t].pos].data = cell[t]] \/ ring' = ring
      BY <1>4 DEF MoveData
    <3> QED
      BY <3>1, <3>2
  <2>2. /\ UNCHANGED <<cursor, cur>> /\ pc[t] = "data"
        /\ \A u \in Threads : pc'[u] = IF u = t THEN "publish" ELSE pc[u]
    BY <1>0, <1>4 DEF MoveData
  <2> QED
    BY <2>1, <2>2, SlotsKept, FreshKept
<1>5. ASSUME NEW t \in Threads, Publish(t) PROVE SlotInv' /\ ClaimFresh'
  BY <1>5, PublishRing
<1>6. ASSUME NEW t \in Threads, Aside(t) PROVE SlotInv' /\ ClaimFresh'
  <2>1. UNCHANGED <<ring, cursor, cur>>
    BY <1>6 DEF Aside, Call, Try, TakeCredit, Announce, FutexWait, SpuriousWakeup, Leave,
                AddCredit, LoadWaiters, Wake, Return
  <2>2. \A u \in Threads : pc'[u] = pc[u] \/ {pc[u], pc'[u]} \cap {"lap", "claim", "data", "publish"} = {}
    BY <1>0, <1>6 DEF Aside, Call, Try, TakeCredit, Announce, FutexWait, SpuriousWakeup, Leave,
                AddCredit, LoadWaiters, Wake, Return, Asleep
  <2> QED
    BY <2>1, <2>2, SlotsKept, FreshKept
<1>7. CASE Close \/ UNCHANGED vars
  <2>1. UNCHANGED <<ring, cursor, cur>>
    BY <1>7 DEF Close, CloseSetClosed, CloseWakeAll, vars
  <2>2. \A u \in Threads : pc'[u] = pc[u] \/ (pc[u] = "asleep" /\ pc'[u] = "leave")
    BY <1>0, <1>7 DEF Close, CloseSetClosed, CloseWakeAll, Asleep, vars
  <2> QED
    BY <2>1, <2>2, SlotsKept, FreshKept
<1> QED
  BY <1>1, <1>2, <1>3, <1>4, <1>5, <1>6, <1>7 DEF Next, Step, Finished, Aside

-----------------------------------------------------------------------------
(* The messages are kept *)

\* Where a message is, m being at exactly one place once it has left its writer.
AtOnePlace(m) == /\ Out(m) <=> \E x \in Places : At(x, m)
                 /\ \A x, y \in Places : At(x, m) /\ At(y, m) => x = y

\* Which slots hold a message depends on their laps, cursors and owners only.
LEMMA LiveKept ==
  ASSUME UNCHANGED <<ring, cursor>>,
         \A t \in Threads : /\ Owns(t)' <=> Owns(t)
                            /\ Owns(t) => cur'[t] = cur[t] /\ pc'[t] = pc[t]
  PROVE  \A p \in Slots : Live(p)' <=> Live(p)
<1>1. \A p \in Slots : OwnerOf(p)' = OwnerOf(p)
  BY DEF OwnerOf
<1>2. \A p \in Slots : \A t \in OwnerOf(p) : pc'[t] = pc[t]
  BY DEF OwnerOf
<1>3. \A p \in Slots : NextLap("recv", p)' = NextLap("recv", p)
  BY DEF NextLap
<1> QED
  BY <1>1, <1>2, <1>3 DEF Live

\* A step that moves no message keeps the account of them.
LEMMA MessagesKept ==
  ASSUME MessageInv, msg_count' = msg_count,
         \A w \in Writers : InCall(w)' => cell'[w] = From(w) + done'[w],
         \A m \in Messages : Out(m)' <=> Out(m),
         \A p \in Slots : /\ Live(p)' <=> Live(p)
                          /\ Live(p) => ring'[p].data = ring[p].data,
         \A r \in Readers : /\ Moved(r)' <=> Moved(r)
                            /\ Moved(r) => cell'[r] = cell[r]
  PROVE  MessageInv'
<1>1. \A x \in Places, m \in Messages : At(x, m)' <=> At(x, m)
  BY DEF Places, Readers, Counted, At
<1> QED
  BY <1>1 DEF MessageInv

\* A step that takes message n from place a to place b.
LEMMA PlaceMoved ==
  ASSUME MessageInv, NEW a \in Places, NEW b \in Places, NEW n \in Messages, At(a, n), a # b,
         \A m \in Messages : Out(m)' <=> Out(m),
         \A m \in Messages : At(a, m) => m = n,
         \A x \in Places, m \in Messages : At(x, m)' <=> (At(x, m) /\ x # a) \/ (x = b /\ m = n)
  PROVE  \A m \in Messages : AtOnePlace(m)'
<1> SUFFICES ASSUME NEW m \in Messages PROVE AtOnePlace(m)'
  OBVIOUS
<1>1. Out(m) <=> \E x \in Places : At(x, m)
  BY DEF MessageInv
<1>2. \A x, y \in Places : At(x, m) /\ At(y, m) => x = y
  BY DEF MessageInv
<1>3. CASE m = n
  <2>1. \A x \in Places : At(x, m)' <=> x = b
    BY <1>2, <1>3
  <2> QED
    BY <1>1, <1>3, <2>1 DEF AtOnePlace
<1>4. CASE m # n
  <2>1. \A x \in Places : At(x, m)' <=> At(x, m)
    BY <1>4
  <2> QED
    BY <1>1, <1>2, <2>1 DEF AtOnePlace
<1> QED
  BY <1>3, <1>4

\* One message more is the next one.
LEMMA OneMore ==
  ASSUME NEW a \in Nat, NEW d \in Nat, NEW m \in Nat
  PROVE  a <= m /\ m < a + (d + 1) <=> (a <= m /\ m < a + d) \/ m = a + d
OBVIOUS

\* The message a writer is about to store has not been stored before.
LEMMA NextIsNew ==
  ASSUME RingIInv, NEW w \in Writers, InCall(w), ~Moved(w)
  PROVE  From(w) + done[w] \in Messages /\ ~Out(From(w) + done[w])
<1> DEFINE n == From(w) + done[w]
<1>1. \A v \in Writers : /\ v \in Threads /\ done[v] \in Nat /\ done[v] <= Batch(v)
                         /\ (InCall(v) => done[v] < Batch(v))
                         /\ From(v) \in Nat /\ Batch(v) \in Nat
  BY BatchBounds DEF RingIInv, WithinBatch, Shape, Threads
<1>2. n \in Messages
  BY <1>1, BatchBounds, ThreadsAssumption DEF Messages
<1>3. ASSUME NEW v \in Writers,
             \/ From(v) <= n /\ n < From(v) + done[v]
             \/ Moved(v) /\ n = From(v) + done[v]
      PROVE  FALSE
  <2>1. PICK j \in Nat : j < Batch(v) /\ j <= done[v] /\ n = From(v) + j
                         /\ (j = done[v] => Moved(v))
    <3>1. CASE From(v) <= n /\ n < From(v) + done[v]
      <4> DEFINE j == n - From(v)
      <4>1. j \in Nat /\ j < done[v] /\ n = From(v) + j
        BY <1>1, <3>1
      <4> HIDE DEF n, j
      <4> QED
        BY <1>1, <4>1
    <3>2. CASE Moved(v) /\ n = From(v) + done[v]
      BY <1>1, <3>2 DEF Moved, InCall
    <3> QED
      BY <1>3, <3>1, <3>2
  <2>2. v = w
    BY <1>1, <2>1, OneWriter
  <2> QED
    BY <1>1, <2>1, <2>2
<1> QED
  BY <1>2, <1>3 DEF Out

\* Every step keeps the account of the messages.
LEMMA NextMessages ==
  ASSUME RingIInv, MessageInv, [Next]_vars PROVE MessageInv'
<1> USE DEF Goto, bufVars, creditVars, progVars
<1>0. /\ pc \in [Threads -> Labels] /\ cur \in [Threads -> [lap : Nat, pos : Slots]]
      /\ cell \in [Threads -> Messages \cup {0, NoMsg}] /\ done \in [Threads -> Nat]
      /\ msg_count \in [Messages -> Nat] /\ cursor \in [Sides -> [lap : Nat, pos : Slots]]
      /\ ring \in [Slots -> [lap : Nat, data : Messages \cup {0}]]
  BY DEF RingIInv, Shape
<1>00. /\ Writers \subseteq Threads /\ Readers \subseteq Threads
       /\ \A w \in Writers : Side(w) = "send" /\ w[1] = "send"
       /\ \A r \in Readers : Side(r) = "recv" /\ r[1] = "recv"
       /\ \A t \in Threads : t \in Writers \/ t \in Readers
  BY DEF Threads, Writers, Readers, Side
<1> USE <1>0, <1>00
<1>1. ASSUME NEW t \in Threads, Call(t) PROVE MessageInv'
  <2>1. /\ UNCHANGED <<ring, cursor, cur, done, msg_count>>
        /\ \A u \in Threads \ {t} : pc'[u] = pc[u] /\ cell'[u] = cell[u]
        /\ pc[t] = "idle" /\ pc'[t] = "try"
        /\ t \in Writers => cell'[t] = From(t) + done[t]
    BY <1>1 DEF Call
  <2>2. \A p \in Slots : Live(p)' <=> Live(p)
    BY <2>1, LiveKept DEF Owns
  <2>3. \A u \in Threads : (Moved(u)' <=> Moved(u)) /\ (Moved(u) => u # t)
    BY <2>1 DEF Moved
  <2>4. \A w \in Writers : InCall(w)' => cell'[w] = From(w) + done'[w]
    BY <2>1 DEF InCall, MessageInv
  <2>5. \A m \in Messages : Out(m)' <=> Out(m)
    BY <2>1, <2>3 DEF Out
  <2> QED
    BY <2>1, <2>2, <2>3, <2>4, <2>5, MessagesKept
<1>2. ASSUME NEW t \in Threads, Claim(t), cursor[Side(t)] = cur[t] PROVE MessageInv'
  <2> DEFINE p == cur[t].pos
  <2>1. /\ UNCHANGED <<ring, cur, cell, done, msg_count>> /\ pc[t] = "claim"
        /\ pc' = [pc EXCEPT ![t] = "data"] /\ p \in Slots
        /\ cursor' = [cursor EXCEPT ![Side(t)] = Advance(cur[t])]
    BY <1>2 DEF Claim
  <2>2. /\ OwnerOf(p) = {} /\ ring[p].lap = NextLap(Side(t), p)
        /\ NextLap(Other(Side(t)), p) = ring[p].lap + 1
    BY <1>2, ClaimRing
  <2>3. \A q \in Slots : OwnerOf(q)' = IF q = p THEN {t} ELSE OwnerOf(q)
    BY <2>1, <2>2 DEF OwnerOf, Owns
  <2>4. \A q \in Slots \ {p} : NextLap("recv", q)' = NextLap("recv", q)
    <3>1. \A q \in Slots : (IF Advance(cur[t]).pos <= q THEN Advance(cur[t]).lap ELSE Advance(cur[t]).lap + 2)
                = (IF cur[t].pos <= q THEN cur[t].lap ELSE cur[t].lap + 2) + (IF q = cur[t].pos THEN 2 ELSE 0)
      BY AdvanceNext
    <3>2. cur[t].lap \in Nat
      OBVIOUS
    <3>3. CASE Side(t) = "recv"
      BY <1>2, <2>1, <3>1, <3>2, <3>3 DEF NextLap, Sides
    <3>4. CASE Side(t) # "recv"
      BY <2>1, <3>4 DEF NextLap
    <3> QED
      BY <3>3, <3>4
  <2>5. \A q \in Slots \ {p} : Live(q)' <=> Live(q)
    <3> SUFFICES ASSUME NEW q \in Slots \ {p} PROVE Live(q)' <=> Live(q)
      OBVIOUS
    <3>1. OwnerOf(q)' = OwnerOf(q) /\ \A u \in OwnerOf(q) : pc'[u] = pc[u]
      BY <2>1, <2>3 DEF OwnerOf, Owns
    <3> QED
      BY <2>1, <2>4, <3>1 DEF Live
  <2>6. Live(p)' <=> Live(p)
    <3>1. CASE t \in Writers
      <4>1. ~Live(p)
        BY <2>2, <3>1 DEF Live, Other
      <4>2. \A q \in Slots : q = p => ~Live(q)'
        BY <2>1, <2>3, <3>1 DEF Live
      <4> QED
        BY <2>1, <4>1, <4>2
    <3>2. CASE t \in Readers
      <4>1. Live(p)
        BY <2>2, <3>2 DEF Live
      <4>2. \A q \in Slots : q = p => Live(q)'
        BY <2>1, <2>3, <3>2 DEF Live
      <4> QED
        BY <2>1, <4>1, <4>2
    <3> QED
      BY <3>1, <3>2
  <2>7. \A q \in Slots : Live(q)' <=> Live(q)
    BY <2>1, <2>5, <2>6
  <2>8. \A u \in Threads : (Moved(u)' <=> Moved(u)) /\ (InCall(u)' <=> InCall(u))
    BY <2>1 DEF Moved, InCall
  <2>9. \A w \in Writers : InCall(w)' => cell'[w] = From(w) + done'[w]
    BY <2>1, <2>8 DEF MessageInv
  <2>10. \A m \in Messages : Out(m)' <=> Out(m)
    BY <2>1, <2>8 DEF Out
  <2> QED
    BY <2>1, <2>7, <2>8, <2>9, <2>10, MessagesKept
<1>3. ASSUME NEW t \in Threads, MoveData(t) PROVE MessageInv'
  <2> DEFINE p == cur[t].pos
             place == <<"slot", p>>
  <2>1. /\ UNCHANGED <<cursor, cur, done, msg_count>> /\ pc[t] = "data" /\ p \in Slots
        /\ pc' = [pc EXCEPT ![t] = "publish"] /\ Owns(t) /\ place \in Places
    BY <1>3 DEF MoveData, Owns, Places
  <2>2. OwnerOf(p) = {t} /\ OwnedBy(t, p)
    BY <2>1, Owner DEF RingIInv
  <2>3. /\ \A u \in Threads : Owns(u)' <=> Owns(u)
        /\ \A u \in Threads : Moved(u)' <=> Moved(u) \/ u = t
        /\ \A u \in Threads : InCall(u)' <=> InCall(u)
        /\ ~Moved(t) /\ InCall(t)
    BY <2>1 DEF Owns, Moved, InCall
  <2>4. \A q \in Slots : OwnerOf(q)' = OwnerOf(q) /\ (q # p => \A u \in OwnerOf(q) : u # t)
    BY <2>1, <2>3 DEF OwnerOf
  <2>5. \A q \in Slots : ring'[q].lap = ring[q].lap /\ (q # p => ring'[q] = ring[q])
    BY <1>3, <2>1 DEF MoveData
  <2>6. \A q \in Slots \ {p} : Live(q)' <=> Live(q)
    <3> SUFFICES ASSUME NEW q \in Slots \ {p} PROVE Live(q)' <=> Live(q)
      OBVIOUS
    <3>1. /\ OwnerOf(q)' = OwnerOf(q) /\ NextLap("recv", q)' = NextLap("recv", q)
          /\ \A u \in OwnerOf(q) : pc'[u] = pc[u]
      BY <2>1, <2>4 DEF NextLap, OwnerOf
    <3> QED
      BY <2>5, <3>1 DEF Live
  <2>7. CASE t \in Writers
    <3> DEFINE n == From(t) + done[t]
    <3>1. n \in Messages /\ ~Out(n)
      BY <2>3, <2>7, NextIsNew
    <3>2. /\ cell' = cell /\ cell[t] = n /\ ring'[p].data = n
      BY <1>3, <2>1, <2>3, <2>7 DEF MoveData, MessageInv
    <3>3. ~Live(p) /\ \A q \in Slots : q = p => Live(q)'
      BY <2>1, <2>2, <2>4, <2>7 DEF Live
    <3>4. \A m \in Messages : Out(m)' <=> Out(m) \/ m = n
      BY <2>1, <2>3, <2>7 DEF Out
    <3>5. \A r \in Readers : r # t /\ (Moved(r)' <=> Moved(r))
      BY <2>3, <2>7
    <3> HIDE DEF n
    <3>6. \A x \in Places, m \in Messages : At(x, m)' <=> At(x, m) \/ (x = place /\ m = n)
      <4> SUFFICES ASSUME NEW x \in Places, NEW m \in Messages
                   PROVE  At(x, m)' <=> At(x, m) \/ (x = place /\ m = n)
        OBVIOUS
      <4>1. CASE x \in {"slot"} \X Slots
        <5>1. x[1] = "slot" /\ x[2] \in Slots /\ x # Counted /\ (x = place <=> x[2] = p)
          BY <4>1 DEF Counted
        <5>2. CASE x[2] = p
          BY <2>1, <3>2, <3>3, <5>1, <5>2 DEF At
        <5>3. CASE x[2] # p
          BY <2>5, <2>6, <5>1, <5>3 DEF At
        <5> QED
          BY <5>2, <5>3
      <4>2. CASE x \in Readers
        BY <2>1, <3>2, <3>5, <4>2 DEF At, Counted
      <4>3. CASE x = Counted
        BY <2>1, <4>3 DEF At, Counted
      <4> QED
        BY <4>1, <4>2, <4>3 DEF Places
    <3>7. \A m \in Messages : AtOnePlace(m)'
      <4> SUFFICES ASSUME NEW m \in Messages PROVE AtOnePlace(m)'
        OBVIOUS
      <4>1. /\ Out(m) <=> \E x \in Places : At(x, m)
            /\ \A x, y \in Places : At(x, m) /\ At(y, m) => x = y
        BY DEF MessageInv
      <4>2. place \in Places
        BY <2>1
      <4> HIDE DEF place
      <4> QED
        BY <3>1, <3>4, <3>6, <4>1, <4>2 DEF AtOnePlace
    <3>8. \A w \in Writers : InCall(w)' => cell'[w] = From(w) + done'[w]
      BY <2>1, <2>3, <3>2 DEF MessageInv
    <3>9. \A q \in Slots : Live(q)' => ring'[q].data \in Messages
      BY <2>5, <2>6, <3>1, <3>2 DEF MessageInv
    <3>10. \A r \in Readers : Moved(r)' => cell'[r] \in Messages
      BY <3>2, <3>5 DEF MessageInv
    <3> QED
      BY <2>1, <3>7, <3>8, <3>9, <3>10 DEF MessageInv, AtOnePlace
  <2>8. CASE t \in Readers
    <3> DEFINE n == ring[p].data
    <3>1. Live(p) /\ \A q \in Slots : q = p => ~Live(q)'
      <4>1. Live(p)
        BY <2>1, <2>2, <2>8 DEF Live
      <4>2. ASSUME NEW q \in Slots, q = p PROVE ~Live(q)'
        <5>1. OwnerOf(q)' = {t} /\ pc'[t] = "publish" /\ Side(t) = "recv"
          BY <2>1, <2>2, <2>4, <2>8, <4>2
        <5> QED
          BY <5>1 DEF Live
      <4> QED
        BY <4>1, <4>2
    <3>2. n \in Messages
      BY <2>1, <3>1 DEF MessageInv
    <3>3. ring' = ring /\ cell' = [cell EXCEPT ![t] = n]
      BY <1>3, <2>1, <2>8 DEF MoveData
    <3>4. \A w \in Writers : w # t
      BY <2>8
    <3>5. \A m \in Messages : Out(m)' <=> Out(m)
      BY <2>1, <2>3, <3>4 DEF Out
    <3> HIDE DEF n
    <3>6. \A x \in Places, m \in Messages : At(x, m)' <=> (At(x, m) /\ x # place) \/ (x = t /\ m = n)
      <4> SUFFICES ASSUME NEW x \in Places, NEW m \in Messages
                   PROVE  At(x, m)' <=> (At(x, m) /\ x # place) \/ (x = t /\ m = n)
        OBVIOUS
      <4>1. CASE x \in {"slot"} \X Slots
        <5>1. x[1] = "slot" /\ x[2] \in Slots /\ x # Counted /\ x # t /\ (x = place <=> x[2] = p)
          BY <2>8, <4>1 DEF Counted
        <5>2. CASE x[2] = p
          BY <2>1, <3>1, <5>1, <5>2 DEF At
        <5>3. CASE x[2] # p
          BY <2>6, <3>3, <5>1, <5>3 DEF At
        <5> QED
          BY <5>2, <5>3
      <4>2. CASE x \in Readers
        <5>1. x # place /\ x[1] = "recv" /\ x # Counted /\ x \in Threads
          BY <4>2 DEF Counted
        <5> QED
          BY <2>3, <3>3, <5>1 DEF At
      <4>3. CASE x = Counted
        BY <2>1, <2>8, <4>3 DEF At, Counted
      <4> QED
        BY <4>1, <4>2, <4>3 DEF Places
    <3>7. /\ t \in Places /\ t # place /\ At(place, n)
          /\ \A m \in Messages : At(place, m) => m = n
      BY <2>1, <2>8, <3>1 DEF At, Places, Counted, n
    <3>8. \A m \in Messages : AtOnePlace(m)'
      <4>1. place \in Places
        BY <2>1
      <4> HIDE DEF place
      <4> QED
        BY <3>2, <3>5, <3>6, <3>7, <4>1, PlaceMoved
    <3>9. \A w \in Writers : InCall(w)' => cell'[w] = From(w) + done'[w]
      BY <2>1, <2>3, <3>3, <3>4 DEF MessageInv
    <3>10. \A q \in Slots : Live(q)' => ring'[q].data \in Messages
      BY <2>6, <3>1, <3>3 DEF MessageInv
    <3>11. \A r \in Readers : Moved(r)' => cell'[r] \in Messages
      BY <2>3, <3>2, <3>3 DEF MessageInv
    <3> QED
      BY <2>1, <3>8, <3>9, <3>10, <3>11 DEF MessageInv, AtOnePlace
  <2> QED
    BY <2>7, <2>8
<1>4. ASSUME NEW t \in Threads, Publish(t) PROVE MessageInv'
  <2> DEFINE p == cur[t].pos
  <2>1. /\ UNCHANGED <<cursor, cur, cell, done, msg_count>> /\ pc[t] = "publish" /\ p \in Slots
        /\ pc' = [pc EXCEPT ![t] = "add"] /\ ring' = [ring EXCEPT ![p].lap = @ + 1]
    BY <1>4 DEF Publish
  <2>2. /\ OwnerOf(p) = {t}
        /\ \A q \in Slots : q = p => /\ OwnerOf(q)' = {}
                                     /\ ring'[q].lap = NextLap(Other(Side(t)), q)'
                                     /\ NextLap(Side(t), q)' = ring'[q].lap + 1
    BY <1>4, <2>1, PublishRing
  <2>3. \A q \in Slots : ring'[q].data = ring[q].data /\ (q # p => ring'[q] = ring[q])
    BY <2>1
  <2>4. \A q \in Slots : Live(q)' <=> Live(q)
    <3> SUFFICES ASSUME NEW q \in Slots PROVE Live(q)' <=> Live(q)
      OBVIOUS
    <3>1. CASE q # p
      <4>1. /\ OwnerOf(q)' = OwnerOf(q) /\ NextLap("recv", q)' = NextLap("recv", q)
            /\ \A u \in OwnerOf(q) : pc'[u] = pc[u]
        BY <2>1, <3>1 DEF OwnerOf, Owns, NextLap
      <4> QED
        BY <2>3, <3>1, <4>1 DEF Live
    <3>2. CASE q = p
      <4>1. t \in Writers => Live(q) /\ Live(q)'
        BY <2>1, <2>2, <3>2 DEF Live, Other
      <4>2. t \in Readers => ~Live(q) /\ ~Live(q)'
        <5> SUFFICES ASSUME t \in Readers PROVE ~Live(q) /\ ~Live(q)'
          OBVIOUS
        <5>1. OwnerOf(q) = {t} /\ pc[t] = "publish" /\ Side(t) = "recv"
          BY <2>1, <2>2, <3>2
        <5>2. ~Live(q)
          BY <5>1 DEF Live
        <5>3. OwnerOf(q)' = {} /\ NextLap("recv", q)' = ring'[q].lap + 1 /\ ring'[q].lap \in Nat
          BY <2>1, <2>2, <3>2, <5>1
        <5>4. ~Live(q)'
          BY <5>3 DEF Live
        <5> QED
          BY <5>2, <5>4
      <4> QED
        BY <4>1, <4>2
    <3> QED
      BY <3>1, <3>2
  <2>5. \A u \in Threads : (Moved(u)' <=> Moved(u)) /\ (InCall(u)' <=> InCall(u))
    BY <2>1 DEF Moved, InCall
  <2>6. \A w \in Writers : InCall(w)' => cell'[w] = From(w) + done'[w]
    BY <2>1, <2>5 DEF MessageInv
  <2>7. \A m \in Messages : Out(m)' <=> Out(m)
    BY <2>1, <2>5 DEF Out
  <2> QED
    BY <2>1, <2>3, <2>4, <2>5, <2>6, <2>7, MessagesKept
<1>5. ASSUME NEW t \in Threads, Return(t) PROVE MessageInv'
  <2>1. /\ UNCHANGED <<ring, cursor, cur, cell>> /\ pc[t] = "return"
        /\ pc' = [pc EXCEPT ![t] = "idle"] /\ done' = [done EXCEPT ![t] = done[t] + 1]
    BY <1>5 DEF Return
  <2>2. \A p \in Slots : Live(p)' <=> Live(p)
    BY <2>1, LiveKept DEF Owns
  <2>3. /\ Moved(t) /\ InCall(t)
        /\ \A u \in Threads : (Moved(u)' <=> Moved(u) /\ u # t) /\ (InCall(u)' <=> InCall(u) /\ u # t)
    BY <2>1 DEF Moved, InCall
  <2>4. \A w \in Writers : InCall(w)' => cell'[w] = From(w) + done'[w]
    BY <2>1, <2>3 DEF MessageInv
  <2>5. \A m \in Messages : Out(m)' <=> Out(m)
    <3> SUFFICES ASSUME NEW m \in Messages, NEW w \in Writers
                 PROVE  (\/ From(w) <= m /\ m < From(w) + done'[w]
                         \/ Moved(w)' /\ m = From(w) + done'[w])
                    <=> (\/ From(w) <= m /\ m < From(w) + done[w]
                         \/ Moved(w) /\ m = From(w) + done[w])
      BY DEF Out
    <3>1. From(w) \in Nat /\ done[w] \in Nat /\ m \in Nat /\ w \in Threads
      BY BatchBounds, ThreadsAssumption DEF Messages
    <3>2. CASE w = t
      <4>1. Moved(w) /\ ~Moved(w)' /\ done'[w] = done[w] + 1
        BY <2>1, <2>3, <3>1, <3>2
      <4>2. \A d \in Nat : From(w) <= m /\ m < From(w) + (d + 1)
                           <=> \/ From(w) <= m /\ m < From(w) + d
                               \/ m = From(w) + d
        BY <3>1, OneMore
      <4> QED
        BY <3>1, <4>1, <4>2
    <3>3. CASE w # t
      BY <2>1, <2>3, <3>1, <3>3
    <3> QED
      BY <3>2, <3>3
  <2>6. CASE t \in Writers
    <3>1. msg_count' = msg_count /\ t \notin Readers
      BY <1>5, <2>6 DEF Return
    <3> QED
      BY <2>1, <2>2, <2>3, <2>4, <2>5, <3>1, MessagesKept
  <2>7. CASE t \in Readers
    <3> DEFINE n == cell[t]
    <3>1. n \in Messages /\ At(t, n) /\ t \in Places /\ Counted \in Places /\ t # Counted
      BY <2>3, <2>7 DEF MessageInv, At, Places, Counted
    <3>2. msg_count[n] = 0
      <4>1. ~At(Counted, n)
        BY <3>1 DEF MessageInv
      <4> QED
        BY <3>1, <4>1 DEF MessageInv, At
    <3>3. \A m \in Messages : msg_count'[m] = IF m = n THEN 1 ELSE msg_count[m]
      BY <1>5, <2>7, <3>1, <3>2 DEF Return
    <3>4. \A m \in Messages : At(t, m) => m = n
      BY <2>7, <3>1 DEF At
    <3> HIDE DEF n
    <3>5. \A x \in Places, m \in Messages : At(x, m)' <=> (At(x, m) /\ x # t) \/ (x = Counted /\ m = n)
      <4> SUFFICES ASSUME NEW x \in Places, NEW m \in Messages
                   PROVE  At(x, m)' <=> (At(x, m) /\ x # t) \/ (x = Counted /\ m = n)
        OBVIOUS
      <4>1. CASE x \in {"slot"} \X Slots
        <5>1. x[1] = "slot" /\ x[2] \in Slots /\ x # Counted /\ x # t
          BY <2>7, <4>1 DEF Counted
        <5> QED
          BY <2>1, <2>2, <5>1 DEF At
      <4>2. CASE x \in Readers
        <5>1. x # Counted /\ x[1] = "recv" /\ x \in Threads
          BY <4>2 DEF Counted
        <5> QED
          BY <2>1, <2>3, <5>1 DEF At
      <4>3. CASE x = Counted
        <5>1. x[1] = "counted" /\ x # t
          BY <2>7, <4>3 DEF Counted
        <5> QED
          BY <3>3, <4>3, <5>1 DEF At
      <4> QED
        BY <4>1, <4>2, <4>3 DEF Places
    <3>6. \A m \in Messages : AtOnePlace(m)'
      BY <2>5, <3>1, <3>4, <3>5, PlaceMoved
    <3>7. \A m \in Messages : msg_count'[m] \in 0 .. 1
      BY <3>3 DEF MessageInv
    <3>8. \A q \in Slots : Live(q)' => ring'[q].data \in Messages
      BY <2>1, <2>2 DEF MessageInv
    <3>9. \A r \in Readers : Moved(r)' => cell'[r] \in Messages
      BY <2>1, <2>3 DEF MessageInv
    <3> QED
      BY <2>4, <3>6, <3>7, <3>8, <3>9 DEF MessageInv, AtOnePlace
  <2> QED
    BY <2>6, <2>7
<1>6. ASSUME UNCHANGED <<ring, cursor, cell, done, msg_count>>,
             \A u \in Threads : /\ Owns(u)' <=> Owns(u)
                                /\ Owns(u) => cur'[u] = cur[u] /\ pc'[u] = pc[u]
                                /\ Moved(u)' <=> Moved(u)
                                /\ InCall(u)' => InCall(u)
      PROVE  MessageInv'
  <2>1. \A p \in Slots : Live(p)' <=> Live(p)
    BY <1>6, LiveKept
  <2>2. \A m \in Messages : Out(m)' <=> Out(m)
    BY <1>6 DEF Out
  <2>3. \A w \in Writers : InCall(w)' => cell'[w] = From(w) + done'[w]
    BY <1>6 DEF MessageInv
  <2> QED
    BY <1>6, <2>1, <2>2, <2>3, MessagesKept
<1>7. ASSUME NEW t \in Threads,
             \/ Try(t) \/ LoadCursor(t) \/ LoadLap(t) \/ (Claim(t) /\ cursor[Side(t)] # cur[t])
             \/ TakeCredit(t) \/ Announce(t) \/ FutexWait(t) \/ SpuriousWakeup(t) \/ Leave(t)
      PROVE  MessageInv'
  <2>1. /\ UNCHANGED <<ring, cursor, cell, done, msg_count>>
        /\ \A u \in Threads \ {t} : pc'[u] = pc[u] /\ cur'[u] = cur[u]
        /\ InCall(t)
        /\ {pc[t], pc'[t]} \cap {"data", "publish", "add", "waiters", "wake", "return"} = {}
    BY <1>7 DEF Try, LoadCursor, LoadLap, Claim, TakeCredit, Announce, FutexWait,
                SpuriousWakeup, Leave, InCall
  <2>2. \A u \in Threads : /\ Owns(u)' <=> Owns(u)
                           /\ Owns(u) => cur'[u] = cur[u] /\ pc'[u] = pc[u]
                           /\ Moved(u)' <=> Moved(u)
                           /\ InCall(u)' => InCall(u)
    BY <2>1 DEF Owns, Moved, InCall
  <2> QED
    BY <1>6, <2>1, <2>2
<1>8. ASSUME NEW t \in Threads, AddCredit(t) \/ LoadWaiters(t) \/ Wake(t) PROVE MessageInv'
  <2>1. /\ UNCHANGED <<ring, cursor, cur, cell, done, msg_count>>
        /\ \A u \in Threads : \/ pc'[u] = pc[u]
                              \/ {pc[u], pc'[u]} \subseteq {"add", "waiters", "wake", "return"}
                              \/ pc[u] = "asleep" /\ pc'[u] = "leave"
    BY <1>8 DEF AddCredit, LoadWaiters, Wake, Asleep
  <2>2. \A u \in Threads : /\ Owns(u)' <=> Owns(u)
                           /\ Owns(u) => cur'[u] = cur[u] /\ pc'[u] = pc[u]
                           /\ Moved(u)' <=> Moved(u)
                           /\ InCall(u)' => InCall(u)
    BY <2>1 DEF Owns, Moved, InCall
  <2> QED
    BY <1>6, <2>1, <2>2
<1>9. CASE Close \/ UNCHANGED vars
  <2>1. UNCHANGED <<ring, cursor, cur, cell, done, msg_count>>
    BY <1>9 DEF Close, CloseSetClosed, CloseWakeAll, vars
  <2>2. \A u \in Threads : pc'[u] = pc[u] \/ (pc[u] = "asleep" /\ pc'[u] = "leave")
    BY <1>9 DEF Close, CloseSetClosed, CloseWakeAll, Asleep, vars
  <2>3. \A u \in Threads : /\ Owns(u)' <=> Owns(u)
                           /\ Owns(u) => cur'[u] = cur[u] /\ pc'[u] = pc[u]
                           /\ Moved(u)' <=> Moved(u)
                           /\ InCall(u)' => InCall(u)
    BY <2>1, <2>2 DEF Owns, Moved, InCall
  <2> QED
    BY <1>6, <2>1, <2>3
<1> QED
  BY <1>1, <1>2, <1>3, <1>4, <1>5, <1>7, <1>8, <1>9 DEF Next, Step, Finished

-----------------------------------------------------------------------------
(* The counters are kept *)

\* Along the claims of a side the tickets count by one.
LEMMA AdvanceTicket ==
  ASSUME NEW c \in [lap : Nat, pos : Slots]
  PROVE  /\ Ticket(c) \in Nat /\ Ticket(Advance(c)) = Ticket(c) + 1
         /\ Advance(c).lap % 2 = c.lap % 2
<1>1. c.lap \div 2 \in Nat /\ (c.lap + 2) \div 2 = (c.lap \div 2) + 1 /\ (c.lap + 2) % 2 = c.lap % 2
  OBVIOUS
<1>2. Cap \in Nat /\ c.pos \in Nat /\ c.pos < Cap
  BY RunAssumption DEF Slots
<1> DEFINE k == c.lap \div 2
<1>3. k * Cap \in Nat /\ (k + 1) * Cap = k * Cap + Cap
  BY <1>1, <1>2
<1>4. CASE c.pos + 1 = Cap
  <2>1. Advance(c).lap = c.lap + 2 /\ Advance(c).pos = 0
    BY <1>4 DEF Advance
  <2>2. Ticket(Advance(c)) = (k + 1) * Cap + 0
    BY <1>1, <2>1 DEF Ticket
  <2> HIDE DEF k
  <2>3. Ticket(c) = k * Cap + c.pos
    BY DEF Ticket, k
  <2> QED
    BY <1>1, <1>2, <1>3, <1>4, <2>1, <2>2, <2>3
<1>5. CASE c.pos + 1 # Cap
  <2>1. Advance(c).lap = c.lap /\ Advance(c).pos = c.pos + 1
    BY <1>5 DEF Advance
  <2>2. Ticket(Advance(c)) = k * Cap + (c.pos + 1)
    BY <2>1 DEF Ticket
  <2>3. Ticket(c) = k * Cap + c.pos
    BY DEF Ticket
  <2> HIDE DEF k
  <2> QED
    BY <1>1, <1>2, <1>3, <2>1, <2>2, <2>3
<1> QED
  BY <1>4, <1>5

\* Slots of one side are claimed in order: the cursors are at most a round apart.
LEMMA InvCursorsWithinCap ==
  ASSUME RingIInv, \A s \in Sides : cursor[s].lap % 2 = (IF s = "recv" THEN 1 ELSE 0)
  PROVE  CursorsWithinCap
<1> DEFINE c == cursor["send"]
           d == cursor["recv"]
           k == c.lap \div 2
           l == d.lap \div 2
<1>1. /\ c \in [lap : Nat, pos : Slots] /\ d \in [lap : Nat, pos : Slots]
      /\ c.lap % 2 = 0 /\ d.lap % 2 = 1
  BY DEF RingIInv, Shape, Sides
<1>2. k \in Nat /\ l \in Nat /\ c.lap = 2 * k /\ d.lap = 2 * l + 1
  BY <1>1
<1>3. Cap \in Nat \ {0} /\ c.pos \in 0 .. Cap - 1 /\ d.pos \in 0 .. Cap - 1
  BY <1>1, RunAssumption DEF Slots
<1>4. ASSUME NEW p \in Slots
      PROVE  NextLap("send", p) = NextLap("recv", p) + 1 \/ NextLap("send", p) + 1 = NextLap("recv", p)
  <2>1. NextLap("send", p) \in Nat /\ NextLap("recv", p) \in Nat
    BY <1>1 DEF NextLap
  <2>2. CASE Free(p)
    BY <2>1, <2>2 DEF Free, Sides, Other
  <2>3. ASSUME NEW t \in Threads, OwnedBy(t, p) PROVE NextLap("send", p) = NextLap("recv", p) + 1 \/ NextLap("send", p) + 1 = NextLap("recv", p)
    <3>1. ring[p].lap \in Nat /\ Side(t) \in {"send", "recv"}
      BY ThreadSides DEF RingIInv, Shape, Sides
    <3> QED
      BY <2>1, <2>3, <3>1 DEF OwnedBy, Other
  <2> QED
    BY <2>2, <2>3 DEF RingIInv, SlotInv
<1>5. /\ NextLap("send", c.pos) = c.lap
      /\ NextLap("recv", d.pos) = d.lap
      /\ NextLap("send", d.pos) = IF c.pos <= d.pos THEN c.lap ELSE c.lap + 2
      /\ NextLap("recv", c.pos) = IF d.pos <= c.pos THEN d.lap ELSE d.lap + 2
  BY <1>3 DEF NextLap
<1>6. (k = l /\ c.pos >= d.pos) \/ (k = l + 1 /\ c.pos <= d.pos)
  <2> HIDE DEF c, d, k, l
  <2>1. c.pos \in Slots /\ d.pos \in Slots
    BY <1>1
  <2> QED
    BY <1>2, <1>3, <1>4, <1>5, <2>1
<1>7. Ticket(c) = k * Cap + c.pos /\ Ticket(d) = l * Cap + d.pos
  BY DEF Ticket
<1>8. Ticket(c) - Ticket(d) \in 0 .. Cap
  <2> HIDE DEF c, d, k, l
  <2>1. l * Cap \in Nat /\ (l + 1) * Cap = l * Cap + Cap
    BY <1>2, <1>3
  <2> QED
    BY <1>3, <1>6, <1>7, <2>1
<1> QED
  BY <1>8 DEF CursorsWithinCap

\* The messages can be counted.
LEMMA MessagesFinite == IsFiniteSet(Messages) /\ Cardinality(Messages) = Total
BY FS_Interval, ThreadsAssumption DEF Messages

\* A set that takes in one message has one more.
LEMMA OneMoreMessage ==
  ASSUME NEW S \in SUBSET Messages, NEW T \in SUBSET Messages, NEW n \in Messages, n \notin S,
         \A m \in Messages : m \in T <=> m \in S \/ m = n
  PROVE  Cardinality(T) = Cardinality(S) + 1
<1>1. T = S \cup {n} /\ IsFiniteSet(S)
  BY FS_Subset, MessagesFinite
<1> QED
  BY <1>1, FS_AddElement

\* A thread's next message, or what it counts as, is new to its side.
LEMMA NextOfThread ==
  ASSUME NEW t \in Threads, NEW n \in [Threads -> Nat], \A u \in Threads : n[u] <= Batch(u),
         n[t] < Batch(t)
  PROVE  /\ From(t) + n[t] \in Messages
         /\ \A u \in Threads : Side(u) = Side(t) =>
               ~(From(u) <= From(t) + n[t] /\ From(t) + n[t] < From(u) + n[u])
<1>1. \A u \in Threads : From(u) \in Nat /\ Batch(u) \in Nat /\ n[u] \in Nat /\ From(u) + Batch(u) <= Total
  BY BatchBounds
<1>2. From(t) + n[t] \in Messages
  BY <1>1, ThreadsAssumption DEF Messages
<1>3. ASSUME NEW u \in Threads, Side(u) = Side(t), From(u) <= From(t) + n[t], From(t) + n[t] < From(u) + n[u]
      PROVE  FALSE
  <2>1. u = t
    BY <1>1, <1>3, BatchesDisjoint
  <2> QED
    BY <1>1, <1>3, <2>1
<1> QED
  BY <1>2, <1>3

\* A claim adds a message and a ticket, a receiver's return a receipt and a message
\* counted.
LEMMA NextCounts ==
  ASSUME RingIInv, MessageInv, CountInv, [Next]_vars PROVE CountInv'
<1> USE DEF Goto, bufVars, creditVars, progVars
<1>0. /\ pc \in [Threads -> Labels] /\ cur \in [Threads -> [lap : Nat, pos : Slots]]
      /\ done \in [Threads -> Nat]
      /\ msg_count \in [Messages -> Nat] /\ cursor \in [Sides -> [lap : Nat, pos : Slots]]
  BY DEF RingIInv, Shape
<1>00. /\ Writers \subseteq Threads /\ Readers \subseteq Threads
       /\ \A w \in Writers : Side(w) = "send"
       /\ \A r \in Readers : Side(r) = "recv"
       /\ \A t \in Threads : t \in Writers \/ t \in Readers
  BY DEF Threads, Writers, Readers, Side
<1> USE <1>0, <1>00
<1>1. ASSUME UNCHANGED <<cursor, done, msg_count>>,
             \A u \in Threads : AfterClaim(u)' <=> AfterClaim(u)
      PROVE  CountInv'
  <2>1. Claims' = Claims /\ Receipts' = Receipts /\ CountedMessages' = CountedMessages
    BY <1>1 DEF Claims, Receipts, CountedMessages, Sent
  <2> QED
    BY <1>1, <2>1 DEF CountInv
<1>2. ASSUME NEW t \in Threads, Claim(t), cursor[Side(t)] = cur[t] PROVE CountInv'
  <2>1. /\ UNCHANGED <<done, msg_count>> /\ pc[t] = "claim" /\ pc' = [pc EXCEPT ![t] = "data"]
        /\ cursor' = [cursor EXCEPT ![Side(t)] = Advance(cursor[Side(t)])]
    BY <1>2 DEF Claim
  <2>2. /\ \A u \in Threads : AfterClaim(u)' <=> AfterClaim(u) \/ u = t
        /\ ~AfterClaim(t) /\ InCall(t)
    BY <2>1 DEF AfterClaim, InCall
  <2>3. Receipts' = Receipts /\ CountedMessages' = CountedMessages
    BY <2>1 DEF Receipts, CountedMessages
  <2>4. /\ \A s \in Sides : cursor'[s].lap % 2 = (IF s = "recv" THEN 1 ELSE 0)
        /\ \A s \in Sides : Ticket(cursor'[s]) = Ticket(cursor[s]) + (IF s = Side(t) THEN 1 ELSE 0)
    <3>1. \A s \in Sides : /\ Ticket(cursor[s]) \in Nat
                           /\ Ticket(Advance(cursor[s])) = Ticket(cursor[s]) + 1
                           /\ Advance(cursor[s]).lap % 2 = cursor[s].lap % 2
      BY AdvanceTicket
    <3> QED
      BY <2>1, <3>1, ThreadSides DEF CountInv
  <2>5. CASE t \in Readers
    <3>1. Claims' = Claims
      BY <2>1, <2>2, <2>5 DEF Claims, Sent
    <3>2. Ticket(cursor'["send"]) = Ticket(cursor["send"])
      <4>1. "send" \in Sides /\ Side(t) # "send" /\ cursor["send"] \in [lap : Nat, pos : Slots]
        BY <2>5 DEF Sides
      <4> QED
        BY <2>4, <4>1, AdvanceTicket
    <3> QED
      BY <2>3, <2>4, <3>1, <3>2 DEF CountInv
  <2>6. CASE t \in Writers
    <3> DEFINE k == [u \in Threads |-> IF u \in Writers THEN Sent(u) ELSE 0]
               n == From(t) + done[t]
    <3>1. /\ k \in [Threads -> Nat] /\ \A u \in Threads : k[u] <= Batch(u)
          /\ k[t] = done[t] /\ k[t] < Batch(t)
      <4>1. \A u \in Threads : AfterClaim(u) => InCall(u)
        BY DEF AfterClaim, InCall
      <4>2. \A u \in Threads : /\ done[u] <= Batch(u) /\ done[u] \in Nat /\ Batch(u) \in Nat
                               /\ (InCall(u) => done[u] < Batch(u))
        BY BatchBounds DEF RingIInv, WithinBatch
      <4> QED
        BY <2>2, <2>6, <4>1, <4>2 DEF Sent
    <3>2. n \in Messages /\ n \notin Claims
      <4> HIDE DEF k
      <4>1. /\ n \in Messages
            /\ \A u \in Threads : Side(u) = Side(t) => ~(From(u) <= n /\ n < From(u) + k[u])
        BY <3>1, NextOfThread
      <4>2. \A w \in Writers : k[w] = Sent(w)
        BY DEF k
      <4> QED
        BY <2>6, <4>1, <4>2 DEF Claims
    <3>3. \A m \in Messages : m \in Claims' <=> m \in Claims \/ m = n
      <4>1. \A w \in Writers : Sent(w)' = IF w = t THEN done[t] + 1 ELSE Sent(w)
        BY <2>1, <2>2 DEF Sent
      <4>2. Sent(t) = done[t]
        BY <2>2 DEF Sent
      <4>3. \A m \in Messages : From(t) <= m /\ m < From(t) + (done[t] + 1)
                                <=> (From(t) <= m /\ m < From(t) + done[t]) \/ m = n
        BY BatchBounds, OneMore, ThreadsAssumption DEF Messages
      <4> QED
        BY <2>6, <4>1, <4>2, <4>3 DEF Claims
    <3>4. Cardinality(Claims') = Cardinality(Claims) + 1
      <4>1. Claims \subseteq Messages /\ Claims' \subseteq Messages
        BY DEF Claims
      <4> QED
        BY <3>2, <3>3, <4>1, OneMoreMessage
    <3>5. Ticket(cursor'["send"]) = Ticket(cursor["send"]) + 1
      BY <2>4, <2>6 DEF Sides
    <3> QED
      BY <2>3, <2>4, <3>4, <3>5 DEF CountInv
  <2> QED
    BY <2>5, <2>6
<1>3. ASSUME NEW t \in Threads, Return(t) PROVE CountInv'
  <2>1. /\ UNCHANGED <<cursor, cell>> /\ pc[t] = "return" /\ pc' = [pc EXCEPT ![t] = "idle"]
        /\ done' = [done EXCEPT ![t] = done[t] + 1]
    BY <1>3 DEF Return
  <2>2. Claims' = Claims
    <3>1. \A u \in Threads : Sent(u)' = Sent(u)
      BY <2>1 DEF Sent, AfterClaim
    <3> QED
      BY <3>1 DEF Claims
  <2>3. CASE t \in Writers
    <3>1. msg_count' = msg_count /\ \A r \in Readers : done'[r] = done[r]
      BY <1>3, <2>1, <2>3 DEF Return
    <3>2. Receipts' = Receipts /\ CountedMessages' = CountedMessages
      BY <3>1 DEF Receipts, CountedMessages
    <3> QED
      BY <2>1, <2>2, <3>2 DEF CountInv
  <2>4. CASE t \in Readers
    <3> DEFINE n == From(t) + done[t]
               k == cell[t]
    <3>1. n \in Messages /\ n \notin Receipts
      <4>1. done[t] < Batch(t) /\ \A u \in Threads : done[u] <= Batch(u)
        BY <2>1 DEF RingIInv, WithinBatch, InCall
      <4>2. /\ n \in Messages
            /\ \A u \in Threads : Side(u) = Side(t) => ~(From(u) <= n /\ n < From(u) + done[u])
        BY <4>1, NextOfThread
      <4> QED
        BY <2>4, <4>2 DEF Receipts
    <3>2. \A m \in Messages : m \in Receipts' <=> m \in Receipts \/ m = n
      <4>1. \A m \in Messages : From(t) <= m /\ m < From(t) + (done[t] + 1)
                                <=> (From(t) <= m /\ m < From(t) + done[t]) \/ m = n
        BY BatchBounds, OneMore, ThreadsAssumption DEF Messages
      <4>2. \A r \in Readers : done'[r] = IF r = t THEN done[t] + 1 ELSE done[r]
        BY <2>1
      <4> QED
        BY <2>4, <4>1, <4>2 DEF Receipts
    <3>3. k \in Messages /\ msg_count[k] = 0
      <4>1. k \in Messages /\ At(t, k) /\ t \in Places /\ Counted \in Places /\ t # Counted
        BY <2>1, <2>4 DEF MessageInv, Moved, At, Places, Counted, Readers
      <4>2. ~At(Counted, k)
        BY <4>1 DEF MessageInv
      <4> QED
        BY <4>1, <4>2 DEF MessageInv, At
    <3>4. \A m \in Messages : m \in CountedMessages' <=> m \in CountedMessages \/ m = k
      BY <1>3, <2>4, <3>3 DEF Return, CountedMessages
    <3>5. Cardinality(Receipts') = Cardinality(Receipts) + 1
      BY <3>1, <3>2, OneMoreMessage DEF Receipts
    <3>6. Cardinality(CountedMessages') = Cardinality(CountedMessages) + 1
      <4>1. /\ CountedMessages \in SUBSET Messages /\ CountedMessages' \in SUBSET Messages
            /\ k \notin CountedMessages
        BY <3>3 DEF CountedMessages
      <4> HIDE DEF k
      <4> QED
        BY <3>3, <3>4, <4>1, OneMoreMessage
    <3> QED
      BY <2>1, <2>2, <3>5, <3>6 DEF CountInv
  <2> QED
    BY <2>3, <2>4
<1>4. ASSUME NEW t \in Threads, Claim(t) \/ Aside(t) \/ LoadCursor(t) \/ LoadLap(t) \/ MoveData(t) \/ Publish(t),
             Claim(t) => cursor[Side(t)] # cur[t], ~Return(t)
      PROVE  CountInv'
  <2>1. UNCHANGED <<cursor, done, msg_count>>
    BY <1>4 DEF Claim, Aside, LoadCursor, LoadLap, MoveData, Publish, Call, Try, TakeCredit, Announce,
                FutexWait, SpuriousWakeup, Leave, AddCredit, LoadWaiters, Wake
  <2>2. \A u \in Threads : AfterClaim(u)' <=> AfterClaim(u)
    BY <1>4 DEF Claim, Aside, LoadCursor, LoadLap, MoveData, Publish, Call, Try, TakeCredit, Announce,
                FutexWait, SpuriousWakeup, Leave, AddCredit, LoadWaiters, Wake, Asleep, AfterClaim
  <2> QED
    BY <1>1, <2>1, <2>2
<1>5. CASE Close \/ UNCHANGED vars
  <2>1. UNCHANGED <<cursor, done, msg_count>>
    BY <1>5 DEF Close, CloseSetClosed, CloseWakeAll, vars
  <2>2. \A u \in Threads : AfterClaim(u)' <=> AfterClaim(u)
    BY <1>5 DEF Close, CloseSetClosed, CloseWakeAll, Asleep, vars, AfterClaim
  <2> QED
    BY <1>1, <2>1, <2>2
<1> QED
  BY <1>2, <1>3, <1>4, <1>5 DEF Next, Step, Finished, Aside

-----------------------------------------------------------------------------
(* The credits are kept *)

\* The threads are as many as main.c starts.
LEMMA ThreadsFinite ==
  /\ IsFiniteSet(Threads)
  /\ IsFiniteSet(Writers) /\ Cardinality(Writers) = NWriters
  /\ IsFiniteSet(Readers) /\ Cardinality(Readers) = NReaders
<1>1. ASSUME NEW n \in Nat \ {0}, NEW x
      PROVE  IsFiniteSet({x} \X (0 .. n - 1)) /\ Cardinality({x} \X (0 .. n - 1)) = n
  <2>1. IsFiniteSet({x}) /\ Cardinality({x}) = 1
    BY FS_Singleton
  <2>2. IsFiniteSet(0 .. n - 1) /\ Cardinality(0 .. n - 1) = n
    BY FS_Interval
  <2>3. /\ IsFiniteSet({x} \X (0 .. n - 1))
        /\ Cardinality({x} \X (0 .. n - 1)) = Cardinality({x}) * Cardinality(0 .. n - 1)
    BY <2>1, <2>2, FS_Product
  <2> QED
    BY <2>1, <2>2, <2>3
<1>2. IsFiniteSet(Writers) /\ Cardinality(Writers) = NWriters
  BY <1>1, ThreadsAssumption DEF Writers
<1>3. IsFiniteSet(Readers) /\ Cardinality(Readers) = NReaders
  BY <1>1, ThreadsAssumption DEF Readers
<1> QED
  BY <1>2, <1>3, FS_Union DEF Threads

\* Sets of threads can be counted, and more threads count for more.
LEMMA ThreadSets ==
  ASSUME NEW S \in SUBSET Threads, NEW T \in SUBSET Threads
  PROVE  /\ IsFiniteSet(S) /\ Cardinality(S) \in Nat /\ Cardinality(T) \in Nat
         /\ S \subseteq T => Cardinality(S) <= Cardinality(T)
         /\ S = {} <=> Cardinality(S) = 0
<1>1. IsFiniteSet(S) /\ IsFiniteSet(T)
  BY ThreadsFinite, FS_Subset
<1> QED
  BY <1>1, FS_CardinalityType, FS_Subset, FS_EmptySet

\* When one thread moves, the count changes by its coming or going.
LEMMA OneThreadMoves ==
  ASSUME NEW S \in SUBSET Threads, NEW T \in SUBSET Threads, NEW t \in Threads,
         \A u \in Threads \ {t} : u \in T <=> u \in S
  PROVE  /\ (t \in T <=> t \in S) => Cardinality(T) = Cardinality(S)
         /\ t \in T /\ t \notin S => Cardinality(T) = Cardinality(S) + 1
         /\ t \notin T /\ t \in S => Cardinality(T) = Cardinality(S) - 1
<1> DEFINE U == S \ {t}
<1>1. IsFiniteSet(U) /\ Cardinality(U) \in Nat /\ t \notin U
  BY ThreadSets
<1>2. Cardinality(U \cup {t}) = Cardinality(U) + 1
  BY <1>1, FS_AddElement
<1>3. (t \in T <=> t \in S) => T = S
  OBVIOUS
<1>4. t \in T /\ t \notin S => T = U \cup {t} /\ S = U
  OBVIOUS
<1>5. t \notin T /\ t \in S => T = U /\ S = U \cup {t}
  OBVIOUS
<1> HIDE DEF U
<1>6. ASSUME t \in T, t \notin S PROVE Cardinality(T) = Cardinality(S) + 1
  <2>1. T = U \cup {t} /\ S = U
    BY <1>4, <1>6
  <2> QED
    BY <1>2, <2>1
<1>7. ASSUME t \notin T, t \in S PROVE Cardinality(T) = Cardinality(S) - 1
  <2>1. S = U \cup {t} /\ T = U
    BY <1>5, <1>7
  <2> QED
    BY <1>1, <1>2, <2>1
<1> QED
  BY <1>3, <1>6, <1>7

\* A step that announces nobody and sends nobody to sleep, and after which whoever
\* saw to a credit still does.
LEMMA CreditsKept ==
  ASSUME Shape, CreditInv,
         \A s \in Sides : /\ waiters'[s] = waiters[s] /\ ftx'[s] = ftx[s]
                          /\ Announced(s)' = Announced(s)
                          /\ \/ Asleep(s)' = {}
                             \/ /\ Asleep(s)' \subseteq Asleep(s)
                                /\ Wakers(s) \subseteq Wakers(s)' /\ Takers(s) \subseteq Takers(s)'
  PROVE  CreditInv'
<1> SUFFICES ASSUME NEW s \in Sides
             PROVE  /\ waiters'[s] = Cardinality(Announced(s)')
                    /\ Asleep(s)' # {} => ftx'[s] <= Cardinality(Wakers(s)') + Cardinality(Takers(s)')
  BY DEF CreditInv
<1>1. /\ Wakers(s) \in SUBSET Threads /\ Takers(s) \in SUBSET Threads
      /\ Wakers(s)' \in SUBSET Threads /\ Takers(s)' \in SUBSET Threads
  BY DEF Wakers, Takers
<1>2. /\ Wakers(s) \subseteq Wakers(s)' => Cardinality(Wakers(s)) <= Cardinality(Wakers(s)')
      /\ Takers(s) \subseteq Takers(s)' => Cardinality(Takers(s)) <= Cardinality(Takers(s)')
      /\ Cardinality(Wakers(s)) \in Nat /\ Cardinality(Takers(s)) \in Nat
      /\ Cardinality(Wakers(s)') \in Nat /\ Cardinality(Takers(s)') \in Nat
  BY <1>1, ThreadSets
<1>3. ftx[s] \in Int
  BY RunAssumption DEF Shape
<1> QED
  BY <1>2, <1>3 DEF CreditInv

\* Every credit that is given finds somebody to see to it while a thread sleeps.
LEMMA NextCredits ==
  ASSUME Shape, CreditInv, [Next]_vars PROVE CreditInv'
<1> USE ThreadSides DEF Goto, bufVars, creditVars, progVars
<1>0. /\ pc \in [Threads -> Labels] /\ waiters \in [Sides -> Int]
      /\ ftx \in [Sides -> 0 .. Modulus - 1] /\ Modulus \in Nat \ {0, 1}
      /\ \A s \in Sides : ftx[s] \in Nat
  BY RunAssumption DEF Shape
<1> USE <1>0
<1>1. ASSUME NEW s \in Sides
      PROVE  /\ Announced(s) \in SUBSET Threads /\ Announced(s)' \in SUBSET Threads
             /\ Wakers(s) \in SUBSET Threads /\ Wakers(s)' \in SUBSET Threads
             /\ Takers(s) \in SUBSET Threads /\ Takers(s)' \in SUBSET Threads
             /\ Cardinality(Announced(s)) \in Nat /\ Cardinality(Announced(s)') \in Nat
             /\ Cardinality(Wakers(s)) \in Nat /\ Cardinality(Wakers(s)') \in Nat
             /\ Cardinality(Takers(s)) \in Nat /\ Cardinality(Takers(s)') \in Nat
  <2>1. /\ Announced(s) \in SUBSET Threads /\ Announced(s)' \in SUBSET Threads
        /\ Wakers(s) \in SUBSET Threads /\ Wakers(s)' \in SUBSET Threads
        /\ Takers(s) \in SUBSET Threads /\ Takers(s)' \in SUBSET Threads
    BY DEF Announced, Wakers, Takers
  <2> QED
    BY <2>1, ThreadSets
<1>2. ASSUME NEW t \in Threads,
             \/ Call(t) \/ Try(t) \/ LoadCursor(t) \/ LoadLap(t) \/ Claim(t) \/ MoveData(t)
             \/ Publish(t) \/ Return(t) \/ SpuriousWakeup(t)
      PROVE  CreditInv'
  <2>1. UNCHANGED <<ftx, waiters>>
    BY <1>2 DEF Call, Try, LoadCursor, LoadLap, Claim, MoveData, Publish, Return, SpuriousWakeup
  <2>2. \A u \in Threads : \/ pc'[u] = pc[u]
                           \/ pc[u] = "asleep" /\ pc'[u] = "leave"
                           \/ /\ pc[u] \notin {"wait", "asleep", "leave", "credit", "waiters", "wake"}
                              /\ pc'[u] \notin {"wait", "asleep", "leave", "waiters", "wake"}
    BY <1>2 DEF Call, Try, LoadCursor, LoadLap, Claim, MoveData, Publish, Return, SpuriousWakeup
  <2>3. \A s \in Sides : /\ Announced(s)' = Announced(s) /\ Asleep(s)' \subseteq Asleep(s)
                         /\ Wakers(s) \subseteq Wakers(s)' /\ Takers(s) \subseteq Takers(s)'
    BY <2>2 DEF Announced, Asleep, Wakers, Takers
  <2> QED
    BY <2>1, <2>3, CreditsKept
<1>3. ASSUME NEW t \in Threads, \A u \in Threads \ {t} : pc'[u] = pc[u], NEW s \in Sides
      PROVE  /\ (Side(t) = s => (pc'[t] \in {"wait", "asleep", "leave"} <=> pc[t] \in {"wait", "asleep", "leave"}))
                   => Cardinality(Announced(s)') = Cardinality(Announced(s))
             /\ Side(t) = s /\ pc'[t] \in {"wait", "asleep", "leave"} /\ pc[t] \notin {"wait", "asleep", "leave"}
                   => Cardinality(Announced(s)') = Cardinality(Announced(s)) + 1
             /\ Side(t) = s /\ pc'[t] \notin {"wait", "asleep", "leave"} /\ pc[t] \in {"wait", "asleep", "leave"}
                   => Cardinality(Announced(s)') = Cardinality(Announced(s)) - 1
             /\ (Side(t) = Other(s) => (pc'[t] \in {"waiters", "wake"} <=> pc[t] \in {"waiters", "wake"}))
                   => Cardinality(Wakers(s)') = Cardinality(Wakers(s))
             /\ Side(t) = Other(s) /\ pc'[t] \in {"waiters", "wake"} /\ pc[t] \notin {"waiters", "wake"}
                   => Cardinality(Wakers(s)') = Cardinality(Wakers(s)) + 1
             /\ Side(t) = Other(s) /\ pc'[t] \notin {"waiters", "wake"} /\ pc[t] \in {"waiters", "wake"}
                   => Cardinality(Wakers(s)') = Cardinality(Wakers(s)) - 1
             /\ (Side(t) = s => (pc'[t] \in {"leave", "credit"} <=> pc[t] \in {"leave", "credit"}))
                   => Cardinality(Takers(s)') = Cardinality(Takers(s))
             /\ Side(t) = s /\ pc'[t] \in {"leave", "credit"} /\ pc[t] \notin {"leave", "credit"}
                   => Cardinality(Takers(s)') = Cardinality(Takers(s)) + 1
             /\ Side(t) = s /\ pc'[t] \notin {"leave", "credit"} /\ pc[t] \in {"leave", "credit"}
                   => Cardinality(Takers(s)') = Cardinality(Takers(s)) - 1
  <2>1. /\ (Side(t) = s => (pc'[t] \in {"wait", "asleep", "leave"} <=> pc[t] \in {"wait", "asleep", "leave"}))
              => Cardinality(Announced(s)') = Cardinality(Announced(s))
        /\ Side(t) = s /\ pc'[t] \in {"wait", "asleep", "leave"} /\ pc[t] \notin {"wait", "asleep", "leave"}
              => Cardinality(Announced(s)') = Cardinality(Announced(s)) + 1
        /\ Side(t) = s /\ pc'[t] \notin {"wait", "asleep", "leave"} /\ pc[t] \in {"wait", "asleep", "leave"}
              => Cardinality(Announced(s)') = Cardinality(Announced(s)) - 1
    <3>1. \A u \in Threads \ {t} : u \in Announced(s)' <=> u \in Announced(s)
      BY <1>3 DEF Announced
    <3>2. /\ t \in Announced(s) <=> Side(t) = s /\ pc[t] \in {"wait", "asleep", "leave"}
          /\ t \in Announced(s)' <=> Side(t) = s /\ pc'[t] \in {"wait", "asleep", "leave"}
      BY DEF Announced
    <3>3. Announced(s) \in SUBSET Threads /\ Announced(s)' \in SUBSET Threads
      BY <1>1
    <3> QED
      BY <3>1, <3>2, <3>3, OneThreadMoves
  <2>2. /\ (Side(t) = Other(s) => (pc'[t] \in {"waiters", "wake"} <=> pc[t] \in {"waiters", "wake"}))
              => Cardinality(Wakers(s)') = Cardinality(Wakers(s))
        /\ Side(t) = Other(s) /\ pc'[t] \in {"waiters", "wake"} /\ pc[t] \notin {"waiters", "wake"}
              => Cardinality(Wakers(s)') = Cardinality(Wakers(s)) + 1
        /\ Side(t) = Other(s) /\ pc'[t] \notin {"waiters", "wake"} /\ pc[t] \in {"waiters", "wake"}
              => Cardinality(Wakers(s)') = Cardinality(Wakers(s)) - 1
    <3>1. \A u \in Threads \ {t} : u \in Wakers(s)' <=> u \in Wakers(s)
      BY <1>3 DEF Wakers
    <3>2. /\ t \in Wakers(s) <=> Side(t) = Other(s) /\ pc[t] \in {"waiters", "wake"}
          /\ t \in Wakers(s)' <=> Side(t) = Other(s) /\ pc'[t] \in {"waiters", "wake"}
      BY DEF Wakers
    <3>3. Wakers(s) \in SUBSET Threads /\ Wakers(s)' \in SUBSET Threads
      BY <1>1
    <3> QED
      BY <3>1, <3>2, <3>3, OneThreadMoves
  <2>3. /\ (Side(t) = s => (pc'[t] \in {"leave", "credit"} <=> pc[t] \in {"leave", "credit"}))
              => Cardinality(Takers(s)') = Cardinality(Takers(s))
        /\ Side(t) = s /\ pc'[t] \in {"leave", "credit"} /\ pc[t] \notin {"leave", "credit"}
              => Cardinality(Takers(s)') = Cardinality(Takers(s)) + 1
        /\ Side(t) = s /\ pc'[t] \notin {"leave", "credit"} /\ pc[t] \in {"leave", "credit"}
              => Cardinality(Takers(s)') = Cardinality(Takers(s)) - 1
    <3>1. \A u \in Threads \ {t} : u \in Takers(s)' <=> u \in Takers(s)
      BY <1>3 DEF Takers
    <3>2. /\ t \in Takers(s) <=> Side(t) = s /\ pc[t] \in {"leave", "credit"}
          /\ t \in Takers(s)' <=> Side(t) = s /\ pc'[t] \in {"leave", "credit"}
      BY DEF Takers
    <3>3. Takers(s) \in SUBSET Threads /\ Takers(s)' \in SUBSET Threads
      BY <1>1
    <3> QED
      BY <3>1, <3>2, <3>3, OneThreadMoves
  <2> QED
    BY <2>1, <2>2, <2>3
<1>4. \A s \in Sides : /\ waiters[s] = Cardinality(Announced(s))
                       /\ Asleep(s) # {} => ftx[s] <= Cardinality(Wakers(s)) + Cardinality(Takers(s))
  BY DEF CreditInv
<1>5. ASSUME NEW t \in Threads, \A u \in Threads \ {t} : pc'[u] = pc[u],
             pc[t] # "asleep", pc'[t] # "asleep", NEW s \in Sides
      PROVE  Asleep(s)' = Asleep(s)
  BY <1>5 DEF Asleep
<1>6. ASSUME NEW t \in Threads, TakeCredit(t) PROVE CreditInv'
  <2>1. CASE ftx[Side(t)] > 0
    <3>1. /\ pc[t] = "credit" /\ pc' = [pc EXCEPT ![t] = "try"] /\ waiters' = waiters
          /\ ftx' = [ftx EXCEPT ![Side(t)] = ftx[Side(t)] - 1]
      BY <1>6, <2>1 DEF TakeCredit
    <3>2. ASSUME NEW s \in Sides
          PROVE  /\ Cardinality(Announced(s)') = Cardinality(Announced(s))
                 /\ Cardinality(Wakers(s)') = Cardinality(Wakers(s))
                 /\ Cardinality(Takers(s)') = Cardinality(Takers(s)) - (IF s = Side(t) THEN 1 ELSE 0)
                 /\ Asleep(s)' = Asleep(s)
                 /\ ftx'[s] = ftx[s] - (IF s = Side(t) THEN 1 ELSE 0)
      <4>1. pc'[t] = "try" /\ \A u \in Threads \ {t} : pc'[u] = pc[u]
        BY <3>1
      <4>2. Asleep(s)' = Asleep(s)
        BY <1>5, <3>1, <4>1
      <4>3. Cardinality(Announced(s)') = Cardinality(Announced(s))
        BY <1>3, <3>1, <4>1
      <4>4. Cardinality(Wakers(s)') = Cardinality(Wakers(s))
        BY <1>3, <3>1, <4>1
      <4>5. s = Side(t) => Cardinality(Takers(s)') = Cardinality(Takers(s)) - 1
        BY <1>3, <3>1, <4>1
      <4>6. s # Side(t) => Cardinality(Takers(s)') = Cardinality(Takers(s))
        BY <1>3, <3>1, <4>1
      <4>8. ftx'[s] = ftx[s] - (IF s = Side(t) THEN 1 ELSE 0)
        BY <3>1
      <4> QED
        BY <1>1, <4>2, <4>3, <4>4, <4>5, <4>6, <4>8
    <3> QED
      <4> SUFFICES ASSUME NEW s \in Sides
                   PROVE  /\ waiters'[s] = Cardinality(Announced(s)')
                          /\ Asleep(s)' # {} => ftx'[s] <= Cardinality(Wakers(s)') + Cardinality(Takers(s)')
        BY DEF CreditInv
      <4>1. ftx[s] \in Int /\ waiters'[s] = waiters[s]
        BY <3>1
      <4>2. CASE s = Side(t)
        <5>1. /\ Cardinality(Takers(s)') = Cardinality(Takers(s)) - 1
              /\ ftx'[s] = ftx[s] - 1
          BY <3>2, <4>2
        <5>2. /\ Cardinality(Announced(s)') = Cardinality(Announced(s))
              /\ Cardinality(Wakers(s)') = Cardinality(Wakers(s))
              /\ Asleep(s)' = Asleep(s)
          BY <3>2
        <5>3. /\ waiters[s] = Cardinality(Announced(s))
              /\ Asleep(s) # {} => ftx[s] <= Cardinality(Wakers(s)) + Cardinality(Takers(s))
          BY <1>4
        <5>4. Cardinality(Wakers(s)) \in Nat /\ Cardinality(Takers(s)) \in Nat
          BY <1>1
        <5> QED
          BY <4>1, <5>1, <5>2, <5>3, <5>4
      <4>3. CASE s # Side(t)
        BY <1>1, <1>4, <3>2, <4>1, <4>3
      <4> QED
        BY <4>2, <4>3
  <2>2. CASE ~(ftx[Side(t)] > 0)
    <3>1. /\ pc[t] = "credit" /\ pc' = [pc EXCEPT ![t] = "announce"] /\ UNCHANGED <<ftx, waiters>>
          /\ ftx[Side(t)] = 0
      BY <1>6, <2>2 DEF TakeCredit
    <3>2. ASSUME NEW s \in Sides
          PROVE  /\ Cardinality(Announced(s)') = Cardinality(Announced(s))
                 /\ Cardinality(Wakers(s)') = Cardinality(Wakers(s))
                 /\ Cardinality(Takers(s)') = Cardinality(Takers(s)) - (IF s = Side(t) THEN 1 ELSE 0)
                 /\ Asleep(s)' = Asleep(s)
      <4>1. pc'[t] = "announce" /\ \A u \in Threads \ {t} : pc'[u] = pc[u]
        BY <3>1
      <4>2. Asleep(s)' = Asleep(s)
        BY <1>5, <3>1, <4>1
      <4>3. Cardinality(Announced(s)') = Cardinality(Announced(s))
        BY <1>3, <3>1, <4>1
      <4>4. Cardinality(Wakers(s)') = Cardinality(Wakers(s))
        BY <1>3, <3>1, <4>1
      <4>5. s = Side(t) => Cardinality(Takers(s)') = Cardinality(Takers(s)) - 1
        BY <1>3, <3>1, <4>1
      <4>6. s # Side(t) => Cardinality(Takers(s)') = Cardinality(Takers(s))
        BY <1>3, <3>1, <4>1
      <4> QED
        BY <1>1, <4>2, <4>3, <4>4, <4>5, <4>6
    <3> QED
      <4> SUFFICES ASSUME NEW s \in Sides
                   PROVE  /\ waiters'[s] = Cardinality(Announced(s)')
                          /\ Asleep(s)' # {} => ftx'[s] <= Cardinality(Wakers(s)') + Cardinality(Takers(s)')
        BY DEF CreditInv
      <4>1. s = Side(t) => ftx'[s] = 0
        BY <3>1
      <4> QED
        BY <1>1, <1>4, <3>1, <3>2, <4>1
  <2> QED
    BY <2>1, <2>2
<1>7. ASSUME NEW t \in Threads, Announce(t) PROVE CreditInv'
  <2>1. /\ pc[t] = "announce" /\ pc' = [pc EXCEPT ![t] = "wait"] /\ ftx' = ftx
        /\ waiters' = [waiters EXCEPT ![Side(t)] = waiters[Side(t)] + 1]
    BY <1>7 DEF Announce
  <2>2. ASSUME NEW s \in Sides
        PROVE  /\ Cardinality(Announced(s)') = Cardinality(Announced(s)) + (IF s = Side(t) THEN 1 ELSE 0)
               /\ Cardinality(Wakers(s)') = Cardinality(Wakers(s))
               /\ Cardinality(Takers(s)') = Cardinality(Takers(s))
               /\ Asleep(s)' = Asleep(s)
               /\ waiters'[s] = waiters[s] + (IF s = Side(t) THEN 1 ELSE 0)
    <3>1. pc'[t] = "wait" /\ \A u \in Threads \ {t} : pc'[u] = pc[u]
      BY <2>1
    <3>2. Asleep(s)' = Asleep(s)
      BY <1>5, <2>1, <3>1
    <3>3. waiters'[s] = waiters[s] + (IF s = Side(t) THEN 1 ELSE 0)
      BY <2>1
    <3>4. s = Side(t) => Cardinality(Announced(s)') = Cardinality(Announced(s)) + 1
      BY <1>3, <2>1, <3>1
    <3>5. s # Side(t) => Cardinality(Announced(s)') = Cardinality(Announced(s))
      BY <1>3, <2>1, <3>1
    <3>6. Cardinality(Wakers(s)') = Cardinality(Wakers(s))
      BY <1>3, <2>1, <3>1
    <3>7. Cardinality(Takers(s)') = Cardinality(Takers(s))
      BY <1>3, <2>1, <3>1
    <3> QED
      BY <1>1, <3>2, <3>3, <3>4, <3>5, <3>6, <3>7
  <2> QED
    BY <1>1, <1>4, <2>1, <2>2 DEF CreditInv
<1>8. ASSUME NEW t \in Threads, FutexWait(t) PROVE CreditInv'
  <2> DEFINE l == IF ftx[Side(t)] = 0 THEN "asleep" ELSE "leave"
  <2>1. /\ pc[t] = "wait" /\ pc' = [pc EXCEPT ![t] = l] /\ UNCHANGED <<ftx, waiters>> /\ l \in Labels
        /\ l \in {"asleep", "leave"}
    BY <1>8 DEF FutexWait, Labels
  <2>2. l = "asleep" => ftx[Side(t)] = 0
    OBVIOUS
  <2> HIDE DEF l
  <2>3. ASSUME NEW s \in Sides
        PROVE  /\ Cardinality(Announced(s)') = Cardinality(Announced(s))
               /\ Cardinality(Wakers(s)') = Cardinality(Wakers(s))
               /\ Cardinality(Takers(s)') >= Cardinality(Takers(s))
               /\ Asleep(s)' = Asleep(s) \/ (s = Side(t) /\ l = "asleep")
    <3>1. Asleep(s)' = Asleep(s) \/ (s = Side(t) /\ l = "asleep")
      BY <2>1 DEF Asleep
    <3>2. pc'[t] = l /\ \A u \in Threads \ {t} : pc'[u] = pc[u]
      BY <2>1
    <3>3. Cardinality(Announced(s)') = Cardinality(Announced(s))
      BY <1>3, <2>1, <3>2
    <3>4. Cardinality(Wakers(s)') = Cardinality(Wakers(s))
      BY <1>3, <2>1, <3>2
    <3>5. Cardinality(Takers(s)') = Cardinality(Takers(s)) \/ Cardinality(Takers(s)') = Cardinality(Takers(s)) + 1
      BY <1>3, <2>1, <3>2
    <3> QED
      BY <1>1, <3>1, <3>3, <3>4, <3>5
  <2> QED
    BY <1>1, <1>4, <2>1, <2>2, <2>3 DEF CreditInv
<1>9. ASSUME NEW t \in Threads, Leave(t) PROVE CreditInv'
  <2>1. /\ pc[t] = "leave" /\ pc' = [pc EXCEPT ![t] = "credit"] /\ ftx' = ftx
        /\ waiters' = [waiters EXCEPT ![Side(t)] = waiters[Side(t)] - 1]
    BY <1>9 DEF Leave
  <2>2. ASSUME NEW s \in Sides
        PROVE  /\ Cardinality(Announced(s)') = Cardinality(Announced(s)) - (IF s = Side(t) THEN 1 ELSE 0)
               /\ Cardinality(Wakers(s)') = Cardinality(Wakers(s))
               /\ Cardinality(Takers(s)') = Cardinality(Takers(s))
               /\ Asleep(s)' = Asleep(s)
               /\ waiters'[s] = waiters[s] - (IF s = Side(t) THEN 1 ELSE 0)
    <3>1. pc'[t] = "credit" /\ \A u \in Threads \ {t} : pc'[u] = pc[u]
      BY <2>1
    <3>2. Asleep(s)' = Asleep(s)
      BY <1>5, <2>1, <3>1
    <3>3. waiters'[s] = waiters[s] - (IF s = Side(t) THEN 1 ELSE 0)
      BY <2>1
    <3>4. s = Side(t) => Cardinality(Announced(s)') = Cardinality(Announced(s)) - 1
      BY <1>3, <2>1, <3>1
    <3>5. s # Side(t) => Cardinality(Announced(s)') = Cardinality(Announced(s))
      BY <1>3, <2>1, <3>1
    <3>6. Cardinality(Wakers(s)') = Cardinality(Wakers(s))
      BY <1>3, <2>1, <3>1
    <3>7. Cardinality(Takers(s)') = Cardinality(Takers(s))
      BY <1>3, <2>1, <3>1
    <3> QED
      BY <1>1, <3>2, <3>3, <3>4, <3>5, <3>6, <3>7
  <2> QED
    BY <1>1, <1>4, <2>1, <2>2 DEF CreditInv
<1>10. ASSUME NEW t \in Threads, AddCredit(t) PROVE CreditInv'
  <2> DEFINE o == Other(Side(t))
  <2>1. /\ pc[t] = "add" /\ pc' = [pc EXCEPT ![t] = "waiters"] /\ waiters' = waiters
        /\ ftx' = [ftx EXCEPT ![o] = (ftx[o] + 1) % Modulus] /\ o \in Sides
    BY <1>10 DEF AddCredit
  <2>2. (ftx[o] + 1) % Modulus \in Nat /\ (ftx[o] + 1) % Modulus <= ftx[o] + 1
    <3>1. ftx[o] \in Nat
      BY <2>1
    <3> HIDE DEF o
    <3>2. \A i \in Nat : (i + 1) % Modulus \in Nat /\ (i + 1) % Modulus <= i + 1
      <4> SUFFICES ASSUME NEW i \in Nat PROVE (i + 1) % Modulus \in Nat /\ (i + 1) % Modulus <= i + 1
        OBVIOUS
      <4> DEFINE q == (i + 1) \div Modulus
                 r == (i + 1) % Modulus
      <4>1. q \in Nat /\ r \in Nat /\ i + 1 = Modulus * q + r
        BY Division, i + 1 \in Nat
      <4>2. Modulus * q \in Nat
        BY <4>1
      <4> HIDE DEF q, r
      <4> DEFINE m == Modulus * q
      <4> HIDE DEF m
      <4>3. m \in Nat /\ i + 1 = m + r
        BY <4>1, <4>2 DEF m
      <4>4. r <= i + 1
        BY <4>1, <4>3
      <4> QED
        BY <4>1, <4>4 DEF r
    <3> QED
      BY <3>1, <3>2
  <2>3. ASSUME NEW s \in Sides
        PROVE  /\ Cardinality(Announced(s)') = Cardinality(Announced(s))
               /\ Cardinality(Wakers(s)') = Cardinality(Wakers(s)) + (IF s = o THEN 1 ELSE 0)
               /\ Cardinality(Takers(s)') = Cardinality(Takers(s))
               /\ Asleep(s)' = Asleep(s)
               /\ ftx'[s] <= ftx[s] + (IF s = o THEN 1 ELSE 0)
               /\ ftx'[s] \in Nat
    <3>1. pc'[t] = "waiters" /\ \A u \in Threads \ {t} : pc'[u] = pc[u]
      BY <2>1
    <3>2. s = o <=> Side(t) = Other(s)
      OBVIOUS
    <3>3. ftx'[s] \in Nat /\ ftx'[s] <= ftx[s] + (IF s = o THEN 1 ELSE 0)
      BY <2>1, <2>2
    <3>4. Asleep(s)' = Asleep(s)
      BY <1>5, <2>1, <3>1
    <3>5. Cardinality(Announced(s)') = Cardinality(Announced(s))
      BY <1>3, <2>1, <3>1
    <3>6. s = o => Cardinality(Wakers(s)') = Cardinality(Wakers(s)) + 1
      BY <1>3, <2>1, <3>1, <3>2
    <3>7. s # o => Cardinality(Wakers(s)') = Cardinality(Wakers(s))
      BY <1>3, <2>1, <3>1, <3>2
    <3>8. Cardinality(Takers(s)') = Cardinality(Takers(s))
      BY <1>3, <2>1, <3>1
    <3> HIDE DEF o
    <3> QED
      BY <1>1, <3>3, <3>4, <3>5, <3>6, <3>7, <3>8
  <2> HIDE DEF o
  <2>4. ASSUME NEW s \in Sides, Asleep(s)' # {}
        PROVE  ftx'[s] <= Cardinality(Wakers(s)') + Cardinality(Takers(s)')
    <3>1. ftx[s] <= Cardinality(Wakers(s)) + Cardinality(Takers(s)) /\ ftx[s] \in Nat
      BY <1>4, <2>3, <2>4
    <3>2. /\ Cardinality(Wakers(s)) \in Nat /\ Cardinality(Takers(s)) \in Nat
          /\ Cardinality(Wakers(s)') \in Nat /\ Cardinality(Takers(s)') \in Nat
      BY <1>1
    <3>3. CASE s = o
      BY <2>3, <3>1, <3>2, <3>3
    <3>4. CASE s # o
      BY <2>3, <3>1, <3>2, <3>4
    <3> QED
      BY <3>3, <3>4
  <2> QED
    BY <1>4, <2>1, <2>3, <2>4 DEF CreditInv
<1>11. ASSUME NEW t \in Threads, LoadWaiters(t) PROVE CreditInv'
  <2> DEFINE o == Other(Side(t))
             l == IF waiters[o] > 0 THEN "wake" ELSE "return"
  <2>1. /\ pc[t] = "waiters" /\ pc' = [pc EXCEPT ![t] = l] /\ UNCHANGED <<ftx, waiters>>
        /\ l \in Labels /\ l \in {"wake", "return"}
    BY <1>11 DEF LoadWaiters, Labels
  <2>2. l = "return" => Asleep(o) = {}
    <3>1. waiters[o] = Cardinality(Announced(o)) /\ Asleep(o) \subseteq Announced(o)
          /\ Announced(o) \in SUBSET Threads
      BY <1>4 DEF Asleep, Announced
    <3>2. Cardinality(Announced(o)) \in Nat /\ (Announced(o) = {} <=> Cardinality(Announced(o)) = 0)
      BY <3>1, ThreadSets
    <3> QED
      BY <3>1, <3>2
  <2>3. o \in Sides
    OBVIOUS
  <2> HIDE DEF l
  <2>4. ASSUME NEW s \in Sides
        PROVE  /\ Cardinality(Announced(s)') = Cardinality(Announced(s))
               /\ Cardinality(Wakers(s)') = Cardinality(Wakers(s)) \/ (s = o /\ l = "return")
               /\ Cardinality(Takers(s)') = Cardinality(Takers(s))
               /\ Asleep(s)' = Asleep(s)
    <3>1. s = o <=> Side(t) = Other(s)
      OBVIOUS
    <3>2. pc'[t] = l /\ \A u \in Threads \ {t} : pc'[u] = pc[u]
      BY <2>1
    <3>3. Asleep(s)' = Asleep(s)
      BY <1>5, <2>1, <3>2
    <3>4. Cardinality(Announced(s)') = Cardinality(Announced(s))
      BY <1>3, <2>1, <3>2
    <3>5. Cardinality(Wakers(s)') = Cardinality(Wakers(s)) \/ (s = o /\ l = "return")
      BY <1>3, <2>1, <3>1, <3>2
    <3>6. Cardinality(Takers(s)') = Cardinality(Takers(s))
      BY <1>3, <2>1, <3>2
    <3> QED
      BY <3>3, <3>4, <3>5, <3>6
  <2> QED
    BY <1>1, <1>4, <2>1, <2>2, <2>4 DEF CreditInv
<1>12. ASSUME NEW t \in Threads, Wake(t) PROVE CreditInv'
  <2> DEFINE o == Other(Side(t))
  <2>1. pc[t] = "wake" /\ UNCHANGED <<ftx, waiters>> /\ o \in Sides
    BY <1>12 DEF Wake
  <2>2. CASE Asleep(o) = {} /\ pc' = [pc EXCEPT ![t] = "return"]
    <3>1. pc'[t] = "return" /\ \A u \in Threads \ {t} : pc'[u] = pc[u]
      BY <2>2
    <3>2. ASSUME NEW s \in Sides
          PROVE  /\ Cardinality(Announced(s)') = Cardinality(Announced(s))
                 /\ Cardinality(Wakers(s)') = Cardinality(Wakers(s)) \/ s = o
                 /\ Cardinality(Takers(s)') = Cardinality(Takers(s))
                 /\ Asleep(s)' = Asleep(s)
      <4>1. s = o <=> Side(t) = Other(s)
        OBVIOUS
      <4>2. Asleep(s)' = Asleep(s)
        BY <1>5, <2>1, <2>2, <3>1
      <4>3. Cardinality(Announced(s)') = Cardinality(Announced(s))
        BY <1>3, <2>1, <3>1
      <4>4. Cardinality(Wakers(s)') = Cardinality(Wakers(s)) \/ s = o
        BY <1>3, <2>1, <3>1, <4>1
      <4>5. Cardinality(Takers(s)') = Cardinality(Takers(s))
        BY <1>3, <2>1, <3>1
      <4> QED
        BY <4>2, <4>3, <4>4, <4>5
    <3> QED
      BY <1>1, <1>4, <2>1, <2>2, <3>2 DEF CreditInv
  <2>3. ASSUME NEW u \in Asleep(o), pc' = [pc EXCEPT ![t] = "return", ![u] = "leave"]
        PROVE  CreditInv'
    <3>1. u \in Threads /\ u # t /\ Side(u) = o /\ pc[u] = "asleep" /\ Side(t) # o /\ Side(t) = Other(o)
      BY <2>1 DEF Asleep
    <3>2. pc'[t] = "return" /\ pc'[u] = "leave" /\ \A v \in Threads \ {t, u} : pc'[v] = pc[v]
      BY <2>3, <3>1
    <3>3. ASSUME NEW s \in Sides
          PROVE  /\ Announced(s)' = Announced(s) /\ Asleep(s)' \subseteq Asleep(s)
                 /\ s # o => Wakers(s)' = Wakers(s) /\ Takers(s)' = Takers(s)
      BY <2>1, <3>1, <3>2 DEF Announced, Asleep, Wakers, Takers
    <3>4. Cardinality(Wakers(o)') = Cardinality(Wakers(o)) - 1
      <4>1. \A v \in Threads \ {t} : v \in Wakers(o)' <=> v \in Wakers(o)
        BY <2>1, <3>1, <3>2 DEF Wakers
      <4>2. t \in Wakers(o) /\ t \notin Wakers(o)'
        BY <2>1, <3>1, <3>2 DEF Wakers
      <4> QED
        BY <1>1, <2>1, <4>1, <4>2, OneThreadMoves
    <3>5. Cardinality(Takers(o)') = Cardinality(Takers(o)) + 1
      <4>1. \A v \in Threads \ {u} : v \in Takers(o)' <=> v \in Takers(o)
        BY <2>1, <3>1, <3>2 DEF Takers
      <4>2. u \notin Takers(o) /\ u \in Takers(o)'
        BY <2>1, <3>1, <3>2 DEF Takers
      <4> QED
        BY <1>1, <2>1, <3>1, <4>1, <4>2, OneThreadMoves
    <3>6. ASSUME NEW s \in Sides
          PROVE  Cardinality(Wakers(s)') + Cardinality(Takers(s)') = Cardinality(Wakers(s)) + Cardinality(Takers(s))
      <4>1. /\ Cardinality(Wakers(s)) \in Nat /\ Cardinality(Takers(s)) \in Nat
            /\ Cardinality(Wakers(s)') \in Nat /\ Cardinality(Takers(s)') \in Nat
        BY <1>1
      <4>2. CASE s = o
        <5> HIDE DEF o
        <5> QED
          BY <3>4, <3>5, <4>1, <4>2
      <4>3. CASE s # o
        BY <3>3, <4>3
      <4> QED
        BY <4>2, <4>3
    <3> QED
      BY <1>4, <2>1, <3>3, <3>6 DEF CreditInv
  <2> QED
    BY <1>12, <2>2, <2>3 DEF Wake
<1>13. CASE Close
  <2>1. CASE CloseSetClosed
    <3>1. \A s \in Sides : /\ waiters'[s] = waiters[s] /\ ftx'[s] = ftx[s] /\ Announced(s)' = Announced(s)
                           /\ Asleep(s)' = Asleep(s) /\ Wakers(s)' = Wakers(s) /\ Takers(s)' = Takers(s)
      BY <2>1 DEF CloseSetClosed, Announced, Asleep, Wakers, Takers
    <3> QED
      BY <3>1, CreditsKept
  <2>2. ASSUME NEW k \in Sides, CloseWakeAll(k, IF k = "recv" THEN "send" ELSE "done") PROVE CreditInv'
    <3>1. /\ UNCHANGED <<ftx, waiters>>
          /\ pc' = [t \in Threads |-> IF t \in Asleep(k) THEN "leave" ELSE pc[t]]
      BY <2>2 DEF CloseWakeAll
    <3>2. \A s \in Sides : /\ Announced(s)' = Announced(s) /\ Asleep(s)' \subseteq Asleep(s)
                           /\ Wakers(s) \subseteq Wakers(s)' /\ Takers(s) \subseteq Takers(s)'
      BY <3>1 DEF Announced, Asleep, Wakers, Takers
    <3> QED
      BY <3>1, <3>2, CreditsKept
  <2> QED
    BY <1>13, <2>1, <2>2 DEF Close, Sides
<1>14. CASE UNCHANGED vars
  <2>1. \A s \in Sides : /\ waiters'[s] = waiters[s] /\ ftx'[s] = ftx[s] /\ Announced(s)' = Announced(s)
                         /\ Asleep(s)' = Asleep(s) /\ Wakers(s)' = Wakers(s) /\ Takers(s)' = Takers(s)
    BY <1>14 DEF vars, Announced, Asleep, Wakers, Takers
  <2> QED
    BY <2>1, CreditsKept
<1> QED
  BY <1>2, <1>6, <1>7, <1>8, <1>9, <1>10, <1>11, <1>12, <1>13, <1>14 DEF Next, Step, Finished

-----------------------------------------------------------------------------
(* The invariant *)

\* Cursors only grow.
LEMMA NextCopies ==
  ASSUME Shape, CopyInv, [Next]_vars PROVE CopyInv'
<1> USE ThreadSides DEF Goto, bufVars, creditVars, progVars
<1>0. /\ cur \in [Threads -> [lap : Nat, pos : Slots]] /\ cursor \in [Sides -> [lap : Nat, pos : Slots]]
  BY DEF Shape
<1>1. CASE UNCHANGED <<cur, cursor>>
  BY <1>1 DEF CopyInv
<1>2. ASSUME NEW t \in Threads, LoadCursor(t) PROVE CopyInv'
  <2>1. cursor' = cursor /\ cur' = [cur EXCEPT ![t] = cursor[Side(t)]]
    BY <1>2 DEF LoadCursor
  <2> QED
    BY <1>0, <2>1 DEF CopyInv
<1>3. ASSUME NEW t \in Threads, Claim(t), cursor[Side(t)] = cur[t] PROVE CopyInv'
  <2>1. cur' = cur /\ cursor' = [cursor EXCEPT ![Side(t)] = Advance(cursor[Side(t)])]
    BY <1>3 DEF Claim
  <2>2. ASSUME NEW s \in Sides PROVE cursor'[s].lap \in Nat /\ cursor[s].lap <= cursor'[s].lap
    <3>1. Advance(cursor[s]).lap \in Nat /\ Behind(cursor[s], Advance(cursor[s])) /\ cursor[s].lap \in Nat
      BY <1>0, AdvanceNext
    <3> QED
      BY <1>0, <2>1, <3>1 DEF Behind
  <2>3. \A u \in Threads : cur[u].lap \in Nat /\ cursor[Side(u)].lap \in Nat
    BY <1>0
  <2> QED
    BY <2>1, <2>2, <2>3 DEF CopyInv
<1>4. ASSUME NEW t \in Threads, Claim(t), cursor[Side(t)] # cur[t] PROVE UNCHANGED <<cur, cursor>>
  BY <1>4 DEF Claim
<1>5. ASSUME NEW t \in Threads, Aside(t) \/ LoadLap(t) \/ MoveData(t) \/ Publish(t)
      PROVE  UNCHANGED <<cur, cursor>>
  BY <1>5 DEF Aside, LoadLap, MoveData, Publish, Call, Try, TakeCredit, Announce, FutexWait,
              SpuriousWakeup, Leave, AddCredit, LoadWaiters, Wake, Return
<1>6. ASSUME Close \/ UNCHANGED vars PROVE UNCHANGED <<cur, cursor>>
  BY <1>6 DEF Close, CloseSetClosed, CloseWakeAll, vars
<1> QED
  BY <1>1, <1>2, <1>3, <1>4, <1>5, <1>6 DEF Next, Step, Finished, Aside

\* The main thread closes the channel when all threads have returned.
LEMMA NextClose ==
  ASSUME Shape, CloseInv, [Next]_vars PROVE CloseInv'
<1> SUFFICES ASSUME ~EarlyClose PROVE CloseInv'
  BY DEF CloseInv
<1> USE DEF Goto, bufVars, creditVars, progVars
<1>0. /\ pc \in [Threads -> Labels] /\ done \in [Threads -> Nat]
      /\ \A t \in Threads : pc[t] # "end" /\ (closed => pc[t] = "idle" /\ done[t] = Batch(t))
  BY DEF Shape, CloseInv
<1>1. ASSUME NEW t \in Threads, Step(t) \/ SpuriousWakeup(t) PROVE CloseInv'
  <2>1. closed' = closed
    BY <1>1 DEF Step, Call, Try, LoadCursor, LoadLap, Claim, MoveData, Publish, TakeCredit, Announce,
                FutexWait, SpuriousWakeup, Leave, AddCredit, LoadWaiters, Wake, Return
  <2>2. ~closed
    BY <1>0, <1>1, BatchBounds DEF Step, Call, Try, LoadCursor, LoadLap, Claim, MoveData, Publish, TakeCredit,
                Announce, FutexWait, SpuriousWakeup, Leave, AddCredit, LoadWaiters, Wake, Return
  <2>3. ASSUME NEW u \in Threads PROVE pc'[u] # "end"
    <3>1. pc'[u] = pc[u] \/ pc'[u] \in Labels \ {"end"}
      BY <1>0, <1>1, <2>2 DEF Step, Call, Try, LoadCursor, LoadLap, Claim, MoveData, Publish, TakeCredit,
                Announce, FutexWait, SpuriousWakeup, Leave, AddCredit, LoadWaiters, Wake, Return, Labels, Asleep
    <3> QED
      BY <1>0, <3>1
  <2> QED
    BY <2>1, <2>2, <2>3 DEF CloseInv
<1>2. CASE CloseSetClosed
  BY <1>0, <1>2 DEF CloseSetClosed, Joined, CloseInv
<1>3. ASSUME NEW s, NEW n, CloseWakeAll(s, n) PROVE CloseInv'
  <2>1. \A t \in Threads : pc'[t] = pc[t] \/ (pc[t] = "asleep" /\ pc'[t] = "leave")
    BY <1>0, <1>3 DEF CloseWakeAll, Asleep
  <2>2. closed' = closed /\ done' = done
    BY <1>3 DEF CloseWakeAll
  <2> QED
    BY <1>0, <2>1, <2>2 DEF CloseInv
<1>4. CASE UNCHANGED vars
  BY <1>0, <1>4 DEF vars, CloseInv
<1> QED
  BY <1>1, <1>2, <1>3, <1>4 DEF Next, Close, Finished

\* The invariant holds of the cleared channel before any thread runs.
THEOREM InitIInv == Init => IInv
<1> SUFFICES ASSUME Init PROVE IInv
  OBVIOUS
<1> USE ThreadSides DEF Init
<1>0. 0 \in Slots /\ Cap \in Nat /\ Slots \subseteq Nat
  BY RunAssumption DEF Slots
<1>1. Shape
  <2>1. /\ ring \in [Slots -> [lap : Nat, data : Messages \cup {0}]]
        /\ cursor \in [Sides -> [lap : Nat, pos : Slots]]
        /\ cur \in [Threads -> [lap : Nat, pos : Slots]]
    BY <1>0
  <2>2. ftx \in [Sides -> 0 .. Modulus - 1] /\ waiters \in [Sides -> Int]
    BY RunAssumption
  <2>3. pc \in [Threads -> Labels] /\ done \in [Threads -> Nat] /\ msg_count \in [Messages -> Nat]
    BY DEF Labels
  <2>4. cell \in [Threads -> Messages \cup {NoMsg}]
    OBVIOUS
  <2> QED
    BY <2>1, <2>2, <2>3, <2>4 DEF Shape
<1>2. WithinBatch
  BY BatchBounds DEF WithinBatch, InCall
<1>3. \A p \in Slots : /\ OwnerOf(p) = {} /\ Free(p) /\ ~Live(p)
                       /\ NextLap("send", p) = 0 /\ NextLap("recv", p) = 1
  <2>1. ASSUME NEW p \in Slots PROVE NextLap("send", p) = 0 /\ NextLap("recv", p) = 1
    BY <1>0 DEF NextLap, Sides
  <2>2. \A p \in Slots : OwnerOf(p) = {}
    BY DEF OwnerOf, Owns
  <2> QED
    BY <2>1, <2>2 DEF Free, Live, Sides, Other
<1>4. RingIInv
  BY <1>1, <1>2, <1>3 DEF RingIInv, SlotInv, ClaimFresh
<1>5. MessageInv
  <2>1. \A m \in Messages : ~Out(m)
    <3>1. \A w \in Writers : done[w] = 0 /\ From(w) \in Nat /\ ~Moved(w)
      BY BatchBounds DEF Moved, Threads
    <3> QED
      BY <3>1, ThreadsAssumption DEF Out, Messages
  <2>2. \A x \in Places, m \in Messages : ~At(x, m)
    BY <1>3 DEF At, Places, Moved, Counted, Readers, Threads
  <2> QED
    BY <1>3, <2>1, <2>2 DEF MessageInv, InCall, Moved, Readers, Threads, Writers
<1>6. CountInv
  <2>1. Claims = {} /\ Receipts = {} /\ CountedMessages = {}
    <3>1. \A t \in Threads : done[t] = 0 /\ ~AfterClaim(t) /\ From(t) \in Nat
      BY BatchBounds DEF AfterClaim
    <3> QED
      BY <3>1, ThreadsAssumption DEF Claims, Receipts, CountedMessages, Sent, Messages, Threads
  <2>2. Cardinality({}) = 0
    BY FS_EmptySet
  <2>3. Ticket(cursor["send"]) = 0
    <3>1. cursor["send"] = [lap |-> 0, pos |-> 0]
      BY DEF Sides
    <3>2. 0 \div 2 = 0 /\ 0 * Cap = 0
      BY <1>0
    <3> QED
      BY <3>1, <3>2 DEF Ticket
  <2> QED
    BY <2>1, <2>2, <2>3 DEF CountInv, Sides
<1>7. CreditInv
  <2>1. \A s \in Sides : Announced(s) = {} /\ Asleep(s) = {}
    BY DEF Announced, Asleep
  <2>2. Cardinality({}) = 0
    BY FS_EmptySet
  <2> QED
    BY <2>1, <2>2 DEF CreditInv
<1>8. CopyInv /\ CloseInv
  BY DEF CopyInv, CloseInv
<1> QED
  BY <1>4, <1>5, <1>6, <1>7, <1>8 DEF IInv

\* Every step keeps the invariant.
THEOREM NextIInv == IInv /\ [Next]_vars => IInv'
<1> SUFFICES ASSUME IInv, [Next]_vars PROVE IInv'
  OBVIOUS
<1>1. RingIInv /\ MessageInv /\ CountInv /\ CreditInv /\ CopyInv /\ CloseInv /\ Shape /\ WithinBatch
  BY DEF IInv, RingIInv
<1>2. RingIInv'
  BY <1>1, NextShape, NextRing DEF RingIInv
<1>3. MessageInv'
  BY <1>1, NextMessages
<1>4. CountInv' /\ CreditInv' /\ CopyInv' /\ CloseInv'
  BY <1>1, NextCounts, NextCredits, NextCopies, NextClose
<1> QED
  BY <1>2, <1>3, <1>4 DEF IInv

\* So it holds at every moment of a run, whenever chan_close comes.
THEOREM SpecIInv == Spec => []IInv
<1>1. Init => IInv
  BY InitIInv
<1>2. IInv /\ [Next]_vars => IInv'
  BY NextIInv
<1> QED
  BY <1>1, <1>2, PTL DEF Spec

-----------------------------------------------------------------------------
(* The properties *)

\* Tickets are as many as messages have been claimed, so laps stay below 2^32 if
\* twice the messages do.
LEMMA InvTypeOK == IInv => TypeOK
<1> SUFFICES ASSUME IInv PROVE TypeOK
  OBVIOUS
<1> USE ThreadSides
<1>1. Shape /\ WithinBatch /\ SlotInv /\ CountInv /\ CreditInv /\ CopyInv
  BY DEF IInv, RingIInv
<1> DEFINE c == cursor["send"]
           d == cursor["recv"]
           k == c.lap \div 2
           l == d.lap \div 2
<1>2. /\ Cap \in Nat \ {0} /\ Total \in Nat
      /\ c \in [lap : Nat, pos : 0 .. Cap - 1] /\ d \in [lap : Nat, pos : 0 .. Cap - 1]
      /\ c.lap % 2 = 0 /\ d.lap % 2 = 1
  BY <1>1, RunAssumption, ThreadsAssumption DEF Shape, Slots, CountInv, Sides
<1>3. k \in Nat /\ l \in Nat /\ c.lap = 2 * k /\ d.lap = 2 * l + 1
  <2>1. \A n \in Nat :
           /\ n \div 2 \in Nat
           /\ n % 2 = 0 => n = 2 * (n \div 2)
           /\ n % 2 = 1 => n = 2 * (n \div 2) + 1
    OBVIOUS
  <2> QED
    BY <1>2, <2>1
<1>4. Ticket(c) <= Total /\ Ticket(d) <= Ticket(c) /\ Ticket(c) \in Nat /\ Ticket(d) \in Nat
  <2>1. Ticket(c) = Cardinality(Claims)
    BY <1>1 DEF CountInv
  <2>2. Claims \subseteq Messages
    BY DEF Claims
  <2>3. Cardinality(Claims) <= Total
    BY <2>2, MessagesFinite, FS_Subset
  <2>4. CursorsWithinCap
    BY <1>1, InvCursorsWithinCap DEF RingIInv, CountInv, IInv
  <2>5. Ticket(c) \in Nat /\ Ticket(d) \in Nat
    BY <1>2, AdvanceTicket DEF Slots
  <2>6. Ticket(c) - Ticket(d) \in 0 .. Cap
    BY <2>4 DEF CursorsWithinCap
  <2> QED
    BY <1>2, <2>1, <2>3, <2>5, <2>6
<1>5. k * Cap + c.pos <= Total /\ l * Cap + d.pos <= Total
  BY <1>4, <1>2 DEF Ticket
<1>6. \A n \in Nat : n * Cap \in Nat /\ n <= n * Cap
  <2>1. ASSUME NEW n \in Nat PROVE n * Cap \in Nat /\ n <= n * Cap
    <3>1. 1 * n <= Cap * n
      BY <1>2, ProductGrows
    <3>2. n * Cap = Cap * n /\ 1 * n = n
      BY <1>2
    <3> QED
      BY <1>2, <3>1, <3>2
  <2> QED
    BY <2>1
<1> HIDE DEF c, d, k, l
<1>7. k <= Total /\ l <= Total /\ (c.pos > 0 => k + 1 <= Total)
  <2>1. k <= k * Cap /\ k * Cap \in Nat /\ l <= l * Cap /\ l * Cap \in Nat
    BY <1>3, <1>6
  <2> QED
    BY <1>2, <1>3, <1>5, <2>1
<1>8. \A s \in Sides : cursor[s].lap \in 0 .. 2 * Total + 1
  <2>1. c.lap \in 0 .. 2 * Total + 1 /\ d.lap \in 0 .. 2 * Total + 1
    BY <1>2, <1>3, <1>7
  <2> QED
    BY <2>1 DEF c, d, Sides
<1>9. cursor \in [Sides -> Cursors] /\ cur \in [Threads -> Cursors]
  <2>1. cursor \in [Sides -> [lap : Nat, pos : Slots]] /\ cur \in [Threads -> [lap : Nat, pos : Slots]]
    BY <1>1 DEF Shape
  <2>2. \A s \in Sides : cursor[s] \in Cursors
    BY <1>8, <2>1 DEF Cursors
  <2>3. ASSUME NEW t \in Threads PROVE cur[t] \in Cursors
    <3>1. cur[t].lap <= cursor[Side(t)].lap /\ cur[t].lap \in Nat /\ cursor[Side(t)].lap \in 0 .. 2 * Total + 1
      BY <1>1, <1>8, <2>1 DEF CopyInv
    <3>2. cur[t].lap \in 0 .. 2 * Total + 1
      BY <1>2, <3>1
    <3> QED
      BY <2>1, <3>2 DEF Cursors
  <2> QED
    BY <2>1, <2>2, <2>3
<1>10. ring \in [Slots -> [lap : 0 .. 2 * Total, data : Messages \cup {0}]]
  <2>1. ring \in [Slots -> [lap : Nat, data : Messages \cup {0}]]
    BY <1>1 DEF Shape
  <2>2. ASSUME NEW p \in Slots PROVE ring[p].lap \in 0 .. 2 * Total
    <3>1. NextLap("send", p) \in Nat /\ NextLap("send", p) <= 2 * Total
      <4>1. p \in Nat
        BY <1>2 DEF Slots
      <4>2. CASE c.pos <= p
        BY <1>2, <1>3, <1>7, <4>2 DEF NextLap, c
      <4>3. CASE ~(c.pos <= p)
        <5>1. c.pos > 0
          BY <1>2, <4>1, <4>3
        <5>2. NextLap("send", p) = c.lap + 2
          BY <4>3 DEF NextLap, c
        <5> QED
          BY <1>2, <1>3, <1>7, <5>1, <5>2
      <4> QED
        BY <4>2, <4>3
    <3>2. ring[p].lap \in Nat
      BY <2>1
    <3>3. ring[p].lap <= NextLap("send", p)
      <4>1. CASE Free(p)
        BY <3>1, <3>2, <4>1 DEF Free, Sides, Other
      <4>2. ASSUME NEW t \in Threads, OwnedBy(t, p) PROVE ring[p].lap <= NextLap("send", p)
        <5>1. Side(t) \in {"send", "recv"}
          BY DEF Sides
        <5> QED
          BY <3>1, <3>2, <4>2, <5>1 DEF OwnedBy, Other
      <4> QED
        BY <1>1, <4>1, <4>2 DEF SlotInv
    <3> QED
      BY <1>2, <3>1, <3>2, <3>3
  <2> QED
    BY <2>1, <2>2
<1>11. /\ waiters \in [Sides -> Nat]
       /\ waiters["send"] <= NWriters /\ waiters["recv"] <= NReaders
  <2>1. /\ Announced("send") \subseteq Writers /\ Announced("recv") \subseteq Readers
        /\ Writers \subseteq Threads /\ Readers \subseteq Threads
    BY DEF Announced, Threads
  <2>2. /\ Cardinality(Announced("send")) \in Nat /\ Cardinality(Announced("send")) <= NWriters
        /\ Cardinality(Announced("recv")) \in Nat /\ Cardinality(Announced("recv")) <= NReaders
    BY <2>1, ThreadsFinite, FS_Subset, FS_CardinalityType
  <2> QED
    BY <1>1, <2>2 DEF Shape, CreditInv, Sides
<1> QED
  BY <1>1, <1>9, <1>10, <1>11 DEF TypeOK, Shape, WithinBatch

\* When all threads have returned, as many messages have been counted as the
\* readers' batches cover: all of them.
LEMMA InvExactlyOnce == IInv => ExactlyOnce
<1> SUFFICES ASSUME IInv PROVE ExactlyOnce
  OBVIOUS
<1>1. Shape /\ MessageInv /\ CountInv /\ CloseInv
  BY DEF IInv, RingIInv
<1>2. \A m \in Messages : msg_count[m] <= 1
  BY <1>1 DEF MessageInv
<1>3. ASSUME Joined, ~EarlyClose, NEW m \in Messages PROVE msg_count[m] = 1
  <2>1. \A t \in Threads : done[t] = Batch(t)
    BY <1>1, <1>3 DEF Joined, CloseInv
  <2>2. Receipts = Messages
    <3>1. ASSUME NEW n \in Messages PROVE \E r \in Readers : From(r) <= n /\ n < From(r) + Batch(r)
      <4>1. PICK r \in Threads : Side(r) = "recv" /\ From(r) <= n /\ n < From(r) + Batch(r)
        BY BatchesCover DEF Sides
      <4> QED
        BY <4>1, ThreadSides
    <3> QED
      BY <2>1, <3>1 DEF Receipts, Threads
  <2>3. CountedMessages \subseteq Messages /\ Cardinality(CountedMessages) = Cardinality(Messages)
    BY <1>1, <2>2 DEF CountInv, CountedMessages
  <2>4. CountedMessages = Messages
    BY <2>3, MessagesFinite, FS_Subset
  <2> QED
    BY <2>4 DEF CountedMessages
<1> QED
  BY <1>2, <1>3 DEF ExactlyOnce

\* A credit with a sleeper is one of those somebody sees to.
LEMMA InvNoSleepOnCredit == IInv => NoSleepOnCredit
<1> SUFFICES ASSUME IInv, NEW s \in Sides, Asleep(s) # {}, ftx[s] > 0
             PROVE  \/ \E u \in Threads : Side(u) = Other(s) /\ pc[u] \in {"waiters", "wake"}
                    \/ \E u \in Threads : Side(u) = s /\ pc[u] \in {"leave", "credit"}
  BY DEF NoSleepOnCredit
<1>1. ftx[s] <= Cardinality(Wakers(s)) + Cardinality(Takers(s)) /\ ftx[s] \in Nat
  BY RunAssumption DEF IInv, RingIInv, Shape, CreditInv
<1>2. Wakers(s) # {} \/ Takers(s) # {}
  <2>1. Cardinality({}) = 0
    BY FS_EmptySet
  <2>2. SUFFICES ASSUME Wakers(s) = {}, Takers(s) = {} PROVE FALSE
    OBVIOUS
  <2>3. Cardinality(Wakers(s)) = 0 /\ Cardinality(Takers(s)) = 0
    BY <2>1, <2>2
  <2> QED
    BY <1>1, <2>3
<1> QED
  BY <1>2 DEF Wakers, Takers

\* At every moment the types hold, no message is counted twice and all are in
\* the end (main.c:167), and no thread sleeps on while its side has a credit that
\* nobody sees to (chan.c:33-34).
THEOREM SpecRingInv == Spec => []RingInv
<1>1. IInv => RingInv
  BY InvTypeOK, InvExactlyOnce, InvNoSleepOnCredit DEF RingInv
<1> QED
  BY <1>1, SpecIInv, PTL

\* No two threads are ever between claim and publication of the same slot: the
\* plain accesses to item->data (chan.c:101, :169) do not race.
THEOREM SpecSlotExclusive == Spec => []SlotExclusive
<1>1. IInv => SlotExclusive
  <2> SUFFICES ASSUME IInv, NEW t \in Threads, NEW u \in Threads, t # u, Owns(t), Owns(u),
                      cur[t].pos = cur[u].pos
               PROVE  FALSE
    BY DEF SlotExclusive
  <2>1. cur[t].pos \in Slots /\ SlotInv
    BY DEF IInv, RingIInv, Shape
  <2> QED
    BY <2>1, Owner
<1> QED
  BY <1>1, SpecIInv, PTL

\* The cas on the cursor succeeds only for a thread whose slot still has the lap it
\* has loaded before: the two separate loads are as good as one.
THEOREM SpecClaimNotStale == Spec => []ClaimNotStale
<1>1. IInv => ClaimNotStale
  <2> SUFFICES ASSUME IInv, NEW t \in Threads, Owns(t) PROVE ring[cur[t].pos].lap = cur[t].lap
    BY DEF ClaimNotStale
  <2>1. cur[t].pos \in Slots /\ SlotInv
    BY DEF IInv, RingIInv, Shape
  <2> QED
    BY <2>1, Owner DEF OwnedBy
<1> QED
  BY <1>1, SpecIInv, PTL

\* The readers never overtake the writers, and the writers never lap the readers.
THEOREM SpecCursorsWithinCap == Spec => []CursorsWithinCap
<1>1. IInv => CursorsWithinCap
  BY InvCursorsWithinCap DEF IInv, CountInv
<1> QED
  BY <1>1, SpecIInv, PTL

-----------------------------------------------------------------------------
(***************************************************************************)
(* The ring implements BoundedFifo.                                        *)
(*                                                                         *)
(* The tickets between the two cursors are the places of the queue.  Each  *)
(* has a slot of its own, ticket % Cap, and the thread that owns a slot    *)
(* has claimed the one ticket of the current round that falls on it.       *)
(***************************************************************************)
(* Segments of a numbering *)

\* Messages by their ticket.
Numbering(S) == [Nat -> S]

\* The n messages from ticket h on.
Segment(f, h, n) == [i \in 1 .. n |-> f[h + i - 1]]

\* Two numberings agree from ticket a to ticket b - 1.
Agree(f, g, a, b) == \A k \in Nat : a <= k /\ k < b => g[k] = f[k]

\* A segment is a sequence.
LEMMA SegmentSeq ==
  ASSUME NEW S, NEW f \in Numbering(S), NEW h \in Nat, NEW n \in Nat
  PROVE  /\ Segment(f, h, n) \in Seq(S) /\ Len(Segment(f, h, n)) = n
         /\ \A i \in 1 .. n : Segment(f, h, n)[i] = f[h + i - 1]
<1>1. Segment(f, h, n) \in [1 .. n -> S]
  BY DEF Segment, Numbering
<1>2. Segment(f, h, n) \in Seq(S)
  BY <1>1
<1>3. 1 .. Len(Segment(f, h, n)) = 1 .. n /\ Len(Segment(f, h, n)) \in Nat
  BY <1>1, <1>2, LenProperties
<1>4. Len(Segment(f, h, n)) = n
  BY <1>3
<1> QED
  BY <1>2, <1>4 DEF Segment

\* It is determined by its messages.
LEMMA SegmentEqual ==
  ASSUME NEW S, NEW f \in Numbering(S), NEW g \in Numbering(S), NEW h \in Nat, NEW n \in Nat,
         \A k \in Nat : h <= k /\ k < h + n => g[k] = f[k]
  PROVE  Segment(g, h, n) = Segment(f, h, n)
BY DEF Segment, Numbering

\* One more at the end is an Append.
LEMMA SegmentAppend ==
  ASSUME NEW S, NEW f \in Numbering(S), NEW g \in Numbering(S), NEW h \in Nat, NEW n \in Nat, NEW m \in Nat,
         m = n + 1, Agree(f, g, h, h + n)
  PROVE  Segment(g, h, m) = Append(Segment(f, h, n), g[h + n])
<1>1. /\ Segment(g, h, m) \in Seq(S) /\ Len(Segment(g, h, m)) = m
      /\ \A i \in 1 .. m : Segment(g, h, m)[i] = g[h + i - 1]
  BY ONLY SegmentSeq
<1>2. /\ Segment(f, h, n) \in Seq(S) /\ Len(Segment(f, h, n)) = n
      /\ \A i \in 1 .. n : Segment(f, h, n)[i] = f[h + i - 1]
  BY ONLY SegmentSeq
<1>3. g[h + n] \in S
  BY DEF Numbering
<1>4. /\ Append(Segment(f, h, n), g[h + n]) \in Seq(S)
      /\ Len(Append(Segment(f, h, n), g[h + n])) = n + 1
      /\ \A i \in 1 .. n : Append(Segment(f, h, n), g[h + n])[i] = Segment(f, h, n)[i]
      /\ Append(Segment(f, h, n), g[h + n])[n + 1] = g[h + n]
  BY <1>2, <1>3, AppendProperties
<1>5. ASSUME NEW i \in 1 .. m
      PROVE  Segment(g, h, m)[i] = Append(Segment(f, h, n), g[h + n])[i]
  <2>1. CASE i = n + 1
    BY <1>1, <1>4, <2>1
  <2>2. CASE i # n + 1
    <3>1. i \in 1 .. n /\ h + i - 1 \in Nat /\ h <= h + i - 1 /\ h + i - 1 < h + n
      BY <2>2
    <3>2. g[h + i - 1] = f[h + i - 1]
      BY <3>1 DEF Agree
    <3> QED
      BY <1>1, <1>2, <1>4, <3>1, <3>2
  <2> QED
    BY <2>1, <2>2
<1> QED
  BY <1>1, <1>4, <1>5, SeqEqual

\* One less at the front is a Tail.
LEMMA SegmentTail ==
  ASSUME NEW S, NEW f \in Numbering(S), NEW g \in Numbering(S), NEW h \in Nat, NEW n \in Nat, n > 0,
         NEW j \in Nat, NEW m \in Nat, j = h + 1, m = n - 1,
         Agree(f, g, j, h + n)
  PROVE  /\ Segment(f, h, n) # <<>> /\ Head(Segment(f, h, n)) = f[h]
         /\ Segment(g, j, m) = Tail(Segment(f, h, n))
<1>1. /\ Segment(g, j, m) \in Seq(S) /\ Len(Segment(g, j, m)) = m
      /\ \A i \in 1 .. m : Segment(g, j, m)[i] = g[j + i - 1]
  BY ONLY SegmentSeq
<1>2. /\ Segment(f, h, n) \in Seq(S) /\ Len(Segment(f, h, n)) = n
      /\ \A i \in 1 .. n : Segment(f, h, n)[i] = f[h + i - 1]
  BY ONLY SegmentSeq
<1>3. Segment(f, h, n) # <<>>
  BY <1>2, EmptySeq
<1>4. /\ Tail(Segment(f, h, n)) \in Seq(S) /\ Len(Tail(Segment(f, h, n))) = m
      /\ \A i \in 1 .. m : Tail(Segment(f, h, n))[i] = Segment(f, h, n)[i + 1]
  BY <1>2, <1>3, HeadTailProperties
<1>5. Head(Segment(f, h, n)) = f[h]
  <2>1. Segment(f, h, n)[1] = f[h]
    BY <1>2
  <2> QED
    BY <1>2, <1>3, <2>1
<1>6. ASSUME NEW i \in 1 .. m
      PROVE  Segment(g, j, m)[i] = Tail(Segment(f, h, n))[i]
  <2>1. i + 1 \in 1 .. n /\ h + i \in Nat /\ h < h + i /\ h + i < h + n
    OBVIOUS
  <2>2. Segment(g, j, m)[i] = g[h + i] /\ Segment(f, h, n)[i + 1] = f[h + i]
    BY <1>1, <1>2, <2>1
  <2>3. g[h + i] = f[h + i]
    BY <2>1 DEF Agree
  <2> QED
    BY <1>4, <2>1, <2>2, <2>3
<1> QED
  BY <1>1, <1>3, <1>4, <1>5, <1>6, SeqEqual
-----------------------------------------------------------------------------
(* Tickets and slots *)

\* The ticket tells the slot.
LEMMA TicketSlot ==
  ASSUME NEW c \in [lap : Nat, pos : Slots] PROVE Ticket(c) % Cap = c.pos
<1> DEFINE k == c.lap \div 2
           p == c.pos
           a == Ticket(c)
           q == a \div Cap
           r == a % Cap
<1>1. k \in Nat /\ p \in Nat /\ p < Cap /\ Cap \in Nat \ {0}
  BY RunAssumption DEF Slots
<1>2. a = k * Cap + p /\ a \in Nat
  BY AdvanceTicket DEF Ticket
<1>3. q \in Nat /\ r \in Nat /\ r < Cap /\ a = Cap * q + r
  BY <1>1, <1>2, Division
<1> HIDE DEF k, p, a, q, r
<1>4. ASSUME NEW x \in Nat, NEW y \in Nat, x + 1 <= y PROVE x * Cap + Cap <= y * Cap
  <2>1. (x + 1) * Cap <= y * Cap
    BY <1>1, <1>4, ProductGrows, x + 1 \in Nat
  <2>2. (x + 1) * Cap = x * Cap + Cap
    BY <1>1
  <2> QED
    BY <2>1, <2>2
<1>5. Cap * q = q * Cap /\ q * Cap \in Nat /\ k * Cap \in Nat
  BY <1>1, <1>3
<1>6. ~(q + 1 <= k)
  <2> SUFFICES ASSUME q + 1 <= k PROVE FALSE
    OBVIOUS
  <2>1. q * Cap + Cap <= k * Cap
    BY <1>1, <1>3, <1>4
  <2> QED
    BY <1>1, <1>2, <1>3, <1>5, <2>1
<1>7. ~(k + 1 <= q)
  <2> SUFFICES ASSUME k + 1 <= q PROVE FALSE
    OBVIOUS
  <2>1. k * Cap + Cap <= q * Cap
    BY <1>1, <1>3, <1>4
  <2> QED
    BY <1>1, <1>2, <1>3, <1>5, <2>1
<1>8. k = q
  BY <1>1, <1>3, <1>6, <1>7
<1>9. r = p
  BY <1>1, <1>2, <1>3, <1>5, <1>8
<1> QED
  BY <1>9 DEF r, a, p

\* Two tickets on the same slot are at least a round apart.
LEMMA RoundsApart ==
  ASSUME NEW a \in Nat, NEW b \in Nat, a % Cap = b % Cap, a < b PROVE a + Cap <= b
<1> DEFINE q == a \div Cap
           k == b \div Cap
           r == a % Cap
<1>1. Cap \in Nat \ {0}
  BY RunAssumption
<1>2. q \in Nat /\ k \in Nat /\ r \in Nat /\ a = Cap * q + r /\ b = Cap * k + r
  BY <1>1, Division
<1> HIDE DEF q, k, r
<1>3. q < k
  <2> SUFFICES ASSUME k <= q PROVE FALSE
    BY <1>2
  <2>1. k * Cap <= q * Cap
    BY <1>1, <1>2, ProductGrows
  <2>2. Cap * q = q * Cap /\ Cap * k = k * Cap /\ q * Cap \in Nat /\ k * Cap \in Nat
    BY <1>1, <1>2
  <2> QED
    BY <1>2, <2>1, <2>2
<1>4. (q + 1) * Cap <= k * Cap
  BY <1>1, <1>2, <1>3, ProductGrows, q + 1 \in Nat, q + 1 <= k
<1>5. Cap * q = q * Cap /\ Cap * k = k * Cap /\ q * Cap \in Nat /\ k * Cap \in Nat
      /\ (q + 1) * Cap = q * Cap + Cap
  BY <1>1, <1>2
<1> QED
  BY <1>1, <1>2, <1>4, <1>5

\* A writer that owns a slot has claimed a ticket of the readers' round.
LEMMA ClaimedTicket ==
  ASSUME IInv, NEW w \in Writers, Owns(w)
  PROVE  LET h == Ticket(cursor["recv"])
         IN  h <= Ticket(cur[w]) /\ Ticket(cur[w]) < h + Cap
<1> DEFINE d == cursor["recv"]
           c == cur[w]
           l == d.lap \div 2
           k == c.lap \div 2
<1>1. /\ w \in Threads /\ Side(w) = "send" /\ Other(Side(w)) = "recv"
      /\ d \in [lap : Nat, pos : Slots] /\ c \in [lap : Nat, pos : Slots] /\ d.lap % 2 = 1
  BY DEF Writers, Threads, Side, Other, IInv, RingIInv, Shape, CountInv, Sides
<1>2. /\ Cap \in Nat \ {0} /\ d.lap \in Nat /\ c.lap \in Nat
      /\ d.pos \in Nat /\ d.pos < Cap /\ c.pos \in Nat /\ c.pos < Cap
  BY <1>1, RunAssumption DEF Slots
<1>3. OwnedBy(w, c.pos)
  BY <1>1, Owner DEF IInv, RingIInv
<1>4. c.lap + 1 = IF d.pos <= c.pos THEN d.lap ELSE d.lap + 2
  BY <1>1, <1>3 DEF OwnedBy, NextLap
<1>5. l \in Nat /\ k \in Nat /\ d.lap = 2 * l + 1 /\ k = IF d.pos <= c.pos THEN l ELSE l + 1
  <2>1. l \in Nat /\ d.lap = 2 * l + 1
    BY <1>1, <1>2
  <2>2. \A x \in Nat : (2 * x) \div 2 = x /\ (2 * x + 2) \div 2 = x + 1
    OBVIOUS
  <2>3. c.lap = IF d.pos <= c.pos THEN 2 * l ELSE 2 * l + 2
    <3> HIDE DEF l
    <3> QED
      BY <1>2, <1>4, <2>1
  <2>4. k = IF d.pos <= c.pos THEN l ELSE l + 1
    BY <2>1, <2>2, <2>3
  <2> QED
    BY <2>1, <2>4
<1>6. Ticket(d) = l * Cap + d.pos /\ Ticket(c) = k * Cap + c.pos
  BY DEF Ticket
<1>7. l * Cap \in Nat /\ (l + 1) * Cap = l * Cap + Cap
  BY <1>2, <1>5
<1>8. Ticket(d) <= Ticket(c) /\ Ticket(c) < Ticket(d) + Cap
  <2> HIDE DEF c, d, k, l
  <2>1. CASE d.pos <= c.pos
    BY <1>2, <1>5, <1>6, <1>7, <2>1
  <2>2. CASE ~(d.pos <= c.pos)
    BY <1>2, <1>5, <1>6, <1>7, <2>2
  <2> QED
    BY <2>1, <2>2
<1> QED
  BY <1>8

-----------------------------------------------------------------------------
(* The places of the queue *)

Contents == [k \in Nat |-> MessageAt(k)]
Claimers(k) == {w \in Writers : pc[w] = "data" /\ Ticket(cur[w]) = k}
Data == Messages \cup {0, NoMsg}

\* What a ticket stands for, before a step and after it.
LEMMA ContentOf ==
  ASSUME NEW k \in Nat
  PROVE  /\ Contents[k] = IF Claimers(k) # {} THEN cell[CHOOSE w \in Claimers(k) : TRUE] ELSE ring[k % Cap].data
         /\ Contents'[k] = IF Claimers(k)' # {} THEN cell'[CHOOSE w \in Claimers(k)' : TRUE] ELSE ring'[k % Cap].data
BY DEF Contents, MessageAt, Claimers

\* The place keeps its message when neither its claimer nor its slot changes.
LEMMA ContentKept ==
  ASSUME NEW k \in Nat, Claimers(k)' = Claimers(k), \A w \in Claimers(k) : cell'[w] = cell[w],
         Claimers(k) = {} => ring'[k % Cap].data = ring[k % Cap].data
  PROVE  Contents'[k] = Contents[k]
BY ContentOf

\* The tickets of the cursors are numbers, at most Cap apart.
LEMMA Tickets ==
  ASSUME IInv
  PROVE  /\ Ticket(cursor["recv"]) \in Nat /\ Ticket(cursor["send"]) \in Nat
         /\ Ticket(cursor["recv"]) <= Ticket(cursor["send"])
         /\ Ticket(cursor["send"]) <= Ticket(cursor["recv"]) + Cap
<1>1. CursorsWithinCap
  BY InvCursorsWithinCap DEF IInv, CountInv
<1>2. Ticket(cursor["recv"]) \in Nat /\ Ticket(cursor["send"]) \in Nat
  BY AdvanceTicket DEF IInv, RingIInv, Shape, Sides
<1>3. Ticket(cursor["send"]) - Ticket(cursor["recv"]) \in 0 .. Cap
  BY <1>1 DEF CursorsWithinCap
<1> QED
  BY <1>2, <1>3, RunAssumption

\* Places hold messages.
LEMMA ContentsType == Shape => Contents \in Numbering(Data)
<1> SUFFICES ASSUME Shape, NEW k \in Nat PROVE MessageAt(k) \in Data
  BY DEF Contents, Numbering
<1>1. MessageAt(k) = IF Claimers(k) # {} THEN cell[CHOOSE w \in Claimers(k) : TRUE] ELSE ring[k % Cap].data
  BY DEF MessageAt, Claimers
<1>2. Claimers(k) # {} => (CHOOSE w \in Claimers(k) : TRUE) \in Threads
  BY DEF Claimers, Threads
<1>3. k % Cap \in Slots
  BY RunAssumption DEF Slots
<1> QED
  BY <1>1, <1>2, <1>3 DEF Shape, Data

\* The queue is the segment between the cursors.
LEMMA QueueIsSegment ==
  ASSUME IInv
  PROVE  Queue = Segment(Contents, Ticket(cursor["recv"]), Ticket(cursor["send"]) - Ticket(cursor["recv"]))
<1>1. Ticket(cursor["recv"]) \in Nat /\ Ticket(cursor["send"]) \in Nat
  BY Tickets
<1>2. \A i \in 1 .. Ticket(cursor["send"]) - Ticket(cursor["recv"]) :
         /\ Ticket(cursor["recv"]) + i - 1 \in Nat
         /\ Contents[Ticket(cursor["recv"]) + i - 1] = MessageAt(Ticket(cursor["recv"]) + i - 1)
  BY <1>1 DEF Contents
<1> QED
  BY <1>1, <1>2 DEF Queue, Segment

\* So it is after a step.
LEMMA QueueIsSegmentNext ==
  (IInv => Queue = Segment(Contents, Ticket(cursor["recv"]), Ticket(cursor["send"]) - Ticket(cursor["recv"])))'
<1>1. IInv => Queue = Segment(Contents, Ticket(cursor["recv"]), Ticket(cursor["send"]) - Ticket(cursor["recv"]))
  BY QueueIsSegment
<1> QED
  BY <1>1, PTL

\* And the types hold after a step.
LEMMA ContentsTypeNext == (Shape => Contents \in Numbering(Data))'
<1>1. Shape => Contents \in Numbering(Data)
  BY ContentsType
<1> QED
  BY <1>1, PTL

\* The tickets after a step, too.
LEMMA TicketsNext ==
  (IInv => /\ Ticket(cursor["recv"]) \in Nat /\ Ticket(cursor["send"]) \in Nat
           /\ Ticket(cursor["recv"]) <= Ticket(cursor["send"])
           /\ Ticket(cursor["send"]) <= Ticket(cursor["recv"]) + Cap)'
<1>1. IInv => /\ Ticket(cursor["recv"]) \in Nat /\ Ticket(cursor["send"]) \in Nat
              /\ Ticket(cursor["recv"]) <= Ticket(cursor["send"])
              /\ Ticket(cursor["send"]) <= Ticket(cursor["recv"]) + Cap
  BY Tickets
<1> QED
  BY <1>1, PTL

\* A step that moves no cursor and changes no place keeps the queue.
LEMMA QueueKept ==
  ASSUME IInv, IInv', cursor' = cursor,
         \A k \in Nat : Ticket(cursor["recv"]) <= k /\ k < Ticket(cursor["send"]) => Contents'[k] = Contents[k]
  PROVE  Queue' = Queue
<1> SUFFICES ASSUME NEW h \in Nat, h = Ticket(cursor["recv"]), NEW n \in Nat, n = Ticket(cursor["send"]) - h
             PROVE  Queue' = Queue
  <2>1. Ticket(cursor["recv"]) \in Nat /\ Ticket(cursor["send"]) - Ticket(cursor["recv"]) \in Nat
    BY Tickets
  <2> QED
    BY <2>1
<1>1. Queue = Segment(Contents, h, n)
  BY QueueIsSegment
<1>2. Queue' = Segment(Contents', h, n)
  BY QueueIsSegmentNext
<1>3. Contents \in Numbering(Data) /\ Contents' \in Numbering(Data)
  BY ContentsType, ContentsTypeNext DEF IInv, RingIInv
<1>4. \A k \in Nat : h <= k /\ k < h + n => Contents'[k] = Contents[k]
  BY Tickets
<1>5. Segment(Contents', h, n) = Segment(Contents, h, n)
  BY <1>3, <1>4, SegmentEqual
<1> QED
  BY <1>1, <1>2, <1>5

\* A writer's claim appends to it.
LEMMA QueueAppended ==
  ASSUME IInv, IInv', cursor'["recv"] = cursor["recv"],
         Ticket(cursor'["send"]) = Ticket(cursor["send"]) + 1,
         \A k \in Nat : Ticket(cursor["recv"]) <= k /\ k < Ticket(cursor["send"]) => Contents'[k] = Contents[k]
  PROVE  /\ Queue' = Append(Queue, Contents'[Ticket(cursor["send"])])
         /\ Len(Queue) < Cap
<1> SUFFICES ASSUME NEW h \in Nat, h = Ticket(cursor["recv"]), NEW n \in Nat, n = Ticket(cursor["send"]) - h,
                    NEW m \in Nat, m = n + 1, h + n = Ticket(cursor["send"])
             PROVE  Queue' = Append(Queue, Contents'[h + n]) /\ Len(Queue) < Cap
  <2>1. /\ Ticket(cursor["recv"]) \in Nat /\ Ticket(cursor["send"]) \in Nat
        /\ Ticket(cursor["send"]) - Ticket(cursor["recv"]) \in Nat
        /\ Ticket(cursor["send"]) - Ticket(cursor["recv"]) + 1 \in Nat
        /\ Ticket(cursor["recv"]) + (Ticket(cursor["send"]) - Ticket(cursor["recv"])) = Ticket(cursor["send"])
    BY Tickets
  <2> QED
    BY <2>1
<1>1. Queue = Segment(Contents, h, n)
  BY QueueIsSegment
<1>2. Queue' = Segment(Contents', h, m)
  <2>1. m = Ticket(cursor'["send"]) - Ticket(cursor'["recv"]) /\ h = Ticket(cursor'["recv"])
    BY Tickets
  <2> QED
    BY <2>1, QueueIsSegmentNext
<1>3. Contents \in Numbering(Data) /\ Contents' \in Numbering(Data)
  BY ContentsType, ContentsTypeNext DEF IInv, RingIInv
<1>4. Agree(Contents, Contents', h, h + n)
  BY DEF Agree
<1>5. Segment(Contents', h, m) = Append(Segment(Contents, h, n), Contents'[h + n])
  BY ONLY <1>3, <1>4, m = n + 1, SegmentAppend
<1>6. Len(Segment(Contents, h, n)) = n
  BY <1>3, SegmentSeq
<1>7. n < Cap
  <2>1. Ticket(cursor'["send"]) <= Ticket(cursor'["recv"]) + Cap /\ h = Ticket(cursor'["recv"])
    BY TicketsNext
  <2> QED
    BY <2>1, RunAssumption
<1> QED
  BY <1>1, <1>2, <1>5, <1>6, <1>7

\* A reader's claim takes its head.
LEMMA QueueTaken ==
  ASSUME IInv, IInv', cursor'["send"] = cursor["send"],
         Ticket(cursor'["recv"]) = Ticket(cursor["recv"]) + 1,
         \A k \in Nat : Ticket(cursor["recv"]) < k /\ k < Ticket(cursor["send"]) => Contents'[k] = Contents[k]
  PROVE  /\ Queue # <<>> /\ Head(Queue) = Contents[Ticket(cursor["recv"])]
         /\ Queue' = Tail(Queue)
<1> SUFFICES ASSUME NEW h \in Nat, h = Ticket(cursor["recv"]), NEW n \in Nat, n = Ticket(cursor["send"]) - h,
                    NEW m \in Nat, m = n - 1, NEW j \in Nat, j = h + 1, n > 0
             PROVE  Queue # <<>> /\ Head(Queue) = Contents[h] /\ Queue' = Tail(Queue)
  <2>1. /\ Ticket(cursor["recv"]) \in Nat /\ Ticket(cursor["send"]) \in Nat
        /\ Ticket(cursor["recv"]) + 1 <= Ticket(cursor["send"])
    BY Tickets, TicketsNext
  <2>2. /\ Ticket(cursor["send"]) - Ticket(cursor["recv"]) \in Nat
        /\ Ticket(cursor["send"]) - Ticket(cursor["recv"]) > 0
        /\ Ticket(cursor["send"]) - Ticket(cursor["recv"]) - 1 \in Nat
        /\ Ticket(cursor["recv"]) + 1 \in Nat
    BY <2>1
  <2> QED
    BY <2>1, <2>2
<1>1. Queue = Segment(Contents, h, n)
  BY QueueIsSegment
<1>2. Queue' = Segment(Contents', j, m)
  <2>1. m = Ticket(cursor'["send"]) - Ticket(cursor'["recv"]) /\ j = Ticket(cursor'["recv"])
    BY Tickets
  <2> QED
    BY <2>1, QueueIsSegmentNext
<1>3. Contents \in Numbering(Data) /\ Contents' \in Numbering(Data)
  BY ContentsType, ContentsTypeNext DEF IInv, RingIInv
<1>4. Agree(Contents, Contents', j, h + n)
  <2>1. Ticket(cursor["send"]) \in Nat
    BY Tickets
  <2> QED
    BY <2>1 DEF Agree
<1>5. /\ Segment(Contents, h, n) # <<>> /\ Head(Segment(Contents, h, n)) = Contents[h]
      /\ Segment(Contents', j, m) = Tail(Segment(Contents, h, n))
  BY ONLY <1>3, <1>4, j = h + 1, m = n - 1, n > 0, SegmentTail
<1> QED
  BY <1>1, <1>2, <1>5

-----------------------------------------------------------------------------
(* The steps of the queue *)

\* Of a ticket of the queue there is at most one claimer: whose slot it is.
LEMMA ClaimerOwns ==
  ASSUME IInv, NEW k \in Nat, NEW w \in Claimers(k)
  PROVE  /\ w \in Threads /\ Owns(w) /\ cur[w].pos = k % Cap /\ Claimers(k) = {w}
         /\ OwnerOf(k % Cap) = {w}
<1>1. \A v \in Claimers(k) : /\ v \in Threads /\ Owns(v) /\ Ticket(cur[v]) = k
                             /\ cur[v] \in [lap : Nat, pos : Slots]
  BY DEF Claimers, Owns, Writers, Threads, IInv, RingIInv, Shape
<1>2. \A v \in Claimers(k) : cur[v].pos = k % Cap
  BY <1>1, TicketSlot
<1>3. \A v \in Claimers(k) : OwnerOf(k % Cap) = {v}
  BY <1>1, <1>2, Owner DEF IInv, RingIInv
<1> QED
  BY <1>1, <1>2, <1>3

\* Steps that leave the claimers and the data of the slots alone keep the queue.
LEMMA PlacesKept ==
  ASSUME IInv, IInv', cursor' = cursor, \A p \in Slots : ring'[p].data = ring[p].data,
         \A w \in Writers : /\ pc'[w] = "data" <=> pc[w] = "data"
                            /\ pc[w] = "data" => cell'[w] = cell[w] /\ cur'[w] = cur[w]
  PROVE  Queue' = Queue
<1>1. ASSUME NEW k \in Nat PROVE Contents'[k] = Contents[k]
  <2>1. Claimers(k)' = Claimers(k) /\ \A w \in Claimers(k) : cell'[w] = cell[w]
    BY DEF Claimers
  <2>2. k % Cap \in Slots
    BY RunAssumption DEF Slots
  <2> QED
    BY <2>1, <2>2, ContentKept
<1> QED
  BY <1>1, QueueKept

\* A writer that stores its message puts it where the queue already has it.
LEMMA StoreKept ==
  ASSUME IInv, IInv', NEW t \in Writers, MoveData(t)
  PROVE  Queue' = Queue
<1> SUFFICES ASSUME NEW T \in Nat, T = Ticket(cur[t])
             PROVE  Queue' = Queue
  <2>1. t \in Threads
    BY DEF Writers, Readers, Threads
  <2>2. Ticket(cur[t]) \in Nat
    BY <2>1, AdvanceTicket DEF IInv, RingIInv, Shape
  <2> QED
    BY <2>2
<1> DEFINE p == cur[t].pos
<1>1. /\ t \in Threads /\ Side(t) = "send" /\ pc[t] = "data" /\ pc' = [pc EXCEPT ![t] = "publish"]
      /\ ring' = [ring EXCEPT ![p].data = cell[t]] /\ UNCHANGED <<cursor, cur, cell>>
  BY DEF MoveData, Goto, Writers, Threads, Side
<1>2. /\ cur[t] \in [lap : Nat, pos : Slots] /\ p \in Slots /\ pc \in [Threads -> Labels]
      /\ ring \in [Slots -> [lap : Nat, data : Messages \cup {0}]]
  BY <1>1 DEF IInv, RingIInv, Shape
<1>3. T \in Nat /\ T % Cap = p
  BY <1>2, AdvanceTicket, TicketSlot
<1>4. Claimers(T) = {t} /\ Claimers(T)' = {}
  <2>1. t \in Claimers(T)
    BY <1>1 DEF Claimers
  <2>2. Claimers(T) = {t}
    BY <1>3, <2>1, ClaimerOwns
  <2>3. \A w \in Writers : pc'[w] = "data" => w # t /\ pc[w] = "data"
    BY <1>1, <1>2 DEF Writers, Threads
  <2>4. ASSUME NEW w \in Claimers(T)' PROVE FALSE
    <3>1. w \in Writers /\ pc'[w] = "data" /\ Ticket(cur'[w]) = T
      BY <1>1, <2>4 DEF Claimers
    <3>2. w \in Claimers(T) /\ w # t
      BY <1>1, <2>3, <3>1 DEF Claimers
    <3> QED
      BY <2>2, <3>2
  <2> QED
    BY <2>2, <2>4
<1>5. Contents'[T] = Contents[T]
  <2>1. Contents[T] = cell[t]
    <3>1. (CHOOSE w \in {t} : TRUE) = t
      OBVIOUS
    <3>2. Contents[T] = cell[CHOOSE w \in {t} : TRUE]
      BY <1>3, <1>4, ContentOf
    <3> QED
      BY <3>1, <3>2
  <2>2. Contents'[T] = ring'[p].data
    <3> QED
      BY <1>3, <1>4, ContentOf
  <2>3. ring'[p].data = cell[t]
    BY <1>1, <1>2
  <2> QED
    BY <2>1, <2>2, <2>3
<1>6. ASSUME NEW k \in Nat, k # T, Ticket(cursor["recv"]) <= k, k < Ticket(cursor["send"])
      PROVE  Contents'[k] = Contents[k]
  <2>1. Claimers(k)' = Claimers(k)
    <3>1. \A w \in Writers : w # t => (pc'[w] = "data" <=> pc[w] = "data")
      BY <1>1, <1>2 DEF Writers, Threads
    <3>2. t \notin Claimers(k) /\ t \notin Claimers(k)'
      BY <1>1, <1>6 DEF Claimers
    <3> QED
      BY <1>1, <3>1, <3>2 DEF Claimers
  <2>2. k % Cap # p
    <3> SUFFICES ASSUME k % Cap = p PROVE FALSE
      OBVIOUS
    <3>1. Ticket(cursor["recv"]) <= T /\ T < Ticket(cursor["recv"]) + Cap
      BY <1>1, ClaimedTicket DEF Owns
    <3>2. /\ Ticket(cursor["recv"]) \in Nat /\ Ticket(cursor["send"]) \in Nat
          /\ Ticket(cursor["send"]) <= Ticket(cursor["recv"]) + Cap
      BY Tickets
    <3> HIDE DEF p
    <3>3. CASE k < T
      <4>1. k + Cap <= T
        BY <1>3, <3>3, RoundsApart
      <4> QED
        BY <1>3, <1>6, <3>1, <3>2, <4>1, RunAssumption
    <3>4. CASE T < k
      <4>1. T + Cap <= k
        BY <1>3, <3>4, RoundsApart
      <4> QED
        BY <1>3, <1>6, <3>1, <3>2, <4>1, RunAssumption
    <3> QED
      BY <1>3, <1>6, <3>3, <3>4
  <2>3. k % Cap \in Slots /\ ring'[k % Cap] = ring[k % Cap]
    <3>1. k % Cap \in Slots
      BY RunAssumption DEF Slots
    <3> QED
      BY <1>1, <1>2, <2>2, <3>1
  <2> QED
    BY <1>1, <2>1, <2>3, ContentKept
<1> QED
  BY <1>1, <1>5, <1>6, QueueKept

\* A successful cas on tail puts the writer's next message into the queue.
LEMMA ClaimPuts ==
  ASSUME IInv, IInv', NEW t \in Writers, Claim(t), cursor["send"] = cur[t]
  PROVE  Queue' = Append(Queue, From(t) + done[t]) /\ Len(Queue) < Cap
<1> SUFFICES ASSUME NEW T \in Nat, T = Ticket(cur[t])
             PROVE  Queue' = Append(Queue, From(t) + done[t]) /\ Len(Queue) < Cap
  <2>1. t \in Threads
    BY DEF Writers, Readers, Threads
  <2>2. Ticket(cur[t]) \in Nat
    BY <2>1, AdvanceTicket DEF IInv, RingIInv, Shape
  <2> QED
    BY <2>2
<1> DEFINE p == cur[t].pos
<1>1. /\ t \in Threads /\ Side(t) = "send" /\ pc[t] = "claim" /\ pc' = [pc EXCEPT ![t] = "data"]
      /\ cursor' = [cursor EXCEPT !["send"] = Advance(cursor["send"])] /\ UNCHANGED <<ring, cur, cell>>
  BY DEF Claim, Goto, Writers, Threads, Side
<1>2. /\ cur[t] \in [lap : Nat, pos : Slots] /\ p \in Slots /\ pc \in [Threads -> Labels]
      /\ cursor \in [Sides -> [lap : Nat, pos : Slots]] /\ "send" \in Sides /\ "recv" \in Sides
  BY <1>1 DEF IInv, RingIInv, Shape, Sides
<1>3. T \in Nat /\ T % Cap = p /\ T = Ticket(cursor["send"])
  BY <1>2, AdvanceTicket, TicketSlot
<1>4. cursor'["recv"] = cursor["recv"] /\ Ticket(cursor'["send"]) = Ticket(cursor["send"]) + 1
  BY <1>1, <1>2, AdvanceTicket
<1>5. OwnerOf(p) = {}
  BY <1>1, ClaimRing DEF IInv
<1>6. \A w \in Writers : /\ w \in Threads
                         /\ pc'[w] = "data" <=> pc[w] = "data" \/ w = t
  BY <1>1, <1>2 DEF Writers, Threads
<1>7. Claimers(T)' = {t}
  <2>1. Claimers(T) = {}
    <3> SUFFICES ASSUME NEW w \in Claimers(T) PROVE FALSE
      OBVIOUS
    <3>1. OwnerOf(T % Cap) = {w}
      BY <1>3, ClaimerOwns
    <3> QED
      BY <1>3, <1>5, <3>1
  <2>2. \A w \in Writers : w \in Claimers(T)' <=> w \in Claimers(T) \/ w = t
    BY <1>1, <1>6 DEF Claimers
  <2>3. Claimers(T)' \subseteq Writers
    BY DEF Claimers
  <2> QED
    BY <2>1, <2>2, <2>3
<1>8. \A k \in Nat : k < T => Contents'[k] = Contents[k]
  <2> SUFFICES ASSUME NEW k \in Nat, k < T PROVE Contents'[k] = Contents[k]
    OBVIOUS
  <2>1. Claimers(k)' = Claimers(k)
    <3>1. t \notin Claimers(k) /\ t \notin Claimers(k)'
      BY <1>1, <1>3 DEF Claimers
    <3> QED
      BY <1>1, <1>6, <3>1 DEF Claimers
  <2> QED
    BY <1>1, <2>1, ContentKept
<1>9. Contents'[T] = From(t) + done[t]
  <2>1. (CHOOSE w \in {t} : TRUE) = t
    OBVIOUS
  <2>2. Contents'[T] = cell'[t]
    <3>1. Contents'[T] = cell'[CHOOSE w \in {t} : TRUE]
      BY <1>3, <1>7, ContentOf
    <3> QED
      BY <2>1, <3>1
  <2>3. cell[t] = From(t) + done[t]
    BY <1>1 DEF IInv, MessageInv, InCall
  <2> QED
    BY <1>1, <2>2, <2>3
<1>10. Queue' = Append(Queue, Contents'[Ticket(cursor["send"])]) /\ Len(Queue) < Cap
  BY <1>3, <1>4, <1>8, QueueAppended
<1> QED
  BY <1>3, <1>9, <1>10

\* A successful cas on head takes the head of the queue, which is in the slot.
LEMMA ClaimTakes ==
  ASSUME IInv, IInv', NEW t \in Readers, Claim(t), cursor["recv"] = cur[t]
  PROVE  Queue # <<>> /\ ring[cur[t].pos].data = Head(Queue) /\ Queue' = Tail(Queue)
<1> SUFFICES ASSUME NEW T \in Nat, T = Ticket(cur[t])
             PROVE  Queue # <<>> /\ ring[cur[t].pos].data = Head(Queue) /\ Queue' = Tail(Queue)
  <2>1. t \in Threads
    BY DEF Writers, Readers, Threads
  <2>2. Ticket(cur[t]) \in Nat
    BY <2>1, AdvanceTicket DEF IInv, RingIInv, Shape
  <2> QED
    BY <2>2
<1> DEFINE p == cur[t].pos
<1>1. /\ t \in Threads /\ Side(t) = "recv" /\ pc[t] = "claim" /\ pc' = [pc EXCEPT ![t] = "data"]
      /\ cursor' = [cursor EXCEPT !["recv"] = Advance(cursor["recv"])] /\ UNCHANGED <<ring, cur, cell>>
      /\ t \notin Writers
  BY DEF Claim, Goto, Readers, Writers, Threads, Side
<1>2. /\ cur[t] \in [lap : Nat, pos : Slots] /\ p \in Slots /\ pc \in [Threads -> Labels]
      /\ cursor \in [Sides -> [lap : Nat, pos : Slots]] /\ "send" \in Sides /\ "recv" \in Sides
  BY <1>1 DEF IInv, RingIInv, Shape, Sides
<1>3. T \in Nat /\ T % Cap = p /\ T = Ticket(cursor["recv"])
  BY <1>2, AdvanceTicket, TicketSlot
<1>4. cursor'["send"] = cursor["send"] /\ Ticket(cursor'["recv"]) = Ticket(cursor["recv"]) + 1
  BY <1>1, <1>2, AdvanceTicket
<1>5. OwnerOf(p) = {}
  BY <1>1, ClaimRing DEF IInv
<1>6. \A w \in Writers : w \in Threads /\ pc'[w] = pc[w]
  BY <1>1, <1>2 DEF Writers, Threads
<1>7. \A k \in Nat : Contents'[k] = Contents[k]
  <2> SUFFICES ASSUME NEW k \in Nat PROVE Contents'[k] = Contents[k]
    OBVIOUS
  <2>1. Claimers(k)' = Claimers(k)
    BY <1>1, <1>6 DEF Claimers
  <2> QED
    BY <1>1, <2>1, ContentKept
<1>8. Contents[T] = ring[p].data
  <2>1. Claimers(T) = {}
    <3> SUFFICES ASSUME NEW w \in Claimers(T) PROVE FALSE
      OBVIOUS
    <3>1. OwnerOf(T % Cap) = {w}
      BY <1>3, ClaimerOwns
    <3> QED
      BY <1>3, <1>5, <3>1
  <2> QED
    BY <1>3, <2>1, ContentOf
<1>9. Queue # <<>> /\ Head(Queue) = Contents[Ticket(cursor["recv"])] /\ Queue' = Tail(Queue)
  BY <1>4, <1>7, QueueTaken
<1> QED
  BY <1>3, <1>8, <1>9

\* What the abstract queue keeps of the two loops: messages sent, and in hand.
sentNow == [w \in Writers |-> Sent(w)]
handNow == [r \in Readers |-> Hand(r)]

\* Every step of the ring is a step of the queue, or none that shows.
LEMMA NextFifo ==
  ASSUME IInv, IInv', [Next]_vars
  PROVE  Abstract!Next \/ UNCHANGED <<Queue, sentNow, handNow>>
<1> USE DEF Goto, bufVars, creditVars, progVars
<1>0. /\ pc \in [Threads -> Labels] /\ cell \in [Threads -> Messages \cup {NoMsg}]
      /\ cur \in [Threads -> [lap : Nat, pos : Slots]] /\ done \in [Threads -> Nat]
      /\ ring \in [Slots -> [lap : Nat, data : Messages \cup {0}]]
  BY DEF IInv, RingIInv, Shape
<1>00. /\ \A w \in Writers : w \in Threads /\ Side(w) = "send" /\ w \notin Readers
       /\ \A r \in Readers : r \in Threads /\ Side(r) = "recv" /\ r \notin Writers
       /\ \A t \in Threads : t \in Writers \/ t \in Readers
  BY DEF Threads, Writers, Readers, Side
\* Steps that show nothing.
<1>1. ASSUME cursor' = cursor, \A p \in Slots : ring'[p].data = ring[p].data,
             \A t \in Threads : /\ AfterClaim(t)' <=> AfterClaim(t)
                                /\ pc'[t] = "data" <=> pc[t] = "data"
                                /\ AfterClaim(t) => cur'[t] = cur[t] /\ cell'[t] = cell[t],
             done' = done
      PROVE  UNCHANGED <<Queue, sentNow, handNow>>
  <2>1. Queue' = Queue
    <3>1. \A w \in Writers : /\ pc'[w] = "data" <=> pc[w] = "data"
                             /\ pc[w] = "data" => cell'[w] = cell[w] /\ cur'[w] = cur[w]
      BY <1>00, <1>1 DEF AfterClaim
    <3> QED
      BY <1>1, <3>1, PlacesKept
  <2>2. sentNow' = sentNow
    BY <1>00, <1>1 DEF sentNow, Sent
  <2>3. ASSUME NEW r \in Readers PROVE Hand(r)' = Hand(r)
    <3>1. cur[r].pos \in Slots
      BY <1>0, <1>00
    <3>2. AfterClaim(r) => cur'[r] = cur[r] /\ cell'[r] = cell[r]
      BY <1>00, <1>1
    <3>3. (AfterClaim(r)' <=> AfterClaim(r)) /\ (pc'[r] = "data" <=> pc[r] = "data")
      BY <1>00, <1>1
    <3>4. AfterClaim(r) => ring'[cur'[r].pos].data = ring[cur[r].pos].data
      BY <1>1, <3>1, <3>2
    <3> QED
      BY <3>2, <3>3, <3>4 DEF Hand
  <2> QED
    BY <2>1, <2>2, <2>3 DEF handNow
<1>2. ASSUME NEW t \in Threads,
             \/ Call(t) \/ Try(t) \/ LoadCursor(t) \/ LoadLap(t) \/ (Claim(t) /\ cursor[Side(t)] # cur[t])
             \/ TakeCredit(t) \/ Announce(t) \/ FutexWait(t) \/ SpuriousWakeup(t) \/ Leave(t)
      PROVE  UNCHANGED <<Queue, sentNow, handNow>>
  <2>1. /\ UNCHANGED <<ring, cursor, done>>
        /\ \A u \in Threads \ {t} : pc'[u] = pc[u] /\ cur'[u] = cur[u] /\ cell'[u] = cell[u]
        /\ {pc[t], pc'[t]} \cap {"data", "publish", "add", "waiters", "wake", "return"} = {}
    BY <1>0, <1>2 DEF Call, Try, LoadCursor, LoadLap, Claim, TakeCredit, Announce, FutexWait,
                SpuriousWakeup, Leave
  <2>2. \A u \in Threads : /\ AfterClaim(u)' <=> AfterClaim(u)
                           /\ pc'[u] = "data" <=> pc[u] = "data"
                           /\ AfterClaim(u) => cur'[u] = cur[u] /\ cell'[u] = cell[u]
    BY <2>1 DEF AfterClaim
  <2> QED
    BY <1>1, <2>1, <2>2
<1>3. ASSUME NEW t \in Threads, AddCredit(t) \/ LoadWaiters(t) \/ Wake(t) PROVE UNCHANGED <<Queue, sentNow, handNow>>
  <2>1. /\ UNCHANGED <<ring, cursor, cur, cell, done>>
        /\ \A u \in Threads : \/ pc'[u] = pc[u]
                              \/ {pc[u], pc'[u]} \subseteq {"add", "waiters", "wake", "return"}
                              \/ pc[u] = "asleep" /\ pc'[u] = "leave"
    BY <1>0, <1>3 DEF AddCredit, LoadWaiters, Wake, Asleep
  <2>2. \A u \in Threads : /\ AfterClaim(u)' <=> AfterClaim(u)
                           /\ pc'[u] = "data" <=> pc[u] = "data"
    BY <2>1 DEF AfterClaim
  <2> QED
    BY <1>1, <2>1, <2>2
<1>4. ASSUME NEW t \in Threads, Publish(t) PROVE UNCHANGED <<Queue, sentNow, handNow>>
  <2>1. /\ UNCHANGED <<cursor, cur, cell, done>>
        /\ ring' = [ring EXCEPT ![cur[t].pos].lap = @ + 1]
        /\ pc[t] = "publish" /\ pc' = [pc EXCEPT ![t] = "add"]
    BY <1>4 DEF Publish
  <2>2. \A p \in Slots : ring'[p].data = ring[p].data
    BY <1>0, <2>1
  <2>3. \A u \in Threads : /\ AfterClaim(u)' <=> AfterClaim(u)
                           /\ pc'[u] = "data" <=> pc[u] = "data"
    BY <1>0, <2>1 DEF AfterClaim
  <2> QED
    BY <1>1, <2>1, <2>2, <2>3
<1>5. ASSUME Close \/ UNCHANGED vars PROVE UNCHANGED <<Queue, sentNow, handNow>>
  <2>1. UNCHANGED <<ring, cursor, cur, cell, done>>
    BY <1>5 DEF Close, CloseSetClosed, CloseWakeAll, vars
  <2>2. \A u \in Threads : pc'[u] = pc[u] \/ (pc[u] = "asleep" /\ pc'[u] = "leave")
    BY <1>5 DEF Close, CloseSetClosed, CloseWakeAll, Asleep, vars
  <2>3. \A u \in Threads : /\ AfterClaim(u)' <=> AfterClaim(u)
                           /\ pc'[u] = "data" <=> pc[u] = "data"
    BY <2>2 DEF AfterClaim
  <2> QED
    BY <1>1, <2>1, <2>3
\* The transfer of the data shows nothing either.
<1>6. ASSUME NEW t \in Writers, MoveData(t) PROVE UNCHANGED <<Queue, sentNow, handNow>>
  <2>1. /\ t \in Threads /\ pc[t] = "data" /\ pc' = [pc EXCEPT ![t] = "publish"]
        /\ ring' = [ring EXCEPT ![cur[t].pos].data = cell[t]] /\ UNCHANGED <<cursor, cur, cell, done>>
    BY <1>00, <1>6 DEF MoveData
  <2>2. Queue' = Queue
    BY <1>6, StoreKept
  <2>3. sentNow' = sentNow
    BY <1>0, <1>00, <2>1 DEF sentNow, Sent, AfterClaim
  <2>4. ASSUME NEW r \in Readers PROVE Hand(r)' = Hand(r)
    <3>1. r \in Threads /\ r # t /\ pc'[r] = pc[r] /\ cur[r].pos \in Slots /\ cur[t].pos \in Slots
      BY <1>0, <1>00, <1>6, <2>1
    <3>2. pc[r] = "data" => ring'[cur[r].pos].data = ring[cur[r].pos].data
      <4> SUFFICES ASSUME pc[r] = "data" PROVE ring'[cur[r].pos].data = ring[cur[r].pos].data
        OBVIOUS
      <4>1. Owns(r) /\ Owns(t)
        BY <2>1 DEF Owns
      <4>2. cur[r].pos # cur[t].pos
        BY <2>1, <3>1, <4>1, Owner DEF IInv, RingIInv
      <4> QED
        BY <1>0, <2>1, <3>1, <4>2
    <3> QED
      BY <2>1, <3>1, <3>2 DEF Hand, AfterClaim
  <2> QED
    BY <2>2, <2>3, <2>4 DEF handNow
<1>7. ASSUME NEW t \in Readers, MoveData(t) PROVE UNCHANGED <<Queue, sentNow, handNow>>
  <2>1. /\ t \in Threads /\ pc[t] = "data" /\ pc' = [pc EXCEPT ![t] = "publish"]
        /\ cell' = [cell EXCEPT ![t] = ring[cur[t].pos].data] /\ UNCHANGED <<ring, cursor, cur, done>>
    BY <1>00, <1>7 DEF MoveData
  <2>2. Queue' = Queue
    <3>1. \A w \in Writers : pc'[w] = pc[w] /\ cell'[w] = cell[w]
      BY <1>0, <1>00, <1>7, <2>1
    <3> QED
      BY <2>1, <3>1, PlacesKept
  <2>3. sentNow' = sentNow
    BY <1>0, <1>00, <2>1 DEF sentNow, Sent, AfterClaim
  <2>4. ASSUME NEW r \in Readers PROVE Hand(r)' = Hand(r)
    <3>1. r \in Threads
      BY <1>00
    <3>2. CASE r = t
      <4>1. pc'[r] = "publish" /\ cell'[r] = ring[cur[r].pos].data /\ pc[r] = "data"
        BY <1>0, <2>1, <3>2
      <4> QED
        BY <4>1 DEF Hand, AfterClaim
    <3>3. CASE r # t
      <4>1. pc'[r] = pc[r] /\ cell'[r] = cell[r]
        BY <1>0, <2>1, <3>1, <3>3
      <4> QED
        BY <2>1, <4>1 DEF Hand, AfterClaim
    <3> QED
      BY <3>2, <3>3
  <2> QED
    BY <2>2, <2>3, <2>4 DEF handNow
\* A writer's return: its message was counted as sent before.
<1>8. ASSUME NEW t \in Writers, Return(t) PROVE UNCHANGED <<Queue, sentNow, handNow>>
  <2>1. /\ t \in Threads /\ pc[t] = "return" /\ pc' = [pc EXCEPT ![t] = "idle"]
        /\ done' = [done EXCEPT ![t] = done[t] + 1] /\ UNCHANGED <<ring, cursor, cur, cell>>
    BY <1>00, <1>8 DEF Return
  <2>2. Queue' = Queue
    <3>1. \A w \in Writers : pc'[w] = "data" <=> pc[w] = "data"
      BY <1>0, <1>00, <2>1
    <3> QED
      BY <2>1, <3>1, PlacesKept
  <2>3. sentNow' = sentNow
    BY <1>0, <1>00, <2>1 DEF sentNow, Sent, AfterClaim
  <2>4. \A r \in Readers : Hand(r)' = Hand(r)
    BY <1>0, <1>00, <2>1 DEF Hand, AfterClaim
  <2> QED
    BY <2>2, <2>3, <2>4 DEF handNow
\* A reader's return: the message is used.
<1>9. ASSUME NEW t \in Readers, Return(t) PROVE Abstract!Use(t)
  <2>1. /\ t \in Threads /\ pc[t] = "return" /\ pc' = [pc EXCEPT ![t] = "idle"]
        /\ done' = [done EXCEPT ![t] = done[t] + 1] /\ UNCHANGED <<ring, cursor, cur, cell>>
    BY <1>00, <1>9 DEF Return
  <2>2. Queue' = Queue
    <3>1. \A w \in Writers : pc'[w] = "data" <=> pc[w] = "data"
      BY <1>0, <1>00, <2>1
    <3> QED
      BY <2>1, <3>1, PlacesKept
  <2>3. sentNow' = sentNow
    <3>1. \A w \in Writers : pc'[w] = pc[w] /\ done'[w] = done[w]
      BY <1>0, <1>00, <1>9, <2>1
    <3> QED
      BY <3>1 DEF sentNow, Sent, AfterClaim
  <2>4. handNow[t] # NoMsg
    <3>1. cell[t] \in Messages
      BY <1>9, <2>1 DEF IInv, MessageInv, Moved
    <3>2. handNow[t] = cell[t]
      BY <1>9, <2>1 DEF handNow, Hand, AfterClaim
    <3> QED
      BY <3>1, <3>2, ThreadsAssumption DEF Messages, NoMsg
  <2>5. handNow' = [handNow EXCEPT ![t] = NoMsg]
    <3>1. Hand(t)' = NoMsg
      BY <1>0, <2>1 DEF Hand, AfterClaim
    <3>2. \A r \in Readers \ {t} : Hand(r)' = Hand(r)
      BY <1>0, <1>00, <2>1 DEF Hand, AfterClaim
    <3> QED
      BY <3>1, <3>2 DEF handNow
  <2> QED
    BY <2>2, <2>3, <2>4, <2>5 DEF Abstract!Use, sentNow, handNow
\* A successful cas.
<1>10. ASSUME NEW t \in Writers, Claim(t), cursor[Side(t)] = cur[t] PROVE Abstract!Put(t)
  <2>1. /\ t \in Threads /\ Side(t) = "send" /\ pc[t] = "claim" /\ pc' = [pc EXCEPT ![t] = "data"]
        /\ UNCHANGED <<ring, cur, cell, done>>
    BY <1>00, <1>10 DEF Claim
  <2>2. Queue' = Append(Queue, From(t) + done[t]) /\ Len(Queue) < Cap
    BY <1>10, <2>1, ClaimPuts
  <2>3. sentNow[t] = done[t] /\ sentNow' = [sentNow EXCEPT ![t] = sentNow[t] + 1]
    <3>1. Sent(t) = done[t] /\ Sent(t)' = done[t] + 1
      BY <1>0, <2>1 DEF Sent, AfterClaim
    <3>2. \A w \in Writers \ {t} : Sent(w)' = Sent(w)
      BY <1>0, <1>00, <2>1 DEF Sent, AfterClaim
    <3> QED
      BY <3>1, <3>2 DEF sentNow
  <2>4. handNow' = handNow
    <3>1. \A r \in Readers : pc'[r] = pc[r]
      BY <1>0, <1>00, <1>10, <2>1
    <3> QED
      BY <2>1, <3>1 DEF handNow, Hand, AfterClaim
  <2>5. /\ sentNow[t] < Len([i \in 1 .. Batch(t) |-> From(t) + i - 1])
        /\ [i \in 1 .. Batch(t) |-> From(t) + i - 1][sentNow[t] + 1] = From(t) + done[t]
    <3>1. done[t] \in Nat /\ done[t] < Batch(t) /\ Batch(t) \in Nat /\ From(t) \in Nat
      BY <1>0, <2>1, BatchBounds DEF IInv, RingIInv, WithinBatch, InCall
    <3>2. Len([i \in 1 .. Batch(t) |-> From(t) + i - 1]) = Batch(t)
      BY <3>1
    <3>3. done[t] + 1 \in 1 .. Batch(t)
      BY <3>1
    <3>4. [i \in 1 .. Batch(t) |-> From(t) + i - 1][done[t] + 1] = From(t) + (done[t] + 1) - 1
      BY <3>3
    <3> QED
      BY <2>3, <3>1, <3>2, <3>4
  <2> QED
    BY <2>2, <2>3, <2>4, <2>5 DEF Abstract!Put, sentNow, handNow
<1>11. ASSUME NEW t \in Readers, Claim(t), cursor[Side(t)] = cur[t] PROVE Abstract!Take(t)
  <2>1. /\ t \in Threads /\ Side(t) = "recv" /\ pc[t] = "claim" /\ pc' = [pc EXCEPT ![t] = "data"]
        /\ UNCHANGED <<ring, cur, cell, done>>
    BY <1>00, <1>11 DEF Claim
  <2>2. Queue # <<>> /\ ring[cur[t].pos].data = Head(Queue) /\ Queue' = Tail(Queue)
    BY <1>11, <2>1, ClaimTakes
  <2>3. sentNow' = sentNow
    <3>1. \A w \in Writers : pc'[w] = pc[w]
      BY <1>0, <1>00, <1>11, <2>1
    <3> QED
      BY <2>1, <3>1 DEF sentNow, Sent, AfterClaim
  <2>4. handNow[t] = NoMsg /\ handNow' = [handNow EXCEPT ![t] = Head(Queue)]
    <3>1. Hand(t) = NoMsg /\ Hand(t)' = Head(Queue)
      BY <1>0, <2>1, <2>2 DEF Hand, AfterClaim
    <3>2. \A r \in Readers \ {t} : Hand(r)' = Hand(r)
      BY <1>0, <1>00, <2>1 DEF Hand, AfterClaim
    <3> QED
      BY <3>1, <3>2 DEF handNow
  <2> QED
    BY <2>2, <2>3, <2>4 DEF Abstract!Take, sentNow, handNow
<1>12. ASSUME NEW t \in Threads, Step(t) \/ SpuriousWakeup(t)
       PROVE  Abstract!Next \/ UNCHANGED <<Queue, sentNow, handNow>>
  <2>1. CASE t \in Writers
    <3>1. CASE Claim(t) /\ cursor[Side(t)] = cur[t]
      BY <1>10, <2>1, <3>1 DEF Abstract!Next
    <3>2. CASE ~(Claim(t) /\ cursor[Side(t)] = cur[t])
      BY <1>2, <1>3, <1>4, <1>6, <1>8, <1>12, <2>1, <3>2 DEF Step
    <3> QED
      BY <3>1, <3>2
  <2>2. CASE t \in Readers
    <3>1. CASE Claim(t) /\ cursor[Side(t)] = cur[t]
      BY <1>11, <2>2, <3>1 DEF Abstract!Next
    <3>2. CASE Return(t)
      BY <1>9, <2>2, <3>2 DEF Abstract!Next
    <3>3. CASE ~(Claim(t) /\ cursor[Side(t)] = cur[t]) /\ ~Return(t)
      BY <1>2, <1>3, <1>4, <1>7, <1>12, <2>2, <3>3 DEF Step
    <3> QED
      BY <3>1, <3>2, <3>3
  <2> QED
    BY <1>00, <2>1, <2>2
<1> QED
  BY <1>5, <1>12 DEF Next, Finished

\* The buffered channel implements the bounded queue (chan.c:79-223), whether or
\* not chan_close comes early: no message is lost, doubled or overtaken.
THEOREM Refinement == Spec => ImplementsFifo
<1>1. Init => Abstract!Init
  <2> SUFFICES ASSUME Init PROVE Abstract!Init
    OBVIOUS
  <2>1. Queue = <<>>
    <3>1. cursor["send"] = [lap |-> 0, pos |-> 0] /\ cursor["recv"] = [lap |-> 1, pos |-> 0]
      BY DEF Init, Sides
    <3>2. Ticket(cursor["send"]) = 0 /\ Ticket(cursor["recv"]) = 0
      <4>1. 0 \div 2 = 0 /\ 1 \div 2 = 0 /\ 0 * Cap = 0
        BY RunAssumption
      <4> QED
        BY <3>1, <4>1 DEF Ticket
    <3> QED
      BY <3>2 DEF Queue
  <2>2. \A t \in Threads : pc[t] = "idle" /\ done[t] = 0
    BY DEF Init
  <2> QED
    BY <2>1, <2>2 DEF Abstract!Init, Sent, Hand, AfterClaim, Threads
<1>2. IInv /\ IInv' /\ [Next]_vars => [Abstract!Next]_(<<Queue, sentNow, handNow>>)
  BY NextFifo
<1>3. <<Queue, sentNow, handNow>>' = <<Queue, sentNow, handNow>> => Abstract!vars' = Abstract!vars
  BY DEF Abstract!vars, sentNow, handNow
<1>4. IInv /\ IInv' /\ [Next]_vars => [Abstract!Next]_(Abstract!vars)
  BY <1>2, <1>3
<1> QED
  BY <1>1, <1>4, SpecIInv, PTL DEF Spec, ImplementsFifo, Abstract!Spec

=============================================================================
