---------------------------- MODULE BoundedFifo ----------------------------
(***************************************************************************)
(* What a buffered channel promises: a queue of at most Cap messages that  *)
(* takes each writer's messages in the order they are sent, and hands each *)
(* message to one reader, first in first out.                              *)
(***************************************************************************)
EXTENDS Naturals, Sequences

CONSTANTS Writers, Readers, Cap,
          Outgoing,     \* for each writer, the sequence of its messages
          NoMsg         \* stands for an empty hand

VARIABLES q,            \* the messages in the channel
          sent,         \* how many messages of each writer have entered it
          hand          \* the message a reader has taken and not yet used

vars == <<q, sent, hand>>

Init == /\ q = <<>>
        /\ sent = [w \in Writers |-> 0]
        /\ hand = [r \in Readers |-> NoMsg]

Put(w) == /\ Len(q) < Cap
          /\ sent[w] < Len(Outgoing[w])
          /\ q' = Append(q, Outgoing[w][sent[w] + 1])
          /\ sent' = [sent EXCEPT ![w] = @ + 1]
          /\ UNCHANGED hand

Take(r) == /\ q # <<>> /\ hand[r] = NoMsg
           /\ hand' = [hand EXCEPT ![r] = Head(q)]
           /\ q' = Tail(q)
           /\ UNCHANGED sent

Use(r) == /\ hand[r] # NoMsg
          /\ hand' = [hand EXCEPT ![r] = NoMsg]
          /\ UNCHANGED <<q, sent>>

Next == (\E w \in Writers : Put(w)) \/ (\E r \in Readers : Take(r) \/ Use(r))

Spec == Init /\ [][Next]_vars
=============================================================================
