----------------------------- MODULE Rendezvous -----------------------------
(***************************************************************************)
(* What an unbuffered channel promises: a send and a receive return        *)
(* successfully only after they have met, each call meets exactly one call *)
(* of the other kind, and both are in progress when they meet.             *)
(***************************************************************************)
CONSTANTS Writers, Readers

VARIABLE call      \* "out" of the channel, "in" a call, or "exchanged"

Threads == Writers \cup Readers

Init == call = [t \in Threads |-> "out"]

Enter(t) == call[t] = "out" /\ call' = [call EXCEPT ![t] = "in"]

Meet(w, r) == /\ call[w] = "in" /\ call[r] = "in"
              /\ call' = [call EXCEPT ![w] = "exchanged", ![r] = "exchanged"]

Leave(t) == call[t] = "exchanged" /\ call' = [call EXCEPT ![t] = "out"]

Next == \/ \E t \in Threads : Enter(t) \/ Leave(t)
        \/ \E w \in Writers, r \in Readers : Meet(w, r)

Spec == Init /\ [][Next]_call
=============================================================================
