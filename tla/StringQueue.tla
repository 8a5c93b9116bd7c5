---------------------------- MODULE StringQueue ----------------------------
(***************************************************************************)
(* What queue.h of 2021q1_lab0-c promises of each call: a queue of strings *)
(* that grows at both ends, shrinks at the head, and can be reversed and   *)
(* sorted in place.  An insertion may find no memory.                      *)
(***************************************************************************)
EXTENDS Naturals, Sequences, SequencesExt

CONSTANTS Values,       \* strings, as numbers in strcasecmp's order
          MaxSize       \* elements there is memory for

VARIABLES items,
          call          \* the call made last: its name and the string it was
                        \* given or gave back, if any

Init == items = <<>> /\ call = <<"none">>

Emptied == items' = <<>> /\ call' \in {<<"q_new">>, <<"q_free">>}

q_insert_head(v) == /\ Len(items) < MaxSize
                    /\ items' = <<v>> \o items /\ call' = <<"q_insert_head", v>>

q_insert_tail(v) == /\ Len(items) < MaxSize
                    /\ items' = Append(items, v) /\ call' = <<"q_insert_tail", v>>

NoMemory == items' = items /\ call' \in {<<"q_insert_head">>, <<"q_insert_tail">>}

q_remove_head == /\ items # <<>>
                 /\ items' = Tail(items) /\ call' = <<"q_remove_head", Head(items)>>

NothingThere == /\ items = <<>>
                /\ items' = <<>> /\ call' \in {<<"q_remove_head">>, <<"q_sort">>}

q_reverse == items' = Reverse(items) /\ call' = <<"q_reverse">>

Rearranged(s) == {[i \in DOMAIN s |-> s[p[i]]] : p \in Bijection(DOMAIN s, DOMAIN s)}

Ascending(s) == \A i, j \in DOMAIN s : i < j => s[i] <= s[j]

q_sort == /\ items' \in Rearranged(items) /\ Ascending(items')
          /\ call' = <<"q_sort">>

Next == \/ Emptied \/ NoMemory \/ q_remove_head \/ NothingThere \/ q_reverse \/ q_sort
        \/ \E v \in Values : q_insert_head(v) \/ q_insert_tail(v)

Spec == Init /\ [][Next]_<<items, call>>
=============================================================================
