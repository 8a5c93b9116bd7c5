------------------------------- MODULE TwoLists -------------------------------
(***************************************************************************)
(* What list.h and sorting.h of linuxlist promise of each call: what it    *)
(* does to lists of values, given the heads, the positions of items and    *)
(* the values it is called with.                                           *)
(***************************************************************************)
EXTENDS Naturals, Sequences, SequencesExt

CONSTANTS Heads, Values

VARIABLES
  items,         \* [Heads -> Seq(Values)]
  call           \* the call made last, with its arguments

Init == items = [h \in Heads |-> <<>>] /\ call = <<"none">>

(* A call by its name and arguments, and what it makes of the lists.       *)
Call(name, arguments, result) == call' = <<name>> \o arguments /\ items' = result

First(s, v) == <<v>> \o s
Without(h, k) == [items EXCEPT ![h] = RemoveAt(@, k)]
Joined(g, h, s) == [items EXCEPT ![g] = <<>>, ![h] = s]
Sorted(h) == [items EXCEPT ![h] = SortSeq(@, LAMBDA a, b : a < b)]

list_add(h, v) == Call("list_add", <<h, v>>, [items EXCEPT ![h] = First(@, v)])
list_add_tail(h, v) == Call("list_add_tail", <<h, v>>, [items EXCEPT ![h] = Append(@, v)])

(* list_del of a node that list_del_init took out before has no position.  *)
list_del(h, k) == Call("list_del", <<h, k>>, Without(h, k))
list_del_out == Call("list_del", <<>>, items)
list_del_init(h, k) == Call("list_del_init", <<h, k>>, Without(h, k))

list_move(h, k, g) ==
  Call("list_move", <<h, k, g>>, [Without(h, k) EXCEPT ![g] = First(@, items[h][k])])
list_move_tail(h, k, g) ==
  Call("list_move_tail", <<h, k, g>>, [Without(h, k) EXCEPT ![g] = Append(@, items[h][k])])

list_splice(g, h) ==
  \E name \in {"list_splice", "list_splice_init"} :
    Call(name, <<g, h>>, Joined(g, h, items[g] \o items[h]))
list_splice_tail(g, h) ==
  \E name \in {"list_splice_tail", "list_splice_tail_init"} :
    Call(name, <<g, h>>, Joined(g, h, items[h] \o items[g]))

(* Of a head that was spliced away.                                        *)
INIT_LIST_HEAD(h) == items[h] = <<>> /\ Call("INIT_LIST_HEAD", <<h>>, items)

list_cut_position(g, h, k) ==
  /\ items[g] = <<>>
  /\ Call("list_cut_position", <<g, h, k>>,
          [items EXCEPT ![g] = SubSeq(items[h], 1, k),
                        ![h] = SubSeq(items[h], k + 1, Len(items[h]))])

Sort(h) == \E name \in {"list_insertsort", "list_qsort", "list_mergesort"} :
             Call(name, <<h>>, Sorted(h))

Next ==
  \/ list_del_out
  \/ \E h \in Heads :
       \/ \E v \in Values : list_add(h, v) \/ list_add_tail(h, v)
       \/ \E k \in 1..Len(items[h]) : list_del(h, k) \/ list_del_init(h, k)
       \/ \E k \in 1..Len(items[h]), g \in Heads : list_move(h, k, g) \/ list_move_tail(h, k, g)
       \/ \E g \in Heads \ {h} : list_splice(g, h) \/ list_splice_tail(g, h)
       \/ \E k \in 0..Len(items[h]), g \in Heads \ {h} : list_cut_position(g, h, k)
       \/ INIT_LIST_HEAD(h)
       \/ Sort(h)

Spec == Init /\ [][Next]_<<items, call>>
=============================================================================
