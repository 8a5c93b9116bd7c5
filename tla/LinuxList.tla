------------------------------- MODULE LinuxList -------------------------------
(***************************************************************************)
(* The circular doubly linked list of linuxlist, include/list.h, pointer   *)
(* by pointer, and the sorts of private/sorting.h on it, which the         *)
(* examples repeat.  The heads of a client are followed by the heads the   *)
(* sorts keep on their stacks.                                             *)
(***************************************************************************)
EXTENDS Integers, Sequences, FiniteSets, SequencesExt

CONSTANTS
  Items,         \* the list items there is memory for
  MaxLinked,     \* bound: items in the client's lists
  Numbers         \* the i of an item

ASSUME LinuxListAssumption ==
  /\ IsFiniteSet(Items) /\ MaxLinked \in 2..(Cardinality(Items) - 1)
  /\ Numbers \subseteq Nat \ {0}

VARIABLES
  lists,         \* next and prev of every node, the items' values
  stale,         \* heads that list_splice has emptied
  listCall       \* the call made last: its name, heads, positions and values

NoNode == 0
Heads == {-1, -2}
LocalHeads == -(2 * MaxLinked) .. -3
ListNodes == Items \cup Heads \cup LocalHeads

(* The head of one of the two lists of a call at some depth.               *)
Local(k, depth) == -(2 * depth + k)
Less == 3
Greater == 4

Link(s, a, b) == [s EXCEPT !.next[a] = b, !.prev[b] = a]

(* A node that is in no list: nobody may follow what is left in it.        *)
Loose(s, n) == [s EXCEPT !.next[n] = NoNode, !.prev[n] = NoNode]
Unused(s) == {n \in Items : s.next[n] = NoNode}
Allocate(s, v) == LET n == CHOOSE i \in Unused(s) : TRUE
                  IN  [node |-> n, lists |-> [s EXCEPT !.value[n] = v]]
Freed(s, n) == [s EXCEPT !.value[n] = CHOOSE v \in Numbers : TRUE]

(* The items reached from a head by next, as list_for_each meets them.     *)
RECURSIVE From(_, _, _, _)
From(s, h, n, most) == IF n \in {h, NoNode} \/ most = 0 THEN <<>>
                       ELSE <<n>> \o From(s, h, s.next[n], most - 1)
Contents(s, h) == From(s, h, s.next[h], MaxLinked + 2)

-----------------------------------------------------------------------------
(* list.h *)

INIT_LIST_HEAD(s, h) == Link(s, h, h)
list_empty(s, h) == s.next[h] = h
list_is_singular(s, h) == ~list_empty(s, h) /\ s.prev[h] = s.next[h]

list_add(s, n, h) == LET next == s.next[h] IN Link(Link(s, n, next), h, n)
list_add_tail(s, n, h) == LET prev == s.prev[h] IN Link(Link(s, prev, n), n, h)
list_del(s, n) == Loose(Link(s, s.prev[n], s.next[n]), n)
list_del_init(s, n) == INIT_LIST_HEAD(list_del(s, n), n)

\* mutant: the node goes to the other end
list_moveToTail(s, n, h) == list_add_tail(list_del(s, n), n, h)

list_move(s, n, h) == list_add(list_del(s, n), n, h)
list_move_tail(s, n, h) == list_add_tail(list_del(s, n), n, h)

list_splice(s, list, h) ==
  IF list_empty(s, list) THEN s
  ELSE LET next == s.next[h]
       IN  Link(Link(s, h, s.next[list]), s.prev[list], next)

list_splice_tail(s, list, h) ==
  IF list_empty(s, list) THEN s
  ELSE LET prev == s.prev[h]
       IN  Link(Link(s, s.prev[list], h), prev, s.next[list])

list_splice_init(s, list, h) == INIT_LIST_HEAD(list_splice(s, list, h), list)
list_splice_tail_init(s, list, h) == INIT_LIST_HEAD(list_splice_tail(s, list, h), list)

\* mutant: the node that follows the cut keeps its prev
list_cut_positionHalf(s, to, from, n) ==
  IF list_empty(s, from) THEN s
  ELSE IF from = n THEN INIT_LIST_HEAD(s, to)
  ELSE LET first == s.next[from]
           rest == [s EXCEPT !.next[from] = s.next[n]]
       IN  Link(Link(rest, n, to), to, first)

list_cut_position(s, to, from, n) ==
  IF list_empty(s, from) THEN s
  ELSE IF from = n THEN INIT_LIST_HEAD(s, to)
  ELSE LET first == s.next[from]
           rest == Link(s, from, s.next[n])
       IN  Link(Link(rest, n, to), to, first)

-----------------------------------------------------------------------------
(* sorting.h *)

Below(s, a, b) == s.value[a] < s.value[b]

list_insert_sorted(s, entry, h) ==
  LET items == Contents(s, h)
      above == SelectInSeq(items, LAMBDA item : Below(s, entry, item))
  IN  IF list_empty(s, h) THEN list_add(s, entry, h)
      ELSE list_add_tail(s, entry, IF above = 0 THEN h ELSE items[above])

list_insertsort(s, h) ==
  LET unsorted == Local(Less, 0)
      u == list_splice_init(INIT_LIST_HEAD(s, unsorted), h, unsorted)
  IN  Loose(FoldLeft(LAMBDA t, item : list_insert_sorted(list_del(t, item), item, h),
                     u, Contents(u, unsorted)), unsorted)

RECURSIVE list_qsort(_, _, _)
list_qsort(s, h, depth) ==
  IF list_empty(s, h) \/ list_is_singular(s, h) THEN s
  ELSE
    LET less == Local(Less, depth)
        greater == Local(Greater, depth)
        pivot == s.next[h]
        start == list_del(INIT_LIST_HEAD(INIT_LIST_HEAD(s, less), greater), pivot)
        parted == FoldLeft(LAMBDA t, item :
                             IF Below(s, item, pivot) THEN list_move_tail(t, item, less)
                             ELSE list_move(t, item, greater),
                           start, Contents(start, h))
        sorted == list_qsort(list_qsort(parted, less, depth + 1), greater, depth + 1)
        joined == list_splice_tail(list_splice(list_add(sorted, pivot, h), less, h),
                                   greater, h)
    IN  Loose(Loose(joined, less), greater)

(* Every step of the merge copies the smaller item and drops the original, *)
(* which is never freed; nothing points to it, and here it is used again.  *)
RECURSIVE Merge(_, _, _, _)
Merge(s, left, right, h) ==
  IF list_empty(s, left) \/ list_empty(s, right)
  THEN LET l == IF list_empty(s, left) THEN s ELSE list_splice_tail(s, s.prev[left], h)
       IN  IF list_empty(l, right) THEN l ELSE list_splice_tail(l, l.prev[right], h)
  ELSE LET fromLeft == Below(s, left, right)
           item == IF fromLeft THEN left ELSE right
           new == Allocate(s, s.value[item])
           dropped == Freed(list_del(new.lists, item), item)
           next == s.next[item]
       IN  Merge(list_add_tail(dropped, new.node, h),
                 IF fromLeft THEN next ELSE left, IF fromLeft THEN right ELSE next, h)

list_merge(s, left, right, h) ==
  Merge(INIT_LIST_HEAD(s, h), s.next[left], s.next[right], h)

RECURSIVE list_mergesort(_, _, _)
list_mergesort(s, h, depth) ==
  IF list_empty(s, h) \/ list_is_singular(s, h) THEN s
  ELSE
    LET left == Local(Less, depth)
        right == Local(Greater, depth)
        items == Contents(s, h)
        split == FoldLeftDomain(LAMBDA t, k :
                   list_move(t, items[k], IF k % 2 = 0 THEN left ELSE right),
                   INIT_LIST_HEAD(INIT_LIST_HEAD(s, left), right), items)
        sorted == list_mergesort(list_mergesort(split, left, depth + 1),
                                 right, depth + 1)
    IN  Loose(Loose(list_merge(sorted, left, right, h), left), right)

-----------------------------------------------------------------------------
(* A client with two lists.  It frees what it deletes, keeps what it takes *)
(* out with list_del_init, initialises a head that was spliced away, and   *)
(* cuts into an empty list.                                                *)

ListsInit ==
  /\ lists = [next |-> [n \in ListNodes |-> IF n \in Heads THEN n ELSE NoNode],
              prev |-> [n \in ListNodes |-> IF n \in Heads THEN n ELSE NoNode],
              value |-> [n \in Items |-> CHOOSE v \in Numbers : TRUE]]
  /\ stale = {} /\ listCall = <<"none">>

Valid == Heads \ stale
In(h) == Range(Contents(lists, h))
Linked == UNION {In(h) : h \in Valid}
Kept == {n \in Items : lists.next[n] = n}
Becomes(s, call) == lists' = s /\ listCall' = call /\ UNCHANGED stale

Add == \E h \in Valid, v \in Numbers :
         /\ Cardinality(Linked \cup Kept) < MaxLinked /\ Unused(lists) # {}
         /\ LET new == Allocate(lists, v)
            IN  \/ Becomes(list_add(new.lists, new.node, h), <<"list_add", h, v>>)
                \/ Becomes(list_add_tail(new.lists, new.node, h), <<"list_add_tail", h, v>>)

AddAgain == \E h \in Valid, n \in Kept :
  \/ Becomes(list_add(lists, n, h), <<"list_add", h, lists.value[n]>>)
  \/ Becomes(list_add_tail(lists, n, h), <<"list_add_tail", h, lists.value[n]>>)

(* What is done to the k-th item of a list.                                *)
OnItem(Op(_, _, _)) ==
  \E h \in Valid : \E k \in DOMAIN Contents(lists, h) : Op(Contents(lists, h)[k], h, k)

Del == \/ OnItem(LAMBDA n, h, k : Becomes(Freed(list_del(lists, n), n), <<"list_del", h, k>>))
       \/ \E n \in Kept : Becomes(Freed(list_del(lists, n), n), <<"list_del">>)

DelInit == OnItem(LAMBDA n, h, k : Becomes(list_del_init(lists, n), <<"list_del_init", h, k>>))

MoveNode == \E g \in Valid : OnItem(LAMBDA n, h, k :
  \/ Becomes(list_move(lists, n, g), <<"list_move", h, k, g>>)
  \/ Becomes(list_move_tail(lists, n, g), <<"list_move_tail", h, k, g>>))

SpliceAway == \E g, h \in Valid :
  /\ g # h
  /\ \/ lists' = list_splice(lists, g, h) /\ listCall' = <<"list_splice", g, h>>
     \/ lists' = list_splice_tail(lists, g, h) /\ listCall' = <<"list_splice_tail", g, h>>
  /\ stale' = IF list_empty(lists, g) THEN stale ELSE stale \cup {g}

Splice == \E g, h \in Valid :
  /\ g # h
  /\ \/ Becomes(list_splice_init(lists, g, h), <<"list_splice_init", g, h>>)
     \/ Becomes(list_splice_tail_init(lists, g, h), <<"list_splice_tail_init", g, h>>)

Initialise == \E h \in stale :
  /\ lists' = INIT_LIST_HEAD(lists, h) /\ stale' = stale \ {h}
  /\ listCall' = <<"INIT_LIST_HEAD", h>>

CutList == \E g, h \in Valid :
  /\ g # h /\ list_empty(lists, g)
  /\ \E k \in 0..Len(Contents(lists, h)) :
       Becomes(list_cut_position(lists, g, h, IF k = 0 THEN h ELSE Contents(lists, h)[k]),
               <<"list_cut_position", g, h, k>>)

SortList == \E h \in Valid :
  \/ Becomes(list_insertsort(lists, h), <<"list_insertsort", h>>)
  \/ Becomes(list_qsort(lists, h, 0), <<"list_qsort", h>>)
  \/ Unused(lists) # {} /\ Becomes(list_mergesort(lists, h, 0), <<"list_mergesort", h>>)

ListsNext == \/ Add \/ AddAgain \/ Del \/ DelInit \/ MoveNode \/ SpliceAway
             \/ Splice \/ Initialise \/ CutList \/ SortList

listVars == <<lists, stale, listCall>>

-----------------------------------------------------------------------------
(* Properties *)

(* Every list can be walked both ways and meets the same items, no item is *)
(* in two lists, and none of the heads the sorts kept on their stacks is   *)
(* still pointed to.                                                       *)
WellLinked ==
  /\ \A h \in Valid, n \in ListNodes : n \in In(h) \cup {h} =>
       /\ lists.next[n] \in In(h) \cup {h}
       /\ lists.prev[lists.next[n]] = n
  /\ \A g, h \in Valid : g # h => In(g) \cap In(h) = {}

(* Through every sequence of calls each one does to the values in the two  *)
(* lists what its name and arguments say: list_add puts the value first    *)
(* and list_add_tail last, a move takes the item it was given to the end   *)
(* it was given, a splice and a cut keep the order of both parts, and each *)
(* of the three sorts leaves the values it found in ascending order.       *)
Held == [h \in Heads |->
               IF h \in stale THEN <<>>
               ELSE LET c == Contents(lists, h) IN [k \in DOMAIN c |-> lists.value[c[k]]]]
TL == INSTANCE TwoLists WITH items <- Held, Values <- Numbers, call <- listCall
ImplementsLists == TL!Spec
=============================================================================
