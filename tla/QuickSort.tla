------------------------------- MODULE QuickSort -------------------------------
(***************************************************************************)
(* quicksort_iterative of 2021q1_quiz1/list.c: the sort of a doubly linked *)
(* list in place, with the ranges still to be sorted on two arrays.  The   *)
(* links do not change, so a node is its position in the list.             *)
(***************************************************************************)
EXTENDS Integers, FiniteSets

CONSTANTS Length,        \* nodes in the list
          Keys,          \* their values
          MAX_LEVELS     \* entries of the two arrays

ASSUME SortAssumption == /\ Length \in Nat \ {0} /\ Keys \subseteq Int
                         /\ MAX_LEVELS \in Nat /\ MAX_LEVELS >= Length

Positions == 1 .. Length
PastTail == Length + 1   \* the NULL behind the last node
\* The previous of the first node is never written.
NoPrevious == 0

VARIABLES made,          \* the list as main made it
          key,           \* the value of every node
          level,         \* i
          beg, end,      \* the ranges to be sorted
          tl, tr, pivot,
          doing          \* "level", "fromRight", "fromLeft" or "split"

range == <<beg, end, level>>
sortVars == <<made, key, range, tl, tr, pivot, doing>>

\* The array with one more entry written.
Written(array, k, position) ==
  [j \in DOMAIN array \cup {k} |-> IF j = k THEN position ELSE array[j]]

SortInit ==
  /\ made \in [Positions -> Keys] /\ key = made
  /\ level = 0 /\ beg = [j \in {0} |-> 1] /\ end = [j \in {0} |-> Length]
  /\ tl = 1 /\ tr = Length /\ pivot = made[1] /\ doing = "level"

\* A range of one node, or one behind the tail, is sorted.
Drop ==
  /\ doing = "level" /\ level >= 0
  /\ beg[level] = end[level] \/ beg[level] = PastTail
  /\ level' = level - 1
  /\ UNCHANGED <<made, key, beg, end, tl, tr, pivot, doing>>

\* main passes the count it has counted down to -1, so the return when i is
\* count - 1 is never taken.
Partition ==
  /\ doing = "level" /\ level >= 0
  /\ beg[level] # end[level] /\ beg[level] # PastTail
  /\ tl' = beg[level] /\ tr' = end[level] /\ pivot' = key[beg[level]]
  /\ doing' = "fromRight"
  /\ UNCHANGED <<made, key, range>>

\* Past the values that may stay on the right.
Lower ==
  /\ doing = "fromRight" /\ key[tr] >= pivot /\ tl # tr
  /\ tr' = tr - 1
  /\ UNCHANGED <<made, key, range, tl, pivot, doing>>

FillLeft ==
  /\ doing = "fromRight" /\ ~(key[tr] >= pivot /\ tl # tr)
  /\ IF tl # tr THEN key' = [key EXCEPT ![tl] = key[tr]] /\ tl' = tl + 1
                ELSE UNCHANGED <<key, tl>>
  /\ doing' = "fromLeft"
  /\ UNCHANGED <<made, range, tr, pivot>>

Raise ==
  /\ doing = "fromLeft" /\ key[tl] <= pivot /\ tl # tr
  /\ tl' = tl + 1
  /\ UNCHANGED <<made, key, range, tr, pivot, doing>>

\* mutant: the values are exchanged once
FillRightOnce ==
  /\ doing = "fromLeft" /\ ~(key[tl] <= pivot /\ tl # tr)
  /\ IF tl # tr THEN key' = [key EXCEPT ![tr] = key[tl]] /\ tr' = tr - 1
                ELSE UNCHANGED <<key, tr>>
  /\ doing' = "split"
  /\ UNCHANGED <<made, range, tl, pivot>>

FillRight ==
  /\ doing = "fromLeft" /\ ~(key[tl] <= pivot /\ tl # tr)
  /\ IF tl # tr THEN key' = [key EXCEPT ![tr] = key[tl]] /\ tr' = tr - 1
                ELSE UNCHANGED <<key, tr>>
  /\ doing' = IF tl = tr' THEN "split" ELSE "fromRight"
  /\ UNCHANGED <<made, range, tl, pivot>>

\* mutant: the left range ends before the pivot
SplitBefore ==
  /\ doing = "split"
  /\ key' = [key EXCEPT ![tl] = pivot]
  /\ beg' = Written(beg, level + 1, tl + 1)
  /\ end' = Written(Written(end, level + 1, end[level]), level, tl - 1)
  /\ level' = level + 1 /\ doing' = "level"
  /\ UNCHANGED <<made, tl, tr, pivot>>

\* The left range keeps the pivot as its end.
Split ==
  /\ doing = "split"
  /\ key' = [key EXCEPT ![tl] = pivot]
  /\ beg' = Written(beg, level + 1, tl + 1)
  /\ end' = Written(Written(end, level + 1, end[level]), level, tl)
  /\ level' = level + 1 /\ doing' = "level"
  /\ UNCHANGED <<made, tl, tr, pivot>>

SortNext == \/ Drop \/ Partition \/ Lower \/ FillLeft \/ Raise \/ FillRight \/ Split

SortSpec == SortInit /\ [][SortNext]_sortVars

-----------------------------------------------------------------------------
(* Properties *)

\* The types of the variables; no pointer is the previous of the first node.
SortTypeOK ==
  /\ made \in [Positions -> Keys] /\ key \in [Positions -> Keys] /\ pivot \in Keys
  /\ level \in -1 .. Length
  /\ tl \in Positions /\ tr \in Positions
  /\ doing \in {"level", "fromRight", "fromLeft", "split"}

\* quicksort_iterative never follows a link out of the range it sorts, where
\* the first node's previous is uninitialised, and never writes past the end of
\* its arrays: a range that starts behind its own end would send tr the wrong
\* way, and only because the left range keeps its pivot is there none.
StaysInside ==
  /\ level < MAX_LEVELS
  /\ \A j \in 0 .. level :
       \/ beg[j] = PastTail
       \/ 1 <= beg[j] /\ beg[j] <= end[j] /\ end[j] <= Length
  /\ doing # "level" => beg[level] <= tl /\ tl <= tr /\ tr <= end[level]

\* list.c:153: when the loop ends the list is ordered, and it holds every value
\* as often as before, although the partition keeps one of them in pivot only.
SortsInPlace ==
  level < 0 =>
    /\ \A a, b \in Positions : a <= b => key[a] <= key[b]
    /\ \A k \in Keys : Cardinality({p \in Positions : key[p] = k})
                       = Cardinality({p \in Positions : made[p] = k})
=============================================================================
