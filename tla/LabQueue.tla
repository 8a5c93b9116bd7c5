------------------------------ MODULE LabQueue ------------------------------
(***************************************************************************)
(* The singly linked queue of 2021q1_lab0-c/queue.c on an explicit heap of *)
(* list elements.  The program is sequential, so a call is one step; what  *)
(* is hard is the sequence of calls, with failing allocations and elements *)
(* whose memory is reused.                                                 *)
(***************************************************************************)
EXTENDS Naturals, Sequences, FiniteSets, SequencesExt

CONSTANTS Values,       \* strings, as numbers in strcasecmp's order
          NNodes,       \* list elements there is memory for
          AvoidStale    \* the caller adds to an emptied queue at the head only,
                        \* and does not reverse it

ASSUME QueueAssumption == /\ Values \subseteq Nat /\ Values # {} /\ NNodes \in Nat
                          /\ AvoidStale \in BOOLEAN

Nodes == 1 .. NNodes
NULL == 0

VARIABLES exists,               \* is there a queue_t?
          head, last, q_size,   \* its fields
          next, value,          \* the fields of the elements
          alloc,                \* the elements that are allocated
          queueCall             \* the call made last: its name and the string it
                                \* was given or gave back, if any

queue == <<head, last, q_size>>
vars == <<exists, queue, next, value, alloc, queueCall>>

Init == /\ exists = FALSE
        /\ head = NULL /\ last = NULL /\ q_size = 0
        /\ next = [n \in Nodes |-> NULL]
        /\ value = [n \in Nodes |-> CHOOSE v \in Values : TRUE]
        /\ alloc = {}
        /\ queueCall = <<"none">>

\* The i-th element reached from head; NULL past the end.
Reached ==
  LET at[i \in 0 .. NNodes] ==
        IF i = 0 THEN head ELSE IF at[i - 1] = NULL THEN NULL ELSE next[at[i - 1]]
  IN  at

\* The elements of the list in order, when the list ends.
Listed == LET at == Reached
              len == Cardinality({i \in 0 .. NNodes : at[i] # NULL})
          IN  [i \in 1 .. len |-> at[i - 1]]

\* The links of a chain of elements; the others keep theirs.
Chain(s) == [n \in Nodes |->
               IF \E i \in 1 .. Len(s) : s[i] = n
               THEN LET i == CHOOSE j \in 1 .. Len(s) : s[j] = n
                    IN  IF i = Len(s) THEN NULL ELSE s[i + 1]
               ELSE next[n]]

-----------------------------------------------------------------------------
q_new == /\ ~exists
         /\ exists' = TRUE /\ head' = NULL /\ last' = NULL /\ q_size' = 0
         /\ queueCall' = <<"q_new">>
         /\ UNCHANGED <<next, value, alloc>>

\* Walks the list and frees what it meets.
q_free == /\ exists /\ exists' = FALSE
          /\ alloc' = alloc \ ToSet(Listed)
          /\ head' = NULL /\ last' = NULL /\ q_size' = 0
          /\ queueCall' = <<"q_free">>
          /\ UNCHANGED <<next, value>>

\* Both allocations of an insertion succeed.
New(n, v) == /\ exists /\ n \notin alloc
             /\ alloc' = alloc \cup {n}
             /\ value' = [value EXCEPT ![n] = v]
             /\ q_size' = q_size + 1

Insertions == {<<"q_insert_head">>, <<"q_insert_tail">>}

\* mutant: the element is not freed when there is no memory for the string
NoMemoryLeaks ==
  /\ queueCall' \in Insertions
  /\ \/ UNCHANGED alloc
     \/ exists /\ \E n \in Nodes \ alloc : alloc' = alloc \cup {n}
  /\ UNCHANGED <<exists, queue, next, value>>

\* An insertion returns false: there is no queue or no memory for the element, or none
\* for the string when the element has been allocated, which is then freed.
NoMemory ==
  /\ queueCall' \in Insertions
  /\ \/ UNCHANGED alloc
     \/ exists /\ \E n \in Nodes \ alloc : alloc' = (alloc \cup {n}) \ {n}
  /\ UNCHANGED <<exists, queue, next, value>>

InsertHeadKeepsLast(v) ==
  \E n \in Nodes :
     /\ New(n, v)
     /\ next' = [next EXCEPT ![n] = head]
     /\ head' = n
     /\ queueCall' = <<"q_insert_head", v>>
     /\ UNCHANGED <<exists, last>>

q_insert_head(v) ==
  \E n \in Nodes :
     /\ New(n, v)
     /\ next' = [next EXCEPT ![n] = head]
     /\ last' = IF head = NULL THEN n ELSE last
     /\ head' = n
     /\ queueCall' = <<"q_insert_head", v>>
     /\ UNCHANGED exists

\* last is not reset when q_remove_head empties the queue.
Stale == head = NULL /\ last # NULL

q_insert_tail(v) ==
  \E n \in Nodes :
     /\ New(n, v)
     /\ AvoidStale => ~Stale
     /\ last' = n
     /\ IF last = NULL
        THEN head' = n /\ next' = [next EXCEPT ![n] = NULL]
        ELSE next' = [next EXCEPT ![n] = NULL, ![last] = n] /\ UNCHANGED head
     /\ queueCall' = <<"q_insert_tail", v>>
     /\ UNCHANGED exists

q_remove_head ==
  /\ exists /\ head # NULL
  /\ head' = next[head]
  /\ q_size' = q_size - 1
  /\ alloc' = alloc \ {head}
  /\ queueCall' = <<"q_remove_head", value[head]>>
  /\ UNCHANGED <<exists, last, next, value>>

\* Without a queue or with an empty one these two return at once.
NothingThere ==
  /\ ~exists \/ head = NULL
  /\ queueCall' \in {<<"q_remove_head">>, <<"q_sort">>}
  /\ UNCHANGED <<exists, queue, next, value, alloc>>

q_reverse ==
  /\ exists /\ (AvoidStale => ~Stale)
  /\ head' = last /\ last' = head
  /\ next' = Chain(Reverse(Listed))
  /\ queueCall' = <<"q_reverse">>
  /\ UNCHANGED <<exists, q_size, value, alloc>>

-----------------------------------------------------------------------------
(* mergeSort on the list of elements s *)

MergeDropsRest(s, t) ==
  LET m[p \in Seq(Nodes) \X Seq(Nodes)] ==
        LET a == p[1]  b == p[2] IN
        IF a = <<>> \/ b = <<>> THEN <<>>
        ELSE IF value[Head(a)] < value[Head(b)]
             THEN <<Head(a)>> \o m[<<Tail(a), b>>]
             ELSE <<Head(b)>> \o m[<<a, Tail(b)>>]
  IN  m[<<s, t>>]

\* merge takes from the second list when the values are equal, and links the
\* rest of one list behind the other when it runs out.
merge(s, t) ==
  LET m[p \in Seq(Nodes) \X Seq(Nodes)] ==
        LET a == p[1]  b == p[2] IN
        IF a = <<>> THEN b
        ELSE IF b = <<>> THEN a
        ELSE IF value[Head(a)] < value[Head(b)]
             THEN <<Head(a)>> \o m[<<Tail(a), b>>]
             ELSE <<Head(b)>> \o m[<<a, Tail(b)>>]
  IN  m[<<s, t>>]

\* The slow pointer stops at the last element of the first half.
Half(s) == (Len(s) + 1) \div 2

mergeSort[s \in Seq(Nodes)] ==
  IF Len(s) <= 1 THEN s
  ELSE merge(mergeSort[SubSeq(s, 1, Half(s))],
             mergeSort[SubSeq(s, Half(s) + 1, Len(s))])

q_sort ==
  /\ exists /\ head # NULL
  /\ LET sorted == mergeSort[Listed]
     IN  /\ next' = Chain(sorted)
         /\ head' = sorted[1]
         /\ last' = sorted[Len(sorted)]
  /\ queueCall' = <<"q_sort">>
  /\ UNCHANGED <<exists, q_size, value, alloc>>

-----------------------------------------------------------------------------
Next == \/ q_new \/ q_free \/ q_remove_head \/ q_reverse \/ q_sort
        \/ NoMemory \/ NothingThere
        \/ \E v \in Values : q_insert_head(v) \/ q_insert_tail(v)

Spec == Init /\ [][Next]_vars

-----------------------------------------------------------------------------
(* Properties *)

TypeOK == /\ exists \in BOOLEAN
          /\ head \in Nodes \cup {NULL} /\ last \in Nodes \cup {NULL}
          /\ q_size \in 0 .. NNodes
          /\ next \in [Nodes -> Nodes \cup {NULL}]
          /\ value \in [Nodes -> Values]
          /\ alloc \subseteq Nodes

\* queue.h:32: the list ends, has q_size elements, all of them allocated and
\* all different.
ListHasSizeElements ==
  /\ Len(Listed) = q_size
  /\ ToSet(Listed) \subseteq alloc
  /\ IsInjective(Listed)

\* queue.h:33: last is the last element of a queue that is not empty.
LastIsLast == q_size > 0 => last = Listed[Len(Listed)]

\* What holds between any two calls of queue.c: queue.h:31-35.
QueueInv == TypeOK /\ LastIsLast

\* queue.h:45, :53, :62 and :74: every element that is allocated is in the list, whatever
\* q_remove_head and q_free have freed and however many insertions have failed half way.
NoLeak == alloc = ToSet(Listed)

\* What every call does to the linked list is what its name promises of the queue of
\* strings: head and tail insertions put the string they were given at that end,
\* q_remove_head gives back the first string and says that there is none only when the
\* queue is empty, and q_sort leaves the strings it found in ascending order.
Abstract == INSTANCE StringQueue WITH
              items <- [i \in 1 .. Len(Listed) |-> value[Listed[i]]],
              call <- queueCall,
              MaxSize <- NNodes
ImplementsQueue == Abstract!Spec
=============================================================================
