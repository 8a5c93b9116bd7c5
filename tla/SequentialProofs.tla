--------------------------- MODULE SequentialProofs ---------------------------
(***************************************************************************)
(* The programs of one thread whose calls can come in any order or number: *)
(* the queue of lab0-c, quicksort_iterative of quiz1, and the console of   *)
(* qtest, for any number of elements, values, scripts, lines and errors.   *)
(*                                                                         *)
(* The queue.  The invariant says that head and next make a list of the    *)
(* elements s (ListIs), the allocated ones, and that the fields of queue_t *)
(* agree with s (Holds); each operation makes a known sequence t of s.     *)
(* What merge and mergeSort compute is by induction over the lists, which  *)
(* the provers do not have: instead, a recursion whose calls are on        *)
(* smaller arguments has a solution (RecursionDefines), and where          *)
(* something about it is wrong there is a smallest argument where it is    *)
(* (FirstBad).                                                             *)
(*                                                                         *)
(* The sort.  A partition keeps its pivot outside the list and leaves a    *)
(* hole, so what is sorted is the list with the pivot put back (Whole),    *)
(* and every step exchanges two of its values or none.  The ranges on the  *)
(* arrays follow one another (Ranges), each but the last ends with a value *)
(* that is in its place (Pivots), and what is behind the last is sorted    *)
(* (Sorted).  Because the end of a range is at least as large as all of    *)
(* it, a partition never stops there (Cursors): the next range cannot      *)
(* start behind its own end, and the arrays are never longer than the list.*)
(*                                                                         *)
(* The console.  quit_flag is all that stands between a line and the       *)
(* command list that quit has freed.  It is set whenever the list is, or   *)
(* the limit is passed, by whichever command of whichever input (Limits);  *)
(* and who quits without an error leaves the answer of the helper to the   *)
(* exit status (Status).                                                   *)
(* The order of its lines: a script sources only later ones, so FlattenSeq *)
(* has a value (Flat); and the rest of the open files, the last opened     *)
(* first (Due), is all that a flattened script has and the executed lines  *)
(* do not (Order).                                                         *)
(***************************************************************************)
EXTENDS LabQueue, QuickSort, Console, FiniteSetTheorems, WellFoundedInduction,
        SequenceTheorems, TLAPS

-----------------------------------------------------------------------------
(* Recursion *)

\* A set of numbers has a least one.
LEMMA LeastNumber ==
  ASSUME NEW T, T \subseteq Nat, T # {}
  PROVE  \E x \in T : \A y \in T : x <= y
<1>1. PICK x \in T : \A y \in T : ~ (<<y, x>> \in OpToRel(<, Nat))
  BY WFMin, NatLessThanWellFounded
<1>2. ASSUME NEW y \in T PROVE x <= y
  <2>1. ~ (y < x)
    BY <1>1 DEF OpToRel
  <2> QED
    BY <2>1
<1> QED
  BY <1>2

\* A recursion from D to C whose calls are smaller in the measure mu.  B is its body: the
\* function that it makes of g.
Recursion(D, C, mu, B) ==
  /\ C # {} /\ mu \in [D -> Nat] /\ B \in [[D -> C] -> [D -> C]]
  /\ \A g, h \in [D -> C], x \in D :
       (\A y \in D : mu[y] < mu[x] => g[y] = h[y]) => B[g][x] = B[h][x]

\* It defines a function.
LEMMA RecursionDefines ==
  ASSUME NEW D, NEW C, NEW mu, NEW B, Recursion(D, C, mu, B)
  PROVE  \E f \in [D -> C] : f = B[f]
<1> USE DEF Recursion
<1> DEFINE Good(n) == {g \in [D -> C] : \A x \in D : mu[x] < n => g[x] = B[g][x]}
           Bad == {n \in Nat : Good(n) = {}}
\* two that are right so far agree so far
<1>1. ASSUME NEW n \in Nat, NEW m \in Nat, NEW g \in Good(n), NEW h \in Good(m), NEW x \in D,
             mu[x] < n, mu[x] < m
      PROVE  g[x] = h[x]
  <2> DEFINE T == {mu[y] : y \in {z \in D : mu[z] < n /\ mu[z] < m /\ g[z] # h[z]}}
  <2> SUFFICES ASSUME g[x] # h[x] PROVE FALSE
    OBVIOUS
  <2>0. mu[x] \in T
    BY <1>1
  <2>1. PICK k \in T : \A l \in T : k <= l
    <3>1. T \subseteq Nat
      OBVIOUS
    <3> HIDE DEF T
    <3> QED
      BY <2>0, <3>1, LeastNumber
  <2>2. PICK y \in D : mu[y] < n /\ mu[y] < m /\ g[y] # h[y] /\ k = mu[y]
    BY <2>1
  <2>3. \A z \in D : mu[z] < mu[y] => g[z] = h[z]
    <3>1. SUFFICES ASSUME NEW z \in D, mu[z] < mu[y], g[z] # h[z] PROVE FALSE
      OBVIOUS
    <3>2. mu[z] \in Nat /\ mu[y] \in Nat
      OBVIOUS
    <3>3. mu[z] < n /\ mu[z] < m
      BY <2>2, <3>1, <3>2
    <3>4. mu[z] \in T
      BY <3>1, <3>3
    <3>5. k <= mu[z]
      BY <2>1, <3>4
    <3> HIDE DEF T, Good
    <3> QED
      BY <2>2, <3>1, <3>2, <3>5
  <2>4. B[g][y] = B[h][y]
    BY <2>3
  <2> QED
    BY <2>2, <2>4
<1>2. ASSUME NEW n \in Nat PROVE Good(n) # {}
  <2> SUFFICES ASSUME Good(n) = {} PROVE FALSE
    OBVIOUS
  <2>0. n \in Bad
    OBVIOUS
  <2>1. PICK k \in Bad : \A l \in Bad : k <= l
    <3>1. Bad \subseteq Nat
      OBVIOUS
    <3> HIDE DEF Bad
    <3> QED
      BY <2>0, <3>1, LeastNumber
  <2>2. k # 0
    <3>1. PICK c \in C : TRUE
      OBVIOUS
    <3>2. [x \in D |-> c] \in Good(0)
      BY <3>1
    <3> QED
      BY <3>2
  <2>3. k - 1 \in Nat /\ k \in Nat
    BY <2>2
  <2>4. PICK g : g \in Good(k - 1)
    <3>1. k - 1 \notin Bad
      BY <2>1, <2>3
    <3> QED
      BY <2>3, <3>1
  <2> DEFINE h == B[g]
  <2>5. h \in [D -> C] /\ g \in [D -> C]
    BY <2>4
  <2>6. ASSUME NEW x \in D, mu[x] < k PROVE h[x] = B[h][x]
    <3>1. ASSUME NEW y \in D, mu[y] < mu[x] PROVE g[y] = h[y]
      <4>1. mu[y] < k - 1
        <5>1. mu[y] \in Nat /\ mu[x] \in Nat
          OBVIOUS
        <5> QED
          BY <2>3, <2>6, <3>1, <5>1
      <4> QED
        BY <2>4, <4>1
    <3> HIDE DEF h, Good
    <3>2. B[g][x] = B[h][x]
      BY <2>5, <2>6, <3>1
    <3> QED
      BY <3>2 DEF h
  <2>7. h \in Good(k)
    BY <2>5, <2>6
  <2> QED
    BY <2>1, <2>7
<1> DEFINE G(n) == CHOOSE g : g \in Good(n)
           f == [x \in D |-> G(mu[x] + 1)[x]]
<1>3. ASSUME NEW n \in Nat PROVE G(n) \in Good(n)
  BY <1>2
<1>4. f \in [D -> C]
  <2>1. ASSUME NEW x \in D PROVE G(mu[x] + 1)[x] \in C
    <3>1. mu[x] + 1 \in Nat
      OBVIOUS
    <3>2. G(mu[x] + 1) \in [D -> C]
      BY <1>3, <3>1
    <3> HIDE DEF G
    <3> QED
      BY <3>2
  <2> HIDE DEF G
  <2> QED
    BY <2>1
<1>5. ASSUME NEW x \in D PROVE f[x] = B[f][x]
  <2> DEFINE g == G(mu[x] + 1)
  <2>1. mu[x] + 1 \in Nat /\ mu[x] \in Nat
    OBVIOUS
  <2>2. g \in Good(mu[x] + 1)
    BY <1>3, <2>1
  <2>3. g \in [D -> C] /\ g[x] = B[g][x]
    BY <2>1, <2>2
  <2>4. ASSUME NEW y \in D, mu[y] < mu[x] PROVE g[y] = f[y]
    <3>1. mu[y] + 1 \in Nat /\ mu[y] < mu[y] + 1 /\ mu[y] < mu[x] + 1
      <4>1. mu[y] \in Nat
        OBVIOUS
      <4> QED
        BY <2>1, <2>4, <4>1
    <3>2. G(mu[y] + 1) \in Good(mu[y] + 1)
      BY <1>3, <3>1
    <3>3. f[y] = G(mu[y] + 1)[y]
      OBVIOUS
    <3> HIDE DEF G, Good, g
    <3>4. g[y] = G(mu[y] + 1)[y]
      BY <1>1, <2>1, <2>2, <3>1, <3>2
    <3> QED
      BY <3>3, <3>4
  <2>5. f[x] = g[x]
    OBVIOUS
  <2> HIDE DEF f, g
  <2>6. B[g][x] = B[f][x]
    BY <1>4, <2>3, <2>4
  <2> QED
    BY <2>3, <2>5, <2>6
<1>6. f = B[f]
  <2> HIDE DEF f
  <2>1. B[f] \in [D -> C]
    BY <1>4
  <2> QED
    BY <1>4, <1>5, <2>1
<1> HIDE DEF f
<1> QED
  BY <1>4, <1>6

-----------------------------------------------------------------------------
(* The list in the heap *)

Injective(s) == \A i, j \in 1 .. Len(s) : s[i] = s[j] => i = j

\* The list of the queue has the elements s.
ListIs(s) ==
  /\ s \in Seq(Nodes) /\ Injective(s)
  /\ head = IF s = <<>> THEN NULL ELSE s[1]
  /\ \A i \in 1 .. Len(s) : next[s[i]] = IF i = Len(s) THEN NULL ELSE s[i + 1]

\* A chain without repetition is no longer than the memory.
LEMMA NoLonger ==
  ASSUME NEW s \in Seq(Nodes), Injective(s)
  PROVE  Len(s) \in 0 .. NNodes
<1>1. s \in Injection(1 .. Len(s), Nodes)
  BY DEF Injective, Injection, IsInjective
<1>2. IsFiniteSet(Nodes) /\ Cardinality(Nodes) = NNodes
  BY FS_Interval, QueueAssumption DEF Nodes
<1>3. Len(s) \in Nat /\ Cardinality(1 .. Len(s)) = Len(s)
  <2>1. PICK n \in Nat : n = Len(s)
    OBVIOUS
  <2>2. 1 \in Int /\ n \in Int
    OBVIOUS
  <2>3. Cardinality(1 .. n) = IF 1 > n THEN 0 ELSE n - 1 + 1
    BY ONLY <2>2, FS_Interval
  <2> QED
    BY <2>1, <2>3
<1>4. Cardinality(1 .. Len(s)) <= NNodes
  BY <1>1, <1>2, FS_Injection
<1> QED
  BY <1>3, <1>4, QueueAssumption

\* What a walk along next meets.
LEMMA ReachedIs ==
  ASSUME NEW s, ListIs(s)
  PROVE  Reached = [i \in 0 .. NNodes |-> IF i < Len(s) THEN s[i + 1] ELSE NULL]
<1> DEFINE D == 0 .. NNodes
           f == [i \in D |-> IF i < Len(s) THEN s[i + 1] ELSE NULL]
           Body(g, i) == IF i = 0 THEN head ELSE IF g[i - 1] = NULL THEN NULL ELSE next[g[i - 1]]
<1>1. /\ Len(s) \in Nat /\ Len(s) <= NNodes /\ NNodes \in Nat
      /\ \A i \in 1 .. Len(s) : s[i] \in Nodes /\ s[i] # NULL
  BY NoLonger, QueueAssumption DEF ListIs, Nodes, NULL
<1>2. \A i \in D : f[i] = Body(f, i)
  <2> SUFFICES ASSUME NEW i \in D PROVE f[i] = Body(f, i)
    OBVIOUS
  <2>1. CASE i = 0
    BY <1>1, <2>1 DEF ListIs
  <2>2. CASE i # 0
    <3>1. i - 1 \in D /\ i \in Nat
      BY <1>1, <2>2
    <3>2. f[i - 1] = IF i - 1 < Len(s) THEN s[i] ELSE NULL
      BY <3>1
    <3> QED
      BY <1>1, <2>2, <3>1, <3>2 DEF ListIs
  <2> QED
    BY <2>1, <2>2
<1>3. f = [i \in D |-> Body(f, i)]
  BY <1>2
<1>4. Reached = CHOOSE g : g = [i \in D |-> Body(g, i)]
  BY DEF Reached
<1>5. PICK g : g = Reached /\ g = [i \in D |-> Body(g, i)]
  <2> HIDE DEF f, D
  <2>1. \E g : g = [i \in D |-> Body(g, i)]
    BY <1>3
  <2>2. Reached = [i \in D |-> Body(Reached, i)]
    BY <1>4, <2>1
  <2> HIDE DEF Body
  <2> QED
    BY <2>2
<1>6. ASSUME NEW n \in D, g[n] # f[n] PROVE FALSE
  <2> DEFINE T == {i \in D : g[i] # f[i]}
  <2>1. PICK k \in T : \A l \in T : k <= l
    <3>1. T \subseteq Nat
      BY <1>1
    <3>2. n \in T
      BY <1>6
    <3> HIDE DEF T
    <3> QED
      BY <3>1, <3>2, LeastNumber
  <2>2. k \in D /\ g[k] # f[k] /\ g[k] = Body(g, k) /\ f[k] = Body(f, k)
    <3>1. k \in D /\ g[k] # f[k]
      BY <2>1
    <3> HIDE DEF D, f, T, Body
    <3>2. f[k] = Body(f, k)
      BY <1>2, <3>1
    <3>3. g[k] = Body(g, k)
      BY <1>5, <3>1
    <3> QED
      BY <3>1, <3>2, <3>3
  <2>3. k # 0
    BY <2>2
  <2>4. k - 1 \in D /\ k - 1 \notin T
    BY <1>1, <2>1, <2>2, <2>3
  <2>5. g[k - 1] = f[k - 1]
    BY <2>4
  <2> QED
    BY <2>2, <2>3, <2>5
<1> QED
  BY <1>5, <1>6

\* Listed is that list.
LEMMA ListedIs ==
  ASSUME NEW s, ListIs(s)
  PROVE  Listed = s
<1> DEFINE at == [i \in 0 .. NNodes |-> IF i < Len(s) THEN s[i + 1] ELSE NULL]
<1>1. /\ Len(s) \in Nat /\ Len(s) <= NNodes /\ NNodes \in Nat
      /\ \A i \in 1 .. Len(s) : s[i] \in Nodes /\ s[i] # NULL
  BY NoLonger, QueueAssumption DEF ListIs, Nodes, NULL
<1>2. {i \in 0 .. NNodes : at[i] # NULL} = 0 .. Len(s) - 1
  BY <1>1
<1>3. Cardinality(0 .. Len(s) - 1) = Len(s)
  <2>1. PICK n \in Nat : n = Len(s)
    BY <1>1
  <2>2. 0 \in Int /\ n - 1 \in Int
    OBVIOUS
  <2>3. Cardinality(0 .. n - 1) = IF 0 > n - 1 THEN 0 ELSE n - 1 - 0 + 1
    BY ONLY <2>2, FS_Interval
  <2> QED
    BY <2>1, <2>3
<1>4. Listed = [i \in 1 .. Len(s) |-> at[i - 1]]
  <2>1. Reached = at
    BY ReachedIs
  <2> HIDE DEF at
  <2>2. Listed = [i \in 1 .. Cardinality({j \in 0 .. NNodes : at[j] # NULL}) |-> at[i - 1]]
    BY <2>1 DEF Listed
  <2> QED
    BY <1>2, <1>3, <2>2
<1>5. ASSUME NEW i \in 1 .. Len(s) PROVE at[i - 1] = s[i]
  BY <1>1
<1>6. s = [i \in 1 .. Len(s) |-> s[i]]
  BY DEF ListIs
<1> QED
  BY <1>4, <1>5, <1>6

\* Chaining some elements makes them the list.
LEMMA ChainLinks ==
  ASSUME NEW t \in Seq(Nodes), Injective(t)
  PROVE  \A i \in 1 .. Len(t) : Chain(t)[t[i]] = IF i = Len(t) THEN NULL ELSE t[i + 1]
<1> SUFFICES ASSUME NEW i \in 1 .. Len(t)
             PROVE  Chain(t)[t[i]] = IF i = Len(t) THEN NULL ELSE t[i + 1]
  OBVIOUS
<1>1. t[i] \in Nodes
  OBVIOUS
<1>2. (CHOOSE j \in 1 .. Len(t) : t[j] = t[i]) = i
  BY DEF Injective
<1> QED
  BY <1>1, <1>2 DEF Chain

\* Linking elements anew keeps next a field of every element.
LEMMA ChainTypes ==
  ASSUME NEW t \in Seq(Nodes), next \in [Nodes -> Nodes \cup {NULL}]
  PROVE  Chain(t) \in [Nodes -> Nodes \cup {NULL}]
<1> SUFFICES ASSUME NEW n \in Nodes, NEW i \in 1 .. Len(t), i = CHOOSE j \in 1 .. Len(t) : t[j] = n
             PROVE  (IF i = Len(t) THEN NULL ELSE t[i + 1]) \in Nodes \cup {NULL}
  BY DEF Chain
<1> QED
  OBVIOUS

-----------------------------------------------------------------------------
(* The merge sort *)

\* Where something goes wrong, it goes wrong first somewhere.
LEMMA FirstBad ==
  ASSUME NEW D, NEW mu \in [D -> Nat], NEW E \in SUBSET D, E # {}
  PROVE  \E x \in E : \A y \in D : mu[y] < mu[x] => y \notin E
<1> DEFINE T == {mu[x] : x \in E}
<1>1. T \subseteq Nat /\ T # {}
  OBVIOUS
<1>2. PICK k \in T : \A l \in T : k <= l
  <2> HIDE DEF T
  <2> QED
    BY <1>1, LeastNumber
<1>3. PICK x \in E : k = mu[x]
  BY <1>2
<1>4. ASSUME NEW y \in E, mu[y] < mu[x] PROVE FALSE
  <2>1. mu[y] \in T /\ mu[y] \in Nat /\ mu[x] \in Nat
    OBVIOUS
  <2>2. k <= mu[y]
    BY <1>2, <2>1
  <2> QED
    BY <1>3, <1>4, <2>1, <2>2
<1> QED
  BY <1>4

\* A sequence that is not empty, taken apart.
LEMMA HeadAndTail ==
  ASSUME NEW S, NEW s \in Seq(S), s # <<>>
  PROVE  /\ Head(s) \in S /\ Head(s) = s[1] /\ Tail(s) \in Seq(S) /\ Len(s) \in Nat \ {0}
         /\ Len(Tail(s)) = Len(s) - 1 /\ \A i \in 1 .. Len(Tail(s)) : Tail(s)[i] = s[i + 1]
OBVIOUS

\* One element in front of a sequence.
LEMMA InFront ==
  ASSUME NEW S, NEW x \in S, NEW s \in Seq(S)
  PROVE  /\ <<x>> \o s \in Seq(S) /\ Len(<<x>> \o s) = Len(s) + 1 /\ (<<x>> \o s)[1] = x
         /\ \A i \in 1 .. Len(s) : (<<x>> \o s)[i + 1] = s[i]
<1>1. <<x>> \in Seq(S) /\ Len(<<x>>) = 1
  OBVIOUS
<1> QED
  BY <1>1

Pairs == Seq(Nodes) \X Seq(Nodes)
Both == [p \in Pairs |-> Len(p[1]) + Len(p[2])]

\* The body of merge.
MergeBody(m, p) ==
  IF p[1] = <<>> THEN p[2]
  ELSE IF p[2] = <<>> THEN p[1]
  ELSE IF value[Head(p[1])] < value[Head(p[2])]
       THEN <<Head(p[1])>> \o m[<<Tail(p[1]), p[2]>>]
       ELSE <<Head(p[2])>> \o m[<<p[1], Tail(p[2])>>]

\* What merge and mergeSort are called with has a size.
LEMMA BothIsNat == Both \in [Pairs -> Nat]
<1> SUFFICES ASSUME NEW p \in Pairs PROVE Len(p[1]) + Len(p[2]) \in Nat
  BY DEF Both
<1>1. p[1] \in Seq(Nodes) /\ p[2] \in Seq(Nodes)
  BY DEF Pairs
<1>2. PICK m \in Nat, n \in Nat : m = Len(p[1]) /\ n = Len(p[2])
  BY <1>1
<1>3. m + n \in Nat
  OBVIOUS
<1> QED
  BY <1>2, <1>3

\* The calls of merge are on shorter lists.
LEMMA MergeCalls ==
  ASSUME NEW p \in Pairs, p[1] # <<>>, p[2] # <<>>
  PROVE  /\ <<Tail(p[1]), p[2]>> \in Pairs /\ Both[<<Tail(p[1]), p[2]>>] < Both[p]
         /\ <<p[1], Tail(p[2])>> \in Pairs /\ Both[<<p[1], Tail(p[2])>>] < Both[p]
         /\ Head(p[1]) \in Nodes /\ Head(p[2]) \in Nodes
<1>1. p[1] \in Seq(Nodes) /\ p[2] \in Seq(Nodes)
  BY DEF Pairs
<1>2. /\ Tail(p[1]) \in Seq(Nodes) /\ Tail(p[2]) \in Seq(Nodes)
      /\ Len(Tail(p[1])) = Len(p[1]) - 1 /\ Len(Tail(p[2])) = Len(p[2]) - 1
      /\ Head(p[1]) \in Nodes /\ Head(p[2]) \in Nodes
  BY <1>1, HeadAndTail
<1>3. Len(p[1]) \in Nat /\ Len(p[2]) \in Nat
  BY <1>1
<1>4. /\ <<Tail(p[1]), p[2]>> \in Pairs /\ <<p[1], Tail(p[2])>> \in Pairs
  BY <1>1, <1>2 DEF Pairs
<1>5. /\ Both[p] = Len(p[1]) + Len(p[2])
      /\ Both[<<Tail(p[1]), p[2]>>] = Len(Tail(p[1])) + Len(p[2])
      /\ Both[<<p[1], Tail(p[2])>>] = Len(p[1]) + Len(Tail(p[2]))
  BY <1>4 DEF Both
<1>6. PICK m \in Nat, n \in Nat : m = Len(p[1]) /\ n = Len(p[2])
  BY <1>3
<1>7. m - 1 + n < m + n /\ m + (n - 1) < m + n
  OBVIOUS
<1> QED
  BY <1>2, <1>4, <1>5, <1>6, <1>7

\* There is a function that does what the body of merge says.
LEMMA MergeRecursion ==
  \E m \in [Pairs -> Seq(Nodes)] : m = [p \in Pairs |-> MergeBody(m, p)]
<1> DEFINE F == [Pairs -> Seq(Nodes)]
           B == [g \in F |-> [p \in Pairs |-> MergeBody(g, p)]]
<1>1. B \in [F -> F]
  <2> SUFFICES ASSUME NEW g \in F, NEW p \in Pairs PROVE MergeBody(g, p) \in Seq(Nodes)
    OBVIOUS
  <2>1. p[1] \in Seq(Nodes) /\ p[2] \in Seq(Nodes)
    BY DEF Pairs
  <2>2. CASE p[1] = <<>> \/ p[2] = <<>>
    BY <2>1, <2>2 DEF MergeBody
  <2>3. CASE p[1] # <<>> /\ p[2] # <<>>
    <3>1. /\ Head(p[1]) \in Nodes /\ Head(p[2]) \in Nodes
          /\ g[<<Tail(p[1]), p[2]>>] \in Seq(Nodes) /\ g[<<p[1], Tail(p[2])>>] \in Seq(Nodes)
      BY <2>3, MergeCalls
    <3>2. /\ <<Head(p[1])>> \o g[<<Tail(p[1]), p[2]>>] \in Seq(Nodes)
          /\ <<Head(p[2])>> \o g[<<p[1], Tail(p[2])>>] \in Seq(Nodes)
      BY <3>1, InFront
    <3> QED
      BY <2>3, <3>2 DEF MergeBody
  <2> QED
    BY <2>2, <2>3
<1>2. ASSUME NEW g \in F, NEW h \in F, NEW p \in Pairs,
             \A q \in Pairs : Both[q] < Both[p] => g[q] = h[q]
      PROVE  B[g][p] = B[h][p]
  <2>1. MergeBody(g, p) = MergeBody(h, p)
    BY <1>2, MergeCalls DEF MergeBody
  <2> QED
    BY <2>1
<1>3. Seq(Nodes) # {}
  <2>1. <<>> \in Seq(Nodes)
    OBVIOUS
  <2> QED
    BY <2>1
<1> HIDE DEF B
<1>4. \A g, h \in [Pairs -> Seq(Nodes)], p \in Pairs :
        (\A q \in Pairs : Both[q] < Both[p] => g[q] = h[q]) => B[g][p] = B[h][p]
  BY <1>2
<1>5. B \in [[Pairs -> Seq(Nodes)] -> [Pairs -> Seq(Nodes)]]
  BY <1>1
<1> HIDE DEF F
<1>6. Recursion(Pairs, Seq(Nodes), Both, B)
  BY <1>3, <1>4, <1>5, BothIsNat DEF Recursion
<1>7. \E m \in [Pairs -> Seq(Nodes)] : m = B[m]
  BY <1>6, RecursionDefines
<1> QED
  BY <1>7 DEF B, F

\* merge does what its body says.
LEMMA MergeIs ==
  ASSUME NEW s \in Seq(Nodes), NEW t \in Seq(Nodes)
  PROVE  /\ merge(s, t) \in Seq(Nodes)
         /\ s = <<>> => merge(s, t) = t
         /\ s # <<>> /\ t = <<>> => merge(s, t) = s
         /\ s # <<>> /\ t # <<>> =>
              merge(s, t) = IF value[Head(s)] < value[Head(t)]
                            THEN <<Head(s)>> \o merge(Tail(s), t)
                            ELSE <<Head(t)>> \o merge(s, Tail(t))
<1> DEFINE M == CHOOSE m : m = [p \in Pairs |-> MergeBody(m, p)]
<1>1. ASSUME NEW a, NEW b PROVE merge(a, b) = M[<<a, b>>]
  BY DEF merge, MergeBody, Pairs
<1>2. PICK f \in [Pairs -> Seq(Nodes)] : f = [p \in Pairs |-> MergeBody(f, p)]
  BY MergeRecursion
<1>3. M = [p \in Pairs |-> MergeBody(M, p)]
  BY <1>2
<1> HIDE DEF M
<1>4. ASSUME NEW q \in Pairs PROVE M[q] = f[q]
  <2> DEFINE E == {p \in Pairs : M[p] # f[p]}
  <2> SUFFICES ASSUME E # {} PROVE FALSE
    OBVIOUS
  <2>1. PICK p \in E : \A r \in Pairs : Both[r] < Both[p] => r \notin E
    <3>1. E \in SUBSET Pairs
      OBVIOUS
    <3> HIDE DEF E
    <3> QED
      BY <3>1, FirstBad, BothIsNat
  <2>2. p \in Pairs /\ M[p] # f[p] /\ M[p] = MergeBody(M, p) /\ f[p] = MergeBody(f, p)
    <3>1. p \in Pairs /\ M[p] # f[p]
      BY <2>1
    <3> HIDE DEF E
    <3> QED
      BY <1>2, <1>3, <3>1
  <2>3. \A r \in Pairs : Both[r] < Both[p] => M[r] = f[r]
    BY <2>1
  <2> HIDE DEF E
  <2>4. MergeBody(M, p) = MergeBody(f, p)
    BY <2>2, <2>3, MergeCalls DEF MergeBody
  <2> QED
    BY <2>2, <2>4
<1>5. <<s, t>> \in Pairs
  BY DEF Pairs
<1>6. M[<<s, t>>] = MergeBody(M, <<s, t>>) /\ M[<<s, t>>] \in Seq(Nodes)
  BY <1>3, <1>4, <1>5
<1> QED
  BY <1>1, <1>6 DEF MergeBody

Elements(s) == {s[i] : i \in 1 .. Len(s)}
Ordered(s) == \A i, j \in 1 .. Len(s) : i <= j => value[s[i]] <= value[s[j]]

\* One more element in front of a list, and no larger than the list.
LEMMA FrontAdds ==
  ASSUME NEW x \in Nodes, NEW s \in Seq(Nodes), value \in [Nodes -> Nat]
  PROVE  /\ Elements(<<x>> \o s) = {x} \cup Elements(s)
         /\ Ordered(s) /\ (\A y \in Elements(s) : value[x] <= value[y]) => Ordered(<<x>> \o s)
<1> DEFINE t == <<x>> \o s
<1>1. t \in Seq(Nodes) /\ Len(t) = Len(s) + 1 /\ t[1] = x /\ \A i \in 1 .. Len(s) : t[i + 1] = s[i]
  BY InFront
<1> HIDE DEF t
<1>2. Len(s) \in Nat
  OBVIOUS
<1>3. \A i \in 1 .. Len(t) : i = 1 \/ (i - 1 \in 1 .. Len(s) /\ t[i] = s[i - 1])
  <2> SUFFICES ASSUME NEW i \in 1 .. Len(t), i # 1 PROVE i - 1 \in 1 .. Len(s) /\ t[i] = s[i - 1]
    OBVIOUS
  <2>1. i - 1 \in 1 .. Len(s) /\ (i - 1) + 1 = i
    BY <1>1, <1>2
  <2> QED
    BY <1>1, <2>1
<1>4. Elements(t) = {x} \cup Elements(s)
  <2>1. ASSUME NEW y \in Elements(t) PROVE y \in {x} \cup Elements(s)
    <3>1. PICK i \in 1 .. Len(t) : y = t[i]
      BY <2>1 DEF Elements
    <3> QED
      BY <1>1, <1>3, <3>1 DEF Elements
  <2>2. ASSUME NEW y \in Elements(s) PROVE y \in Elements(t)
    <3>1. PICK i \in 1 .. Len(s) : y = s[i]
      BY DEF Elements
    <3>2. i + 1 \in 1 .. Len(t) /\ t[i + 1] = y
      BY <1>1, <1>2, <3>1
    <3> QED
      BY <3>2 DEF Elements
  <2>3. x \in Elements(t)
    <3>1. 1 \in 1 .. Len(t)
      BY <1>1, <1>2
    <3> QED
      BY <1>1, <3>1 DEF Elements
  <2> QED
    BY <2>1, <2>2, <2>3
<1>5. ASSUME Ordered(s), \A y \in Elements(s) : value[x] <= value[y] PROVE Ordered(t)
  <2> SUFFICES ASSUME NEW i \in 1 .. Len(t), NEW j \in 1 .. Len(t), i <= j
               PROVE  value[t[i]] <= value[t[j]]
    BY DEF Ordered
  <2>1. CASE i = 1 /\ j = 1
    <3>1. value[x] \in Nat
      OBVIOUS
    <3> QED
      BY <1>1, <2>1, <3>1
  <2>2. CASE i = 1 /\ j # 1
    <3>1. t[j] \in Elements(s)
      BY <1>3, <2>2 DEF Elements
    <3> QED
      BY <1>1, <1>5, <2>2, <3>1
  <2>3. CASE i # 1
    <3>1. i - 1 \in 1 .. Len(s) /\ t[i] = s[i - 1] /\ j - 1 \in 1 .. Len(s) /\ t[j] = s[j - 1]
      BY <1>3, <2>3
    <3>2. i - 1 <= j - 1
      OBVIOUS
    <3> QED
      BY <1>5, <3>1, <3>2 DEF Ordered
  <2> QED
    BY <2>1, <2>2, <2>3
<1> QED
  BY <1>4, <1>5 DEF t

\* A list without its first element.
LEMMA TailLeaves ==
  ASSUME NEW s \in Seq(Nodes), s # <<>>
  PROVE  /\ Elements(s) = {Head(s)} \cup Elements(Tail(s))
         /\ Ordered(s) => /\ Ordered(Tail(s))
                          /\ \A y \in Elements(s) : value[Head(s)] <= value[y]
<1> DEFINE t == Tail(s)
<1>1. /\ Head(s) = s[1] /\ t \in Seq(Nodes) /\ Len(s) \in Nat \ {0}
      /\ Len(t) = Len(s) - 1 /\ \A i \in 1 .. Len(t) : t[i] = s[i + 1]
  BY HeadAndTail
<1> HIDE DEF t
<1>2. \A i \in 1 .. Len(s) : i = 1 \/ (i - 1 \in 1 .. Len(t) /\ s[i] = t[i - 1])
  <2> SUFFICES ASSUME NEW i \in 1 .. Len(s), i # 1 PROVE i - 1 \in 1 .. Len(t) /\ s[i] = t[i - 1]
    OBVIOUS
  <2>1. i - 1 \in 1 .. Len(t) /\ (i - 1) + 1 = i
    BY <1>1
  <2> QED
    BY <1>1, <2>1
<1>3. \A i \in 1 .. Len(t) : i + 1 \in 1 .. Len(s)
  BY <1>1
<1>4. 1 \in 1 .. Len(s)
  BY <1>1
<1>5. Elements(s) = {s[1]} \cup Elements(t)
  <2>1. \A y \in Elements(s) : y \in {s[1]} \cup Elements(t)
    BY <1>2 DEF Elements
  <2>2. \A y \in Elements(t) : y \in Elements(s)
    BY <1>1, <1>3 DEF Elements
  <2>3. s[1] \in Elements(s)
    BY <1>4 DEF Elements
  <2> QED
    BY <2>1, <2>2, <2>3
<1>6. ASSUME Ordered(s) PROVE Ordered(t) /\ \A y \in Elements(s) : value[s[1]] <= value[y]
  <2>1. \A y \in Elements(s) : value[s[1]] <= value[y]
    <3>1. \A j \in 1 .. Len(s) : value[s[1]] <= value[s[j]]
      BY <1>4, <1>6 DEF Ordered
    <3> QED
      BY <3>1 DEF Elements
  <2>2. ASSUME NEW i \in 1 .. Len(t), NEW j \in 1 .. Len(t), i <= j PROVE value[t[i]] <= value[t[j]]
    <3>1. i + 1 \in 1 .. Len(s) /\ j + 1 \in 1 .. Len(s) /\ i + 1 <= j + 1
      BY <1>3, <2>2
    <3> QED
      BY <1>1, <1>6, <3>1 DEF Ordered
  <2> QED
    BY <2>1, <2>2 DEF Ordered
<1> QED
  BY <1>1, <1>5, <1>6 DEF t

\* merge keeps every element of both lists, and their order by value.
LEMMA Merges ==
  ASSUME value \in [Nodes -> Nat], NEW s \in Seq(Nodes), NEW t \in Seq(Nodes)
  PROVE  /\ merge(s, t) \in Seq(Nodes)
         /\ Len(merge(s, t)) = Len(s) + Len(t)
         /\ Elements(merge(s, t)) = Elements(s) \cup Elements(t)
         /\ Ordered(s) /\ Ordered(t) => Ordered(merge(s, t))
<1> DEFINE Right(a, b) == /\ Len(merge(a, b)) = Len(a) + Len(b)
                          /\ Elements(merge(a, b)) = Elements(a) \cup Elements(b)
                          /\ Ordered(a) /\ Ordered(b) => Ordered(merge(a, b))
           E == {p \in Pairs : ~Right(p[1], p[2])}
<1>1. merge(s, t) \in Seq(Nodes) /\ <<s, t>> \in Pairs
  BY MergeIs DEF Pairs
<1>2. SUFFICES ASSUME E # {} PROVE FALSE
  <2>1. ASSUME E = {} PROVE Right(s, t)
    <3>1. <<s, t>>[1] = s /\ <<s, t>>[2] = t
      OBVIOUS
    <3>2. <<s, t>> \notin E
      BY <2>1
    <3>3. Right(<<s, t>>[1], <<s, t>>[2])
      BY <1>1, <3>2
    <3> HIDE DEF Right
    <3> QED
      BY <3>1, <3>3
  <2> QED
    BY <1>1, <2>1
<1>3. PICK p \in E : \A r \in Pairs : Both[r] < Both[p] => r \notin E
  <2>1. E \in SUBSET Pairs /\ E # {}
    BY <1>2
  <2> HIDE DEF E
  <2> QED
    BY <2>1, FirstBad, BothIsNat
<1>4. PICK a \in Seq(Nodes), b \in Seq(Nodes) : p = <<a, b>>
  <2>1. p \in Pairs
    BY <1>3
  <2> QED
    BY <2>1 DEF Pairs
<1>5. ~Right(a, b)
  <2>1. p \in E /\ p[1] = a /\ p[2] = b
    BY <1>3, <1>4
  <2>2. ~Right(p[1], p[2])
    BY <2>1
  <2> HIDE DEF Right
  <2> QED
    BY <2>1, <2>2
<1>6. ASSUME NEW c \in Seq(Nodes), NEW d \in Seq(Nodes), Both[<<c, d>>] < Both[p] PROVE Right(c, d)
  <2>1. <<c, d>> \in Pairs /\ <<c, d>>[1] = c /\ <<c, d>>[2] = d
    BY DEF Pairs
  <2>2. Right(<<c, d>>[1], <<c, d>>[2])
    BY <1>3, <1>6, <2>1
  <2> HIDE DEF Right
  <2> QED
    BY <2>1, <2>2
<1>7. PICK m \in Nat, n \in Nat : m = Len(a) /\ n = Len(b)
  OBVIOUS
<1> HIDE DEF E
<1>8. CASE a = <<>>
  <2>1. merge(a, b) = b
    BY <1>8, MergeIs
  <2>3. m = 0
    BY <1>7, <1>8
  <2>4. m + n = n
    BY <2>3
  <2>2. Elements(a) = {}
    BY <1>8 DEF Elements
  <2> QED
    BY <1>5, <1>7, <2>1, <2>2, <2>4
<1>9. CASE a # <<>> /\ b = <<>>
  <2>1. merge(a, b) = a
    BY <1>9, MergeIs
  <2>3. n = 0
    BY <1>7, <1>9
  <2>4. m + n = m
    BY <2>3
  <2>2. Elements(b) = {}
    BY <1>9 DEF Elements
  <2> QED
    BY <1>5, <1>7, <2>1, <2>2, <2>4
<1>10. CASE a # <<>> /\ b # <<>>
  <2>1. /\ Tail(a) \in Seq(Nodes) /\ Tail(b) \in Seq(Nodes)
        /\ Head(a) \in Nodes /\ Head(b) \in Nodes
        /\ Len(Tail(a)) = m - 1 /\ Len(Tail(b)) = n - 1 /\ m # 0 /\ n # 0
    BY <1>7, <1>10, HeadAndTail
  <2>2. Both[<<Tail(a), b>>] < Both[p] /\ Both[<<a, Tail(b)>>] < Both[p]
    <3>1. p \in Pairs /\ p[1] = a /\ p[2] = b
      BY <1>4 DEF Pairs
    <3> QED
      BY <1>10, <3>1, MergeCalls
  <2>3. Right(Tail(a), b) /\ Right(a, Tail(b))
    BY <1>6, <2>1, <2>2
  <2>4. /\ value[Head(a)] \in Nat /\ value[Head(b)] \in Nat
        /\ \A y \in Elements(a) \cup Elements(b) : value[y] \in Nat
    BY <2>1 DEF Elements
  <2>5. CASE value[Head(a)] < value[Head(b)]
    <3> DEFINE r == merge(Tail(a), b)
    <3>1. merge(a, b) = <<Head(a)>> \o r
      BY <1>10, <2>5, MergeIs
    <3>2. r \in Seq(Nodes)
      BY <2>1, MergeIs
    <3>3. Len(r) = m - 1 + n /\ Elements(r) = Elements(Tail(a)) \cup Elements(b)
          /\ (Ordered(Tail(a)) /\ Ordered(b) => Ordered(r))
      BY <1>7, <2>1, <2>3
    <3> HIDE DEF r
    <3>4. Len(merge(a, b)) = m + n
      <4>1. m - 1 + n + 1 = m + n
        OBVIOUS
      <4>2. Len(merge(a, b)) = Len(r) + 1
        BY <2>1, <3>1, <3>2, InFront
      <4> QED
        BY <3>3, <4>1, <4>2
    <3>5. Elements(merge(a, b)) = Elements(a) \cup Elements(b)
      <4>1. Elements(merge(a, b)) = {Head(a)} \cup Elements(r)
        BY <2>1, <3>1, <3>2, FrontAdds
      <4>2. Elements(a) = {Head(a)} \cup Elements(Tail(a))
        BY <1>10, TailLeaves
      <4> QED
        BY <3>3, <4>1, <4>2
    <3>6. ASSUME Ordered(a), Ordered(b) PROVE Ordered(merge(a, b))
      <4>1. /\ Elements(a) = {Head(a)} \cup Elements(Tail(a)) /\ Ordered(Tail(a))
            /\ \A y \in Elements(a) : value[Head(a)] <= value[y]
            /\ \A y \in Elements(b) : value[Head(b)] <= value[y]
        BY <1>10, <3>6, TailLeaves
      <4>2. ASSUME NEW y \in Elements(r) PROVE value[Head(a)] <= value[y]
        <5>1. CASE y \in Elements(Tail(a))
          BY <4>1, <5>1
        <5>2. CASE y \in Elements(b)
          <6>1. value[Head(b)] <= value[y] /\ value[y] \in Nat
            BY <2>4, <4>1, <5>2
          <6> QED
            BY <2>4, <2>5, <6>1
        <5> QED
          BY <3>3, <5>1, <5>2
      <4>3. Ordered(r)
        BY <3>3, <3>6, <4>1
      <4> QED
        BY <2>1, <3>1, <3>2, <4>2, <4>3, FrontAdds
    <3> QED
      BY <1>5, <1>7, <3>4, <3>5, <3>6
  <2>6. CASE ~(value[Head(a)] < value[Head(b)])
    <3> DEFINE r == merge(a, Tail(b))
    <3>1. merge(a, b) = <<Head(b)>> \o r
      BY <1>10, <2>6, MergeIs
    <3>2. r \in Seq(Nodes)
      BY <2>1, MergeIs
    <3>3. Len(r) = m + (n - 1) /\ Elements(r) = Elements(a) \cup Elements(Tail(b))
          /\ (Ordered(a) /\ Ordered(Tail(b)) => Ordered(r))
      BY <1>7, <2>1, <2>3
    <3> HIDE DEF r
    <3>4. Len(merge(a, b)) = m + n
      <4>1. m + (n - 1) + 1 = m + n
        OBVIOUS
      <4>2. Len(merge(a, b)) = Len(r) + 1
        BY <2>1, <3>1, <3>2, InFront
      <4> QED
        BY <3>3, <4>1, <4>2
    <3>5. Elements(merge(a, b)) = Elements(a) \cup Elements(b)
      <4>1. Elements(merge(a, b)) = {Head(b)} \cup Elements(r)
        BY <2>1, <3>1, <3>2, FrontAdds
      <4>2. Elements(b) = {Head(b)} \cup Elements(Tail(b))
        BY <1>10, TailLeaves
      <4> QED
        BY <3>3, <4>1, <4>2
    <3>6. ASSUME Ordered(a), Ordered(b) PROVE Ordered(merge(a, b))
      <4>1. /\ Elements(b) = {Head(b)} \cup Elements(Tail(b)) /\ Ordered(Tail(b))
            /\ \A y \in Elements(a) : value[Head(a)] <= value[y]
            /\ \A y \in Elements(b) : value[Head(b)] <= value[y]
        BY <1>10, <3>6, TailLeaves
      <4>2. ASSUME NEW y \in Elements(r) PROVE value[Head(b)] <= value[y]
        <5>1. CASE y \in Elements(Tail(b))
          BY <4>1, <5>1
        <5>2. CASE y \in Elements(a)
          <6>1. value[Head(a)] <= value[y] /\ value[y] \in Nat
            BY <2>4, <4>1, <5>2
          <6> QED
            BY <2>4, <2>6, <6>1
        <5> QED
          BY <3>3, <5>1, <5>2
      <4>3. Ordered(r)
        BY <3>3, <3>6, <4>1
      <4> QED
        BY <2>1, <3>1, <3>2, <4>2, <4>3, FrontAdds
    <3> QED
      BY <1>5, <1>7, <3>4, <3>5, <3>6
  <2> QED
    BY <2>5, <2>6
<1> QED
  BY <1>8, <1>9, <1>10

\* The body of mergeSort.
SortBody(m, s) ==
  IF Len(s) <= 1 THEN s
  ELSE merge(m[SubSeq(s, 1, Half(s))], m[SubSeq(s, Half(s) + 1, Len(s))])

LengthOf == [s \in Seq(Nodes) |-> Len(s)]

\* Every list has a length.
LEMMA LengthIsNat == LengthOf \in [Seq(Nodes) -> Nat]
BY DEF LengthOf

\* The two halves of a list are shorter than the list, and hold its elements.
LEMMA TwoHalves ==
  ASSUME NEW s \in Seq(Nodes), ~(Len(s) <= 1),
         NEW a, a = SubSeq(s, 1, Half(s)), NEW b, b = SubSeq(s, Half(s) + 1, Len(s))
  PROVE  /\ a \in Seq(Nodes) /\ Len(a) < Len(s)
         /\ b \in Seq(Nodes) /\ Len(b) < Len(s)
         /\ Len(a) + Len(b) = Len(s)
         /\ Elements(s) = Elements(a) \cup Elements(b)
<1>1. PICK n \in Nat : n = Len(s)
  OBVIOUS
<1>2. PICK h \in Nat : h = Half(s)
  <2>1. (n + 1) \div 2 \in Nat
    OBVIOUS
  <2> QED
    BY <1>1, <2>1 DEF Half
<1>3. 1 <= h /\ h < n /\ n - h \in Nat
  BY <1>1, <1>2 DEF Half
<1>4. a \in Seq(Nodes) /\ Len(a) = h /\ \A i \in 1 .. h : a[i] = s[i]
  BY <1>1, <1>2, <1>3
<1>5. b \in Seq(Nodes) /\ Len(b) = n - h /\ \A i \in 1 .. n - h : b[i] = s[h + i]
  BY <1>1, <1>2, <1>3
<1>6. Elements(s) = Elements(a) \cup Elements(b)
  <2>1. ASSUME NEW y \in Elements(s) PROVE y \in Elements(a) \cup Elements(b)
    <3>1. PICK i \in 1 .. n : y = s[i]
      BY <1>1 DEF Elements
    <3>2. CASE i <= h
      BY <1>4, <3>1, <3>2 DEF Elements
    <3>3. CASE ~(i <= h)
      <4>1. i - h \in 1 .. n - h /\ h + (i - h) = i
        BY <1>3, <3>3
      <4>2. b[i - h] = s[i]
        BY <1>5, <4>1
      <4> QED
        BY <1>5, <3>1, <4>1, <4>2 DEF Elements
    <3> QED
      BY <3>2, <3>3
  <2>2. \A y \in Elements(a) : y \in Elements(s)
    <3>1. \A i \in 1 .. h : i \in 1 .. n
      BY <1>3
    <3> QED
      BY <1>1, <1>4, <3>1 DEF Elements
  <2>3. ASSUME NEW y \in Elements(b) PROVE y \in Elements(s)
    <3>1. PICK i \in 1 .. n - h : y = b[i]
      BY <1>5 DEF Elements
    <3>2. h + i \in 1 .. n
      BY <1>3
    <3> QED
      BY <1>1, <1>5, <3>1, <3>2 DEF Elements
  <2> QED
    BY <2>1, <2>2, <2>3
<1>7. h < n /\ n - h < n /\ h + (n - h) = n
  BY <1>3
<1> QED
  BY <1>1, <1>4, <1>5, <1>6, <1>7

\* There is a function that does what the body of mergeSort says.
LEMMA SortRecursion ==
  \E m \in [Seq(Nodes) -> Seq(Nodes)] : m = [s \in Seq(Nodes) |-> SortBody(m, s)]
<1> DEFINE F == [Seq(Nodes) -> Seq(Nodes)]
           B == [g \in F |-> [s \in Seq(Nodes) |-> SortBody(g, s)]]
<1>1. B \in [F -> F]
  <2> SUFFICES ASSUME NEW g \in F, NEW s \in Seq(Nodes) PROVE SortBody(g, s) \in Seq(Nodes)
    OBVIOUS
  <2>1. CASE Len(s) <= 1
    BY <2>1 DEF SortBody
  <2>2. CASE ~(Len(s) <= 1)
    <3>1. /\ g[SubSeq(s, 1, Half(s))] \in Seq(Nodes)
          /\ g[SubSeq(s, Half(s) + 1, Len(s))] \in Seq(Nodes)
      BY <2>2, TwoHalves
    <3> QED
      BY <2>2, <3>1, MergeIs DEF SortBody
  <2> QED
    BY <2>1, <2>2
<1>2. ASSUME NEW g \in F, NEW h \in F, NEW s \in Seq(Nodes),
             \A q \in Seq(Nodes) : LengthOf[q] < LengthOf[s] => g[q] = h[q]
      PROVE  B[g][s] = B[h][s]
  <2>1. SortBody(g, s) = SortBody(h, s)
    <3>1. CASE Len(s) <= 1
      BY <3>1 DEF SortBody
    <3>2. CASE ~(Len(s) <= 1)
      <4>1. PICK a, b : a = SubSeq(s, 1, Half(s)) /\ b = SubSeq(s, Half(s) + 1, Len(s))
        OBVIOUS
      <4>2. a \in Seq(Nodes) /\ Len(a) < Len(s) /\ b \in Seq(Nodes) /\ Len(b) < Len(s)
        BY <3>2, <4>1, TwoHalves
      <4>3. g[a] = h[a] /\ g[b] = h[b]
        BY <1>2, <4>2 DEF LengthOf
      <4> QED
        BY <3>2, <4>1, <4>3 DEF SortBody
    <3> QED
      BY <3>1, <3>2
  <2> QED
    BY <2>1
<1>3. Seq(Nodes) # {}
  <2>1. <<>> \in Seq(Nodes)
    OBVIOUS
  <2> QED
    BY <2>1
<1> HIDE DEF B
<1>4. \A g, h \in [Seq(Nodes) -> Seq(Nodes)], s \in Seq(Nodes) :
        (\A q \in Seq(Nodes) : LengthOf[q] < LengthOf[s] => g[q] = h[q]) => B[g][s] = B[h][s]
  BY <1>2
<1>5. B \in [[Seq(Nodes) -> Seq(Nodes)] -> [Seq(Nodes) -> Seq(Nodes)]]
  BY <1>1
<1> HIDE DEF F
<1>6. Recursion(Seq(Nodes), Seq(Nodes), LengthOf, B)
  BY <1>3, <1>4, <1>5, LengthIsNat DEF Recursion
<1>7. \E m \in [Seq(Nodes) -> Seq(Nodes)] : m = B[m]
  BY <1>6, RecursionDefines
<1> QED
  BY <1>7 DEF B, F

\* mergeSort computes what its body says.
LEMMA SortIs == \A s \in Seq(Nodes) : mergeSort[s] = SortBody(mergeSort, s)
<1>1. mergeSort = CHOOSE m : m = [s \in Seq(Nodes) |-> SortBody(m, s)]
  BY DEF mergeSort, SortBody
<1>2. \E m : m = [s \in Seq(Nodes) |-> SortBody(m, s)]
  BY SortRecursion
<1>3. mergeSort = [s \in Seq(Nodes) |-> SortBody(mergeSort, s)]
  BY <1>1, <1>2
<1> QED
  BY <1>3

\* It sorts: the same elements, in ascending order of their values.
LEMMA Sorts ==
  ASSUME value \in [Nodes -> Nat], NEW s \in Seq(Nodes)
  PROVE  /\ mergeSort[s] \in Seq(Nodes)
         /\ Len(mergeSort[s]) = Len(s)
         /\ Elements(mergeSort[s]) = Elements(s)
         /\ Ordered(mergeSort[s])
<1> DEFINE Sorted(t) == /\ mergeSort[t] \in Seq(Nodes)
                        /\ Len(mergeSort[t]) = Len(t)
                        /\ Elements(mergeSort[t]) = Elements(t)
                        /\ Ordered(mergeSort[t])
           E == {t \in Seq(Nodes) : ~Sorted(t)}
<1>1. SUFFICES ASSUME E # {} PROVE FALSE
  OBVIOUS
<1>2. PICK t \in E : \A r \in Seq(Nodes) : LengthOf[r] < LengthOf[t] => r \notin E
  <2>1. E \in SUBSET Seq(Nodes) /\ E # {}
    BY <1>1
  <2> HIDE DEF E
  <2> QED
    BY <2>1, FirstBad, LengthIsNat
<1>3. t \in Seq(Nodes) /\ ~Sorted(t)
  BY <1>2
<1>4. ASSUME NEW r \in Seq(Nodes), Len(r) < Len(t) PROVE Sorted(r)
  BY <1>2, <1>3, <1>4 DEF LengthOf
<1> HIDE DEF E
<1>5. mergeSort[t] = SortBody(mergeSort, t)
  BY <1>3, SortIs
<1>6. CASE Len(t) <= 1
  <2>1. mergeSort[t] = t
    BY <1>5, <1>6 DEF SortBody
  <2>2. Ordered(t)
    <3> SUFFICES ASSUME NEW i \in 1 .. Len(t), NEW j \in 1 .. Len(t), i <= j
                 PROVE  value[t[i]] <= value[t[j]]
      BY DEF Ordered
    <3>1. i = j /\ t[i] \in Nodes
      BY <1>3, <1>6
    <3>2. value[t[i]] \in Nat
      BY <3>1
    <3> QED
      BY <3>1, <3>2
  <2> QED
    BY <1>3, <2>1, <2>2
<1>7. CASE ~(Len(t) <= 1)
  <2>0. PICK a, b : a = SubSeq(t, 1, Half(t)) /\ b = SubSeq(t, Half(t) + 1, Len(t))
    OBVIOUS
  <2>1. /\ a \in Seq(Nodes) /\ Len(a) < Len(t)
        /\ b \in Seq(Nodes) /\ Len(b) < Len(t)
        /\ Len(a) + Len(b) = Len(t)
        /\ Elements(t) = Elements(a) \cup Elements(b)
    BY <1>3, <1>7, <2>0, TwoHalves
  <2>2. mergeSort[t] = merge(mergeSort[a], mergeSort[b])
    BY <1>5, <1>7, <2>0 DEF SortBody
  <2>3. Sorted(a) /\ Sorted(b)
    BY <1>4, <2>1
  <2>5. PICK x, y, z : x = mergeSort[a] /\ y = mergeSort[b] /\ z = mergeSort[t]
    OBVIOUS
  <2>6. /\ z \in Seq(Nodes) /\ Len(z) = Len(x) + Len(y)
        /\ Elements(z) = Elements(x) \cup Elements(y) /\ Ordered(z)
    BY <2>2, <2>3, <2>5, Merges
  <2>4. Sorted(t)
    BY <2>1, <2>3, <2>5, <2>6
  <2> QED
    BY <1>3, <2>4
<1> QED
  BY <1>6, <1>7

-----------------------------------------------------------------------------
(* The invariant *)

\* What the fields of queue_t say when the list has the elements s.
Holds(s) == /\ ListIs(s)
            /\ q_size = Len(s)
            /\ alloc = Elements(s)
            /\ s # <<>> => last = s[Len(s)]
            /\ ~exists => s = <<>>

Fields == /\ exists \in BOOLEAN
          /\ last \in Nodes \cup {NULL}
          /\ next \in [Nodes -> Nodes \cup {NULL}]
          /\ value \in [Nodes -> Values]

QueueIInv == Fields /\ \E s \in Seq(Nodes) : Holds(s)

\* Strings are compared as numbers.
LEMMA ValuesAreNumbers == ASSUME Fields PROVE value \in [Nodes -> Nat]
BY QueueAssumption DEF Fields

\* The invariant holds at the start, of the empty list.
LEMMA InitQueue == Init => QueueIInv /\ Holds(<<>>)
<1> SUFFICES ASSUME Init PROVE QueueIInv /\ Holds(<<>>)
  OBVIOUS
<1>1. <<>> \in Seq(Nodes) /\ Len(<<>>) = 0
  OBVIOUS
<1>2. Holds(<<>>)
  BY <1>1 DEF Init, Holds, ListIs, Injective, Elements
<1>3. Fields
  BY QueueAssumption DEF Init, Fields, NULL
<1> QED
  BY <1>1, <1>2, <1>3 DEF QueueIInv

\* The elements of a list are allocated elements, and their places are told apart.
LEMMA HoldsFacts ==
  ASSUME NEW s, Holds(s)
  PROVE  /\ s \in Seq(Nodes) /\ Len(s) \in Nat
         /\ \A i \in 1 .. Len(s) : s[i] \in Nodes /\ s[i] # NULL /\ s[i] \in alloc
         /\ \A n \in alloc : \E i \in 1 .. Len(s) : n = s[i]
         /\ head = NULL <=> s = <<>>
<1>1. s \in Seq(Nodes) /\ Len(s) \in Nat
  BY DEF Holds, ListIs
<1>2. \A i \in 1 .. Len(s) : s[i] \in Nodes /\ s[i] # NULL /\ s[i] \in alloc
  <2>1. \A i \in 1 .. Len(s) : s[i] \in Nodes
    BY <1>1
  <2>2. \A n \in Nodes : n # NULL
    BY QueueAssumption DEF Nodes, NULL
  <2>3. \A i \in 1 .. Len(s) : s[i] \in alloc
    BY DEF Holds, Elements
  <2> QED
    BY <2>1, <2>2, <2>3
<1>3. \A n \in alloc : \E i \in 1 .. Len(s) : n = s[i]
  BY DEF Holds, Elements
<1>4. head = NULL <=> s = <<>>
  <2>1. s # <<>> => 1 \in 1 .. Len(s)
    BY <1>1
  <2> QED
    BY <1>2, <2>1 DEF Holds, ListIs
<1> QED
  BY <1>1, <1>2, <1>3, <1>4

-----------------------------------------------------------------------------
(* What each operation makes of the list s *)

\* An empty queue.
LEMMA EmptyStep ==
  ASSUME NEW s, Holds(s), Fields, q_new \/ q_free
  PROVE  Fields' /\ Holds(<<>>)'
<1>1. /\ <<>> \in Seq(Nodes) /\ Len(<<>>) = 0
      /\ Elements(<<>>) = {}
  BY DEF Elements
<1>2. /\ head' = NULL /\ last' = NULL /\ q_size' = 0
      /\ next' = next /\ value' = value /\ exists' \in BOOLEAN
  BY DEF q_new, q_free
<1>3. alloc' = {}
  <2>1. CASE q_new
    BY <1>1, <2>1 DEF Holds, q_new
  <2>2. CASE q_free
    <3>1. Listed = s
      BY ListedIs DEF Holds
    <3>2. ToSet(s) = Elements(s)
      BY DEF ToSet, Elements, Holds, ListIs
    <3> QED
      BY <2>2, <3>1, <3>2 DEF Holds, q_free
  <2> QED
    BY <2>1, <2>2
<1>4. Fields'
  BY <1>2 DEF Fields
<1>5. ListIs(<<>>)'
  BY <1>1, <1>2 DEF ListIs, Injective
<1> QED
  BY <1>1, <1>2, <1>3, <1>4, <1>5 DEF Holds

\* A new first element.
LEMMA HeadStep ==
  ASSUME NEW s, Holds(s), Fields, NEW v \in Values, q_insert_head(v)
  PROVE  \E n \in Nodes \ alloc : /\ Fields' /\ Holds(<<n>> \o s)'
                                  /\ value' = [value EXCEPT ![n] = v]
<1>0. PICK n \in Nodes : /\ New(n, v)
                         /\ next' = [next EXCEPT ![n] = head]
                         /\ last' = IF head = NULL THEN n ELSE last
                         /\ head' = n
                         /\ exists' = exists
  BY DEF q_insert_head
<1>1. n \notin alloc /\ alloc' = alloc \cup {n} /\ value' = [value EXCEPT ![n] = v]
      /\ q_size' = q_size + 1 /\ exists
  BY <1>0 DEF New
<1>2. PICK t : t = <<n>> \o s
  OBVIOUS
<1>3. PICK k \in Nat : k = Len(s)
  BY HoldsFacts
<1>4. t \in Seq(Nodes) /\ Len(t) = k + 1 /\ t[1] = n /\ \A i \in 1 .. k : t[i + 1] = s[i]
  BY <1>2, <1>3, HoldsFacts, InFront
<1>5. Elements(t) = {n} \cup Elements(s)
  BY <1>2, HoldsFacts, FrontAdds, ValuesAreNumbers
<1>6. \A i \in 1 .. k + 1 : i = 1 \/ (i - 1 \in 1 .. k /\ t[i] = s[i - 1])
  <2> SUFFICES ASSUME NEW i \in 1 .. k + 1, i # 1 PROVE i - 1 \in 1 .. k /\ t[i] = s[i - 1]
    OBVIOUS
  <2>1. i - 1 \in 1 .. k /\ (i - 1) + 1 = i
    OBVIOUS
  <2> QED
    BY <1>4, <2>1
<1>7. \A i \in 1 .. k : s[i] \in Nodes /\ s[i] # n /\ s[i] # NULL
  BY <1>1, <1>3, HoldsFacts
<1>8. Injective(t)
  <2> SUFFICES ASSUME NEW i \in 1 .. k + 1, NEW j \in 1 .. k + 1, t[i] = t[j] PROVE i = j
    BY <1>4 DEF Injective
  <2>1. CASE i = 1
    BY <1>4, <1>6, <1>7, <2>1
  <2>2. CASE i # 1 /\ j = 1
    BY <1>4, <1>6, <1>7, <2>2
  <2>3. CASE i # 1 /\ j # 1
    <3>1. i - 1 = j - 1
      BY <1>3, <1>6, <2>3 DEF Holds, ListIs, Injective
    <3> QED
      BY <3>1
  <2> QED
    BY <2>1, <2>2, <2>3
<1>9. \A i \in 1 .. k + 1 : next'[t[i]] = IF i = k + 1 THEN NULL ELSE t[i + 1]
  <2> SUFFICES ASSUME NEW i \in 1 .. k + 1 PROVE next'[t[i]] = IF i = k + 1 THEN NULL ELSE t[i + 1]
    OBVIOUS
  <2>1. CASE i = 1
    <3>1. next'[t[i]] = head
      BY <1>0, <1>4, <2>1 DEF Fields
    <3>2. head = IF k = 0 THEN NULL ELSE s[1]
      BY <1>3, HoldsFacts DEF Holds, ListIs
    <3>3. k # 0 => t[2] = s[1]
      BY <1>4
    <3> QED
      BY <2>1, <3>1, <3>2, <3>3
  <2>2. CASE i # 1
    <3>1. i - 1 \in 1 .. k /\ t[i] = s[i - 1]
      BY <1>6, <2>2
    <3>2. next'[t[i]] = next[s[i - 1]]
      BY <1>0, <1>7, <3>1 DEF Fields
    <3>3. next[s[i - 1]] = IF i - 1 = k THEN NULL ELSE s[i - 1 + 1]
      BY <1>3, <3>1 DEF Holds, ListIs
    <3>4. i - 1 = k <=> i = k + 1
      OBVIOUS
    <3>5. i # k + 1 => t[i + 1] = s[i] /\ i - 1 + 1 = i
      BY <1>4
    <3> QED
      BY <3>2, <3>3, <3>4, <3>5
  <2> QED
    BY <2>1, <2>2
<1>10. t # <<>>
  BY <1>4
<1>11. last' = t[Len(t)]
  <2>1. CASE s = <<>>
    BY <1>0, <1>3, <1>4, <2>1, HoldsFacts
  <2>2. CASE s # <<>>
    <3>1. k \in 1 .. k
      BY <1>3, <2>2, HoldsFacts
    <3>2. t[k + 1] = s[k]
      BY <1>4, <3>1
    <3> QED
      BY <1>0, <1>3, <1>4, <2>2, <3>2, HoldsFacts DEF Holds
  <2> QED
    BY <2>1, <2>2
<1>12. ListIs(t)'
  BY <1>0, <1>4, <1>8, <1>9, <1>10 DEF ListIs, Injective
<1>13. Holds(t)'
  <2>1. q_size' = Len(t)
    BY <1>1, <1>3, <1>4 DEF Holds
  <2>2. alloc' = Elements(t)
    BY <1>1, <1>5 DEF Holds
  <2> QED
    BY <1>0, <1>1, <1>11, <1>12, <2>1, <2>2 DEF Holds, Elements
<1>14. Fields'
  BY <1>0, <1>1, HoldsFacts DEF Fields, Holds, ListIs
<1> QED
  BY <1>1, <1>2, <1>13, <1>14

\* A new last element, when last was not stale.
LEMMA TailStep ==
  ASSUME NEW s, Holds(s), Fields, AvoidStale, NEW v \in Values, q_insert_tail(v)
  PROVE  \E n \in Nodes \ alloc : /\ Fields' /\ Holds(Append(s, n))'
                                  /\ value' = [value EXCEPT ![n] = v]
<1>0. PICK n \in Nodes : /\ New(n, v)
                         /\ AvoidStale => ~Stale
                         /\ last' = n
                         /\ IF last = NULL
                            THEN head' = n /\ next' = [next EXCEPT ![n] = NULL]
                            ELSE next' = [next EXCEPT ![n] = NULL, ![last] = n] /\ head' = head
                         /\ exists' = exists
  BY DEF q_insert_tail
<1>1. n \notin alloc /\ alloc' = alloc \cup {n} /\ value' = [value EXCEPT ![n] = v]
      /\ q_size' = q_size + 1 /\ exists
  BY <1>0 DEF New
<1>2. PICK t : t = Append(s, n)
  OBVIOUS
<1>3. PICK k \in Nat : k = Len(s)
  BY HoldsFacts
<1>4. t \in Seq(Nodes) /\ Len(t) = k + 1 /\ t[k + 1] = n /\ \A i \in 1 .. k : t[i] = s[i]
  BY <1>2, <1>3, HoldsFacts
<1>6. \A i \in 1 .. k + 1 : i = k + 1 \/ i \in 1 .. k
  OBVIOUS
<1>7. \A i \in 1 .. k : s[i] \in Nodes /\ s[i] # n /\ s[i] # NULL
  BY <1>1, <1>3, HoldsFacts
<1>5. Elements(t) = {n} \cup Elements(s)
  <2>1. \A y \in Elements(t) : y \in {n} \cup Elements(s)
    BY <1>3, <1>4, <1>6 DEF Elements
  <2>2. \A i \in 1 .. k : i \in 1 .. k + 1
    OBVIOUS
  <2>3. \A y \in Elements(s) : y \in Elements(t)
    BY <1>3, <1>4, <2>2 DEF Elements
  <2>4. k + 1 \in 1 .. k + 1
    OBVIOUS
  <2>5. n \in Elements(t)
    BY <1>4, <2>4 DEF Elements
  <2> QED
    BY <2>1, <2>3, <2>5
<1>8. Injective(t)
  <2> SUFFICES ASSUME NEW i \in 1 .. k + 1, NEW j \in 1 .. k + 1, t[i] = t[j] PROVE i = j
    BY <1>4 DEF Injective
  <2>1. CASE i = k + 1
    BY <1>4, <1>6, <1>7, <2>1
  <2>2. CASE i # k + 1 /\ j = k + 1
    BY <1>4, <1>6, <1>7, <2>2
  <2>3. CASE i # k + 1 /\ j # k + 1
    BY <1>3, <1>4, <1>6, <2>3 DEF Holds, ListIs, Injective
  <2> QED
    BY <2>1, <2>2, <2>3
<1>10. (last = NULL <=> k = 0) /\ (k # 0 => last = s[k])
  <2>1. CASE k = 0
    <3>0. s = <<>>
      <4>1. s \in Seq(Nodes) /\ Len(s) = 0
        BY <1>3, <2>1, HoldsFacts
      <4> QED
        BY ONLY <4>1
    <3>1. head = NULL
      BY <3>0, HoldsFacts
    <3> QED
      BY <1>0, <2>1, <3>1 DEF Stale
  <2>2. CASE k # 0
    <3>1. k \in 1 .. k /\ s # <<>>
      BY <1>3, <2>2, HoldsFacts
    <3> QED
      BY <1>3, <1>7, <2>2, <3>1 DEF Holds
  <2> QED
    BY <2>1, <2>2
<1>9. \A i \in 1 .. k + 1 : next'[t[i]] = IF i = k + 1 THEN NULL ELSE t[i + 1]
  <2> SUFFICES ASSUME NEW i \in 1 .. k + 1 PROVE next'[t[i]] = IF i = k + 1 THEN NULL ELSE t[i + 1]
    OBVIOUS
  <2>0. k # 0 => k \in 1 .. k
    OBVIOUS
  <2>1. CASE i = k + 1
    <3>1. next'[n] = NULL
      BY <1>0, <1>7, <1>10, <2>0 DEF Fields
    <3> QED
      BY <1>4, <2>1, <3>1
  <2>2. CASE i \in 1 .. k /\ i = k
    <3>1. next'[s[k]] = n
      BY <1>0, <1>7, <1>10, <2>2 DEF Fields
    <3> QED
      BY <1>4, <2>2, <3>1
  <2>3. CASE i \in 1 .. k /\ i # k
    <3>1. s[i] # s[k]
      BY <1>3, <2>0, <2>3 DEF Holds, ListIs, Injective
    <3>2. next'[s[i]] = next[s[i]]
      BY <1>0, <1>7, <1>10, <2>3, <3>1 DEF Fields
    <3>3. next[s[i]] = s[i + 1]
      BY <1>3, <2>3 DEF Holds, ListIs
    <3>4. i + 1 \in 1 .. k /\ i # k + 1
      BY <2>3
    <3> QED
      BY <1>4, <2>3, <3>2, <3>3, <3>4
  <2> QED
    BY <1>6, <2>1, <2>2, <2>3
<1>11. head' = t[1]
  <2>1. CASE k = 0
    BY <1>0, <1>4, <1>10, <2>1
  <2>2. CASE k # 0
    <3>1. 1 \in 1 .. k /\ s # <<>>
      BY <1>3, <2>2, HoldsFacts
    <3> QED
      BY <1>0, <1>4, <1>10, <2>2, <3>1 DEF Holds, ListIs
  <2> QED
    BY <2>1, <2>2
<1>12. ListIs(t)'
  BY <1>4, <1>8, <1>9, <1>11 DEF ListIs, Injective
<1>13. Holds(t)'
  <2>1. q_size' = Len(t)
    BY <1>1, <1>3, <1>4 DEF Holds
  <2>2. alloc' = Elements(t)
    BY <1>1, <1>5 DEF Holds
  <2> QED
    BY <1>0, <1>1, <1>4, <1>12, <2>1, <2>2 DEF Holds, Elements
<1>14. Fields'
  <2>1. next' \in [Nodes -> Nodes \cup {NULL}]
    BY <1>0 DEF Fields
  <2> QED
    BY <1>0, <1>1, <2>1 DEF Fields
<1> QED
  BY <1>1, <1>2, <1>13, <1>14

\* The first element goes.
LEMMA RemoveStep ==
  ASSUME NEW s, Holds(s), Fields, q_remove_head
  PROVE  s # <<>> /\ Fields' /\ Holds(Tail(s))' /\ value' = value
<1>0. /\ exists /\ head # NULL /\ head' = next[head] /\ q_size' = q_size - 1
      /\ alloc' = alloc \ {head}
      /\ exists' = exists /\ last' = last /\ next' = next /\ value' = value
  BY DEF q_remove_head
<1>1. PICK t : t = Tail(s)
  OBVIOUS
<1>2. s # <<>> /\ head = s[1]
  BY <1>0, HoldsFacts DEF Holds, ListIs
<1>3. PICK k \in Nat : Len(s) = k + 1
  <2>1. PICK n \in Nat : n = Len(s)
    BY HoldsFacts
  <2>2. n # 0
    BY <1>2, <2>1, HoldsFacts
  <2>3. n - 1 \in Nat /\ n = (n - 1) + 1
    BY <2>2
  <2> QED
    BY <2>1, <2>3
<1>4. t \in Seq(Nodes) /\ Len(t) = k /\ \A i \in 1 .. k : t[i] = s[i + 1]
  <2>1. t \in Seq(Nodes) /\ Len(t) = Len(s) - 1 /\ \A i \in 1 .. Len(t) : t[i] = s[i + 1]
    BY <1>1, <1>2, HoldsFacts, HeadAndTail
  <2>2. k + 1 - 1 = k
    OBVIOUS
  <2> QED
    BY <1>3, <2>1, <2>2
<1>5. \A i \in 1 .. k : i + 1 \in 1 .. k + 1 /\ i + 1 # 1
  OBVIOUS
<1>6. \A i, j \in 1 .. k + 1 : s[i] = s[j] => i = j
  BY <1>3 DEF Holds, ListIs, Injective
<1>7. Injective(t)
  <2> SUFFICES ASSUME NEW i \in 1 .. k, NEW j \in 1 .. k, t[i] = t[j] PROVE i = j
    BY <1>4 DEF Injective
  <2>1. i + 1 = j + 1
    BY <1>4, <1>5, <1>6
  <2> QED
    BY <2>1
<1>8. \A i \in 1 .. k : next[t[i]] = IF i = k THEN NULL ELSE t[i + 1]
  <2> SUFFICES ASSUME NEW i \in 1 .. k PROVE next[t[i]] = IF i = k THEN NULL ELSE t[i + 1]
    OBVIOUS
  <2>1. next[s[i + 1]] = IF i + 1 = k + 1 THEN NULL ELSE s[i + 1 + 1]
    BY <1>3, <1>5 DEF Holds, ListIs
  <2>2. (i + 1 = k + 1 <=> i = k) /\ (i # k => i + 1 \in 1 .. k)
    OBVIOUS
  <2> QED
    BY <1>4, <2>1, <2>2
<1>9. head' = IF t = <<>> THEN NULL ELSE t[1]
  <2>1. next[s[1]] = IF 1 = k + 1 THEN NULL ELSE s[2]
    <3>1. 1 \in 1 .. k + 1 /\ 1 + 1 = 2
      OBVIOUS
    <3> QED
      BY <1>3, <3>1 DEF Holds, ListIs
  <2>2. (1 = k + 1 <=> k = 0) /\ (k # 0 => 1 \in 1 .. k)
    OBVIOUS
  <2>3. t = <<>> <=> k = 0
    BY <1>4
  <2> QED
    BY <1>0, <1>2, <1>4, <2>1, <2>2, <2>3
<1>10. Elements(t) = Elements(s) \ {s[1]}
  <2>1. \A y \in Elements(t) : y \in Elements(s) /\ y # s[1]
    <3> SUFFICES ASSUME NEW i \in 1 .. k PROVE t[i] \in Elements(s) /\ t[i] # s[1]
      BY <1>4 DEF Elements
    <3>1. 1 \in 1 .. k + 1
      OBVIOUS
    <3> QED
      BY <1>3, <1>4, <1>5, <1>6, <3>1 DEF Elements
  <2>2. Elements(s) = {s[1]} \cup Elements(t)
    BY <1>1, <1>2, HoldsFacts, TailLeaves, HeadAndTail
  <2> QED
    BY <2>1, <2>2
<1>11. t # <<>> => last = t[Len(t)]
  <2>1. t # <<>> => k \in 1 .. k
    BY <1>4
  <2> QED
    BY <1>2, <1>3, <1>4, <2>1 DEF Holds
<1>12. q_size' = k
  <2>1. k + 1 - 1 = k
    OBVIOUS
  <2> QED
    BY <1>0, <1>3, <2>1 DEF Holds
<1>13. ListIs(t)'
  BY <1>0, <1>4, <1>7, <1>8, <1>9 DEF ListIs, Injective
<1>14. Holds(t)'
  BY <1>0, <1>2, <1>4, <1>10, <1>11, <1>12, <1>13 DEF Holds, Elements
<1>15. Fields'
  BY <1>0 DEF Fields
<1> QED
  BY <1>0, <1>1, <1>2, <1>14, <1>15

\* The elements of the list are linked in another order.
LEMMA ChainStep ==
  ASSUME NEW s, Holds(s), Fields, NEW t \in Seq(Nodes), Injective(t),
         Len(t) = Len(s), Elements(t) = Elements(s),
         exists, exists' = exists, q_size' = q_size, value' = value, alloc' = alloc,
         next' = Chain(t), last' \in Nodes \cup {NULL},
         head' = IF t = <<>> THEN NULL ELSE t[1], t # <<>> => last' = t[Len(t)]
  PROVE  Fields' /\ Holds(t)'
<1>1. \A i \in 1 .. Len(t) : next'[t[i]] = IF i = Len(t) THEN NULL ELSE t[i + 1]
  BY ChainLinks
<1>2. next' \in [Nodes -> Nodes \cup {NULL}]
  BY ChainTypes DEF Fields
<1>3. ListIs(t)'
  BY <1>1 DEF ListIs, Injective
<1>4. Holds(t)'
  BY <1>3 DEF Holds, Elements
<1> QED
  BY <1>2, <1>4 DEF Fields

\* The elements in reverse order.
LEMMA ReverseStep ==
  ASSUME NEW s, Holds(s), Fields, AvoidStale, q_reverse
  PROVE  Fields' /\ Holds(Reverse(s))' /\ value' = value
<1>0. /\ exists /\ ~Stale /\ head' = last /\ last' = head
      /\ next' = Chain(Reverse(Listed))
      /\ exists' = exists /\ q_size' = q_size /\ value' = value /\ alloc' = alloc
  BY DEF q_reverse
<1>1. Listed = s
  BY ListedIs DEF Holds
<1>2. PICK k \in Nat : k = Len(s)
  BY HoldsFacts
<1>3. PICK t : t = Reverse(s)
  OBVIOUS
<1>4. \A i \in 1 .. k : (k - i) + 1 \in 1 .. k /\ (k - ((k - i) + 1)) + 1 = i
  OBVIOUS
<1>5. t = [i \in 1 .. k |-> s[(k - i) + 1]]
  BY <1>2, <1>3 DEF Reverse
<1>6. t \in Seq(Nodes) /\ Len(t) = k /\ \A i \in 1 .. k : t[i] = s[(k - i) + 1]
  <2>1. \A i \in 1 .. k : s[(k - i) + 1] \in Nodes
    BY <1>2, <1>4, HoldsFacts
  <2> QED
    BY <1>5, <2>1
<1>7. Injective(t)
  <2> SUFFICES ASSUME NEW i \in 1 .. k, NEW j \in 1 .. k, t[i] = t[j] PROVE i = j
    BY <1>6 DEF Injective
  <2>1. (k - i) + 1 = (k - j) + 1
    BY <1>2, <1>4, <1>6 DEF Holds, ListIs, Injective
  <2> QED
    BY <2>1
<1>8. Elements(t) = Elements(s)
  <2>1. \A y \in Elements(t) : y \in Elements(s)
    BY <1>2, <1>4, <1>6 DEF Elements
  <2>2. ASSUME NEW i \in 1 .. k PROVE s[i] \in Elements(t)
    <3>1. (k - i) + 1 \in 1 .. k /\ t[(k - i) + 1] = s[i]
      BY <1>4, <1>6
    <3> QED
      BY <1>6, <3>1 DEF Elements
  <2> QED
    BY <1>2, <2>1, <2>2 DEF Elements
<1>9. CASE s = <<>>
  <2>1. k = 0 /\ t = <<>>
    BY <1>2, <1>6, <1>9
  <2>2. head = NULL /\ last = NULL
    BY <1>0, <1>9, HoldsFacts DEF Stale
  <2> QED
    BY <1>0, <1>1, <1>2, <1>3, <1>6, <1>7, <1>8, <2>1, <2>2, ChainStep
<1>10. CASE s # <<>>
  <2>1. k \in 1 .. k /\ 1 \in 1 .. k /\ (k - 1) + 1 = k /\ (k - k) + 1 = 1
    BY <1>2, <1>10, HoldsFacts
  <2>2. t[1] = s[k] /\ t[k] = s[1] /\ t # <<>>
    BY <1>6, <2>1
  <2>3. last = s[k] /\ head = s[1]
    BY <1>2, <1>10 DEF Holds, ListIs
  <2>4. head \in Nodes
    BY <1>2, <2>1, <2>3, HoldsFacts
  <2> QED
    BY <1>0, <1>1, <1>2, <1>3, <1>6, <1>7, <1>8, <2>2, <2>3, <2>4, ChainStep
<1> QED
  BY <1>9, <1>10

\* As many elements as places: no element is in two places.
LEMMA SameElements ==
  ASSUME NEW s \in Seq(Nodes), Injective(s), NEW t \in Seq(Nodes),
         Len(t) = Len(s), Elements(t) = Elements(s)
  PROVE  Injective(t)
<1>1. PICK k \in Nat : k = Len(s)
  OBVIOUS
<1>2. IsFiniteSet(1 .. k)
  <2>1. 1 \in Int /\ k \in Int
    OBVIOUS
  <2> QED
    BY ONLY <2>1, FS_Interval
<1>3. s \in Surjection(1 .. k, Elements(s)) /\ s \in Injection(1 .. k, Elements(s))
  <2>1. s \in [1 .. k -> Elements(s)]
    BY <1>1 DEF Elements
  <2> QED
    BY <1>1, <2>1 DEF Surjection, Injection, IsInjective, Elements, Injective
<1>4. t \in Surjection(1 .. k, Elements(s))
  <2>1. t \in [1 .. k -> Elements(t)]
    BY <1>1 DEF Elements
  <2> QED
    BY <1>1, <2>1 DEF Surjection, Elements
<1>5. t \in Injection(1 .. k, Elements(s))
  BY <1>2, <1>3, <1>4, FS_Surjection
<1> QED
  BY <1>1, <1>5 DEF Injection, IsInjective, Injective

\* The elements sorted.
LEMMA SortStep ==
  ASSUME NEW s, Holds(s), Fields, q_sort
  PROVE  \E t : t = mergeSort[s] /\ Fields' /\ Holds(t)' /\ value' = value
<1>1. Listed = s
  BY ListedIs DEF Holds
<1>2. PICK t : t = mergeSort[s]
  OBVIOUS
<1>3. /\ exists /\ head # NULL /\ next' = Chain(t) /\ head' = t[1] /\ last' = t[Len(t)]
      /\ exists' = exists /\ q_size' = q_size /\ value' = value /\ alloc' = alloc
  BY <1>1, <1>2 DEF q_sort
<1>4. t \in Seq(Nodes) /\ Len(t) = Len(s) /\ Elements(t) = Elements(s)
  BY <1>2, HoldsFacts, Sorts, ValuesAreNumbers
<1>5. Injective(t)
  BY <1>4, HoldsFacts, SameElements DEF Holds, ListIs
<1>6. t # <<>> /\ t[Len(t)] \in Nodes
  <2>1. s # <<>>
    BY <1>3, HoldsFacts
  <2>2. Len(t) \in 1 .. Len(t)
    BY <1>4, <2>1, HoldsFacts
  <2> QED
    BY <1>4, <2>1, <2>2
<1>7. last' \in Nodes \cup {NULL} /\ (head' = IF t = <<>> THEN NULL ELSE t[1])
  BY <1>3, <1>6
<1>8. Fields' /\ Holds(t)'
  BY <1>3, <1>4, <1>5, <1>6, <1>7, ChainStep
<1> QED
  BY <1>2, <1>3, <1>8

\* The calls without effect: the element for which there is no string has been freed.
Idle == UNCHANGED <<exists, queue, next, value, alloc>>

\* They leave the queue and the heap alone.
LEMMA IdleSteps == ASSUME NoMemory \/ NothingThere \/ UNCHANGED vars PROVE Idle
<1>1. CASE NoMemory
  <2>1. ASSUME NEW n \in Nodes \ alloc PROVE (alloc \cup {n}) \ {n} = alloc
    OBVIOUS
  <2>2. alloc' = alloc
    BY <1>1, <2>1 DEF NoMemory
  <2> QED
    BY <1>1, <2>2 DEF NoMemory, Idle
<1> QED
  BY <1>1 DEF NothingThere, vars, Idle

-----------------------------------------------------------------------------
(* Every step keeps the invariant *)

\* Each operation of queue.c keeps the invariant.
LEMMA QueueStep ==
  ASSUME QueueIInv, AvoidStale, [Next]_vars
  PROVE  QueueIInv'
<1>0. PICK s : Holds(s) /\ s \in Seq(Nodes)
  BY DEF QueueIInv
<1>1. Fields
  BY DEF QueueIInv
<1>2. \A t : Fields' /\ Holds(t)' => QueueIInv'
  BY DEF QueueIInv, Holds, ListIs
<1>3. CASE q_new \/ q_free
  BY <1>0, <1>1, <1>2, <1>3, EmptyStep
<1>4. ASSUME NEW v \in Values, q_insert_head(v) PROVE QueueIInv'
  BY <1>0, <1>1, <1>2, <1>4, HeadStep
<1>5. ASSUME NEW v \in Values, q_insert_tail(v) PROVE QueueIInv'
  BY <1>0, <1>1, <1>2, <1>5, TailStep
<1>6. CASE q_remove_head
  BY <1>0, <1>1, <1>2, <1>6, RemoveStep
<1>7. CASE q_reverse
  BY <1>0, <1>1, <1>2, <1>7, ReverseStep
<1>8. CASE q_sort
  BY <1>0, <1>1, <1>2, <1>8, SortStep
<1>9. CASE NoMemory \/ NothingThere \/ UNCHANGED vars
  <2>1. Holds(s)' /\ Fields'
    BY <1>0, <1>1, <1>9, IdleSteps DEF Idle, queue, Holds, ListIs, Injective, Elements, Fields
  <2> QED
    BY <1>2, <2>1
<1> QED
  BY <1>3, <1>4, <1>5, <1>6, <1>7, <1>8, <1>9 DEF Next

\* However q_new, q_free and the operations of queue.c follow one another, head and the
\* links make a list that ends, of as many elements as q_size says and of exactly those
\* that are allocated -- if an emptied queue is next added to at its head (AvoidStale).
THEOREM SpecQueueIInv == AvoidStale => (Spec => []QueueIInv)
<1> SUFFICES ASSUME AvoidStale PROVE Spec => []QueueIInv
  OBVIOUS
<1>1. Init => QueueIInv
  BY InitQueue
<1>2. QueueIInv /\ [Next]_vars => QueueIInv'
  BY QueueStep
<1> QED
  BY <1>1, <1>2, PTL DEF Spec

\* The properties follow from the invariant.
LEMMA IInvGives == QueueIInv => QueueInv /\ NoLeak /\ ListHasSizeElements
<1> SUFFICES ASSUME QueueIInv PROVE QueueInv /\ NoLeak /\ ListHasSizeElements
  OBVIOUS
<1>1. PICK s \in Seq(Nodes) : Holds(s)
  BY DEF QueueIInv
<1>2. Listed = s
  BY <1>1, ListedIs DEF Holds
<1>3. Len(s) \in 0 .. NNodes
  BY <1>1, NoLonger DEF Holds, ListIs
<1>4. ToSet(s) = Elements(s)
  BY <1>1, HoldsFacts DEF ToSet, Elements
<1>5. TypeOK
  <2>1. head \in Nodes \cup {NULL}
    BY <1>1, HoldsFacts DEF Holds, ListIs
  <2>2. alloc \subseteq Nodes
    BY <1>1, HoldsFacts
  <2> QED
    BY <1>1, <1>3, <2>1, <2>2 DEF TypeOK, QueueIInv, Fields, Holds
<1>6. LastIsLast
  <2>1. q_size > 0 => s # <<>>
    BY <1>1 DEF Holds
  <2> QED
    BY <1>1, <1>2, <2>1 DEF LastIsLast, Holds
<1>7. NoLeak
  BY <1>1, <1>2, <1>4 DEF NoLeak, Holds
<1>8. ListHasSizeElements
  <2>1. IsInjective(s)
    BY <1>1 DEF Holds, ListIs, Injective, IsInjective
  <2>2. Len(s) = q_size /\ ToSet(s) \subseteq alloc
    BY <1>1, <1>4 DEF Holds
  <2> QED
    BY <1>2, <2>1, <2>2 DEF ListHasSizeElements
<1> QED
  BY <1>5, <1>6, <1>7, <1>8 DEF QueueInv

\* Between any two calls last is the last element of a queue that is not empty, and every
\* field has its type (queue.h:31-35).
THEOREM SpecQueueInv == AvoidStale => (Spec => []QueueInv)
BY SpecQueueIInv, IInvGives, PTL

\* No element is lost: q_remove_head and q_free find all that q_insert_head and q_insert_tail
\* allocated (queue.h:45 and :74).
THEOREM SpecNoLeak == AvoidStale => (Spec => []NoLeak)
BY SpecQueueIInv, IInvGives, PTL

\* What the run labqueue_stale refutes holds when the callers avoid the stale last: the list
\* has q_size elements, allocated and all different (queue.h:32).
THEOREM SpecListHasSizeElements == AvoidStale => (Spec => []ListHasSizeElements)
BY SpecQueueIInv, IInvGives, PTL

-----------------------------------------------------------------------------
(* The queue of strings *)

\* The strings at the elements s.
Strings(s) == [i \in 1 .. Len(s) |-> value[s[i]]]

items == [i \in 1 .. Len(Listed) |-> value[Listed[i]]]

\* The strings a are what the queue shows when its list has the elements t.
Shows(t, a) == /\ a = items
               /\ a \in Seq(Values) /\ Len(a) = Len(t)
               /\ \A i \in 1 .. Len(t) : a[i] = value[t[i]]

\* There is one such sequence of strings.
LEMMA StringsAre == \A t : Holds(t) /\ Fields => \E a : Shows(t, a)
<1> SUFFICES ASSUME NEW t, Holds(t), Fields PROVE Shows(t, Strings(t))
  OBVIOUS
<1>1. Listed = t
  BY ListedIs DEF Holds
<1>2. \A i \in 1 .. Len(t) : value[t[i]] \in Values
  BY HoldsFacts DEF Fields
<1> QED
  BY <1>1, <1>2, HoldsFacts DEF items, Strings, Shows

\* Also after a step.
LEMMA StringsNext == (\A t : Holds(t) /\ Fields => \E a : Shows(t, a))'
BY StringsAre, PTL

\* Sequences with the same entries are the same.
LEMMA SameSequence ==
  ASSUME NEW S, NEW a \in Seq(S), NEW b \in Seq(S), Len(a) = Len(b),
         \A i \in 1 .. Len(a) : a[i] = b[i]
  PROVE  a = b
<1>1. a = [i \in 1 .. Len(a) |-> a[i]] /\ b = [i \in 1 .. Len(b) |-> b[i]]
  OBVIOUS
<1> QED
  BY <1>1

\* What the call c may do to the queue of strings, from a to b.
Grows(c, a, b, v) == \/ c = <<"q_insert_head", v>> /\ b = <<v>> \o a
                     \/ c = <<"q_insert_tail", v>> /\ b = Append(a, v)
Sorting(a, b) == /\ b \in {[i \in DOMAIN a |-> a[p[i]]] : p \in Bijection(DOMAIN a, DOMAIN a)}
                 /\ \A i, j \in DOMAIN b : i < j => b[i] <= b[j]
Moves(c, a, b) == \/ Len(a) < NNodes /\ \E v \in Values : Grows(c, a, b, v)
                  \/ c \in Insertions /\ b = a
                  \/ a # <<>> /\ c = <<"q_remove_head", Head(a)>> /\ b = Tail(a)
                  \/ a = <<>> /\ c \in {<<"q_remove_head">>, <<"q_sort">>} /\ b = a
                  \/ c = <<"q_reverse">> /\ b = Reverse(a)
                  \/ c = <<"q_sort">> /\ Sorting(a, b)
                  \/ c \in {<<"q_new">>, <<"q_free">>} /\ b = <<>>
                  \/ c = queueCall /\ b = a

\* Moves are the steps of StringQueue.
LEMMA AbstractSteps ==
  ASSUME NEW a, NEW b, a = items, b = items', Moves(queueCall', a, b)
  PROVE  [Abstract!Next]_<<items, queueCall>>
<1> USE DEF Abstract!Next, items
<1>1. CASE Len(a) < NNodes /\ \E v \in Values : Grows(queueCall', a, b, v)
  BY <1>1 DEF Grows, Abstract!q_insert_head, Abstract!q_insert_tail
<1>2. CASE queueCall' \in Insertions /\ b = a
  BY <1>2 DEF Insertions, Abstract!NoMemory
<1>3. CASE a # <<>> /\ queueCall' = <<"q_remove_head", Head(a)>> /\ b = Tail(a)
  BY <1>3 DEF Abstract!q_remove_head
<1>4. CASE a = <<>> /\ queueCall' \in {<<"q_remove_head">>, <<"q_sort">>} /\ b = a
  BY <1>4 DEF Abstract!NothingThere
<1>5. CASE queueCall' = <<"q_reverse">> /\ b = Reverse(a)
  <2>1. b = Abstract!Reverse(a)
    BY <1>5 DEF Abstract!Reverse, Reverse
  <2>2. Abstract!q_reverse
    BY <1>5, <2>1, Zenon DEF Abstract!q_reverse
  <2> QED
    BY <2>2
<1>6. CASE queueCall' = <<"q_sort">> /\ Sorting(a, b)
  <2>1. Bijection(DOMAIN a, DOMAIN a) = Abstract!Bijection(DOMAIN a, DOMAIN a)
    BY DEF Bijection, Injection, Surjection, IsInjective, Abstract!Bijection,
           Abstract!Injection, Abstract!Surjection, Abstract!IsInjective
  <2>2. b \in Abstract!Rearranged(a) /\ Abstract!Ascending(b)
    BY <1>6, <2>1 DEF Sorting, Abstract!Rearranged, Abstract!Ascending
  <2>3. Abstract!q_sort
    BY <1>6, <2>2, Zenon DEF Abstract!q_sort
  <2> QED
    BY <2>3
<1>7. CASE queueCall' \in {<<"q_new">>, <<"q_free">>} /\ b = <<>>
  BY <1>7 DEF Abstract!Emptied
<1>8. CASE queueCall' = queueCall /\ b = a
  BY <1>8
<1> QED
  BY <1>1, <1>2, <1>3, <1>4, <1>5, <1>6, <1>7, <1>8 DEF Moves

\* One step of the heap is one step of the queue of strings, or none.
LEMMA QueueRefines ==
  ASSUME QueueIInv, AvoidStale, [Next]_vars
  PROVE  [Abstract!Next]_<<items, queueCall>>
<1>0. PICK s \in Seq(Nodes) : Holds(s)
  BY DEF QueueIInv
<1>1. Fields
  BY DEF QueueIInv
<1>2. PICK a : Shows(s, a)
  BY <1>0, <1>1, StringsAre
<1>3. ASSUME NEW t, Fields', Holds(t)' PROVE \E b : Shows(t, b)'
  BY <1>3, StringsNext
<1>4. SUFFICES ASSUME ~[Abstract!Next]_<<items, queueCall>> PROVE FALSE
  OBVIOUS
<1>5. \A t, b : Shows(t, b)' => ~Moves(queueCall', a, b)
  BY <1>2, <1>4, AbstractSteps DEF Shows
<1>6. PICK k \in Nat : k = Len(s)
  OBVIOUS
<1>7. /\ a \in Seq(Values) /\ Len(a) = k /\ \A i \in 1 .. k : a[i] = value[s[i]]
      /\ \A i \in 1 .. k : s[i] \in Nodes /\ s[i] \in alloc
  BY <1>0, <1>2, <1>6, HoldsFacts DEF Shows
<1>8. CASE q_new \/ q_free
  <2>1. Fields' /\ Holds(<<>>)'
    BY <1>0, <1>1, <1>8, EmptyStep
  <2>2. PICK b : Shows(<<>>, b)'
    BY <1>3, <2>1
  <2>3. b = <<>>
    BY <2>2 DEF Shows
  <2>4. queueCall' \in {<<"q_new">>, <<"q_free">>}
    BY <1>8 DEF q_new, q_free
  <2> QED
    BY <1>5, <2>2, <2>3, <2>4 DEF Moves
<1>9. ASSUME NEW v \in Values, q_insert_head(v) PROVE FALSE
  <2>1. PICK n \in Nodes \ alloc : /\ Fields' /\ Holds(<<n>> \o s)'
                                   /\ value' = [value EXCEPT ![n] = v]
    BY <1>0, <1>1, <1>9, HeadStep
  <2>2. PICK t : t = <<n>> \o s
    OBVIOUS
  <2>3. PICK b : Shows(t, b)'
    BY <1>3, <2>1, <2>2
  <2>4. Len(t) = k + 1 /\ t[1] = n /\ \A i \in 1 .. k : t[i + 1] = s[i]
    BY <1>6, <2>2, InFront
  <2>5. b \in Seq(Values) /\ Len(b) = k + 1 /\ \A i \in 1 .. k + 1 : b[i] = value'[t[i]]
    BY <2>3, <2>4 DEF Shows
  <2>6. k < NNodes
    <3>1. Len(t) \in 0 .. NNodes
      BY <2>1, <2>2, NoLonger DEF Holds, ListIs, Injective
    <3> QED
      BY <2>4, <3>1, QueueAssumption
  <2>7. b = <<v>> \o a
    <3>1. /\ <<v>> \o a \in Seq(Values) /\ Len(<<v>> \o a) = k + 1 /\ (<<v>> \o a)[1] = v
          /\ \A i \in 1 .. k : (<<v>> \o a)[i + 1] = a[i]
      BY <1>7, InFront
    <3>2. PICK c : c = <<v>> \o a
      OBVIOUS
    <3>3. ASSUME NEW i \in 1 .. k + 1 PROVE b[i] = c[i]
      <4>1. CASE i = 1
        BY <1>1, <2>1, <2>4, <2>5, <3>1, <3>2, <4>1 DEF Fields
      <4>2. CASE i # 1
        <5>1. i - 1 \in 1 .. k /\ (i - 1) + 1 = i
          BY <4>2
        <5>2. b[i] = value[s[i - 1]]
          BY <1>1, <1>7, <2>1, <2>4, <2>5, <5>1 DEF Fields
        <5>3. c[i] = a[i - 1]
          BY <3>1, <3>2, <5>1
        <5> QED
          BY <1>7, <5>1, <5>2, <5>3
      <4> QED
        BY <4>1, <4>2
    <3> QED
      BY <2>5, <3>1, <3>2, <3>3, SameSequence
  <2>8. queueCall' = <<"q_insert_head", v>>
    BY <1>9 DEF q_insert_head
  <2> QED
    BY <1>5, <1>7, <2>3, <2>6, <2>7, <2>8 DEF Moves, Grows
<1>10. ASSUME NEW v \in Values, q_insert_tail(v) PROVE FALSE
  <2>1. PICK n \in Nodes \ alloc : /\ Fields' /\ Holds(Append(s, n))'
                                   /\ value' = [value EXCEPT ![n] = v]
    BY <1>0, <1>1, <1>10, TailStep
  <2>2. PICK t : t = Append(s, n)
    OBVIOUS
  <2>3. PICK b : Shows(t, b)'
    BY <1>3, <2>1, <2>2
  <2>4. Len(t) = k + 1 /\ t[k + 1] = n /\ \A i \in 1 .. k : t[i] = s[i]
    BY <1>6, <2>2
  <2>5. b \in Seq(Values) /\ Len(b) = k + 1 /\ \A i \in 1 .. k + 1 : b[i] = value'[t[i]]
    BY <2>3, <2>4 DEF Shows
  <2>6. k < NNodes
    <3>1. Len(t) \in 0 .. NNodes
      BY <2>1, <2>2, NoLonger DEF Holds, ListIs, Injective
    <3> QED
      BY <2>4, <3>1, QueueAssumption
  <2>7. b = Append(a, v)
    <3>1. PICK c : c = Append(a, v)
      OBVIOUS
    <3>2. c \in Seq(Values) /\ Len(c) = k + 1 /\ c[k + 1] = v /\ \A i \in 1 .. k : c[i] = a[i]
      BY <1>7, <3>1
    <3>3. ASSUME NEW i \in 1 .. k + 1 PROVE b[i] = c[i]
      <4>1. CASE i = k + 1
        BY <1>1, <2>1, <2>4, <2>5, <3>2, <4>1 DEF Fields
      <4>2. CASE i \in 1 .. k
        BY <1>1, <1>7, <2>1, <2>4, <2>5, <3>2, <4>2 DEF Fields
      <4> QED
        BY <4>1, <4>2
    <3> QED
      BY <2>5, <3>1, <3>2, <3>3, SameSequence
  <2>8. queueCall' = <<"q_insert_tail", v>>
    BY <1>10 DEF q_insert_tail
  <2> QED
    BY <1>5, <1>7, <2>3, <2>6, <2>7, <2>8 DEF Moves, Grows
<1>11. CASE q_remove_head
  <2>1. s # <<>> /\ Fields' /\ Holds(Tail(s))' /\ value' = value
    BY <1>0, <1>1, <1>11, RemoveStep
  <2>2. PICK t : t = Tail(s)
    OBVIOUS
  <2>3. PICK b : Shows(t, b)'
    BY <1>3, <2>1, <2>2
  <2>4. Len(t) = k - 1 /\ (\A i \in 1 .. k - 1 : t[i] = s[i + 1]) /\ k # 0
    BY <1>6, <2>1, <2>2, HeadAndTail
  <2>5. b \in Seq(Values) /\ Len(b) = k - 1 /\ \A i \in 1 .. k - 1 : b[i] = value[t[i]]
    BY <2>1, <2>3, <2>4 DEF Shows
  <2>6. a # <<>>
    BY <1>7, <2>4
  <2>7. b = Tail(a)
    <3>1. PICK c : c = Tail(a)
      OBVIOUS
    <3>2. c \in Seq(Values) /\ Len(c) = k - 1 /\ \A i \in 1 .. k - 1 : c[i] = a[i + 1]
      BY <1>7, <2>6, <3>1, HeadAndTail
    <3>3. ASSUME NEW i \in 1 .. k - 1 PROVE b[i] = c[i]
      <4>1. i + 1 \in 1 .. k
        OBVIOUS
      <4> QED
        BY <1>7, <2>4, <2>5, <3>2, <4>1
    <3> QED
      BY <2>5, <3>1, <3>2, <3>3, SameSequence
  <2>8. queueCall' = <<"q_remove_head", Head(a)>>
    <3>1. 1 \in 1 .. k /\ head = s[1]
      BY <1>0, <1>6, <2>1, <2>4 DEF Holds, ListIs
    <3>2. Head(a) = a[1] /\ a[1] = value[head]
      BY <1>7, <2>6, <3>1
    <3> QED
      BY <1>11, <3>2 DEF q_remove_head
  <2> QED
    BY <1>5, <2>3, <2>6, <2>7, <2>8 DEF Moves
<1>12. CASE q_reverse
  <2>1. Fields' /\ Holds(Reverse(s))' /\ value' = value
    BY <1>0, <1>1, <1>12, ReverseStep
  <2>2. PICK t : t = Reverse(s)
    OBVIOUS
  <2>3. PICK b : Shows(t, b)'
    BY <1>3, <2>1, <2>2
  <2>4. \A i \in 1 .. k : (k - i) + 1 \in 1 .. k
    OBVIOUS
  <2>5. Len(t) = k /\ \A i \in 1 .. k : t[i] = s[(k - i) + 1]
    <3>1. t = [i \in 1 .. k |-> s[(k - i) + 1]]
      BY <1>6, <2>2 DEF Reverse
    <3>2. t \in Seq(Nodes)
      BY <1>7, <2>4, <3>1
    <3> QED
      BY <3>1, <3>2
  <2>6. b \in Seq(Values) /\ Len(b) = k /\ \A i \in 1 .. k : b[i] = value[t[i]]
    BY <2>1, <2>3, <2>5 DEF Shows
  <2>7. \A i \in 1 .. k : b[i] = a[(k - i) + 1]
    BY <1>7, <2>4, <2>5, <2>6
  <2>8. b = Reverse(a)
    <3>1. b = [i \in 1 .. k |-> b[i]]
      BY <2>6
    <3>2. Reverse(a) = [i \in 1 .. k |-> a[(k - i) + 1]]
      BY <1>7 DEF Reverse
    <3> QED
      BY <2>7, <3>1, <3>2
  <2>9. queueCall' = <<"q_reverse">>
    BY <1>12 DEF q_reverse
  <2> QED
    BY <1>5, <2>3, <2>8, <2>9 DEF Moves
<1>13. CASE q_sort
  <2>1. PICK t : t = mergeSort[s] /\ Fields' /\ Holds(t)' /\ value' = value
    BY <1>0, <1>1, <1>13, SortStep
  <2>2. t \in Seq(Nodes) /\ Len(t) = k /\ Elements(t) = Elements(s) /\ Ordered(t)
    BY <1>1, <1>6, <2>1, Sorts, ValuesAreNumbers
  <2>3. PICK b : Shows(t, b)'
    BY <1>3, <2>1
  <2>4. b \in Seq(Values) /\ Len(b) = k /\ \A i \in 1 .. k : b[i] = value[t[i]]
    BY <2>1, <2>2, <2>3 DEF Shows
  <2>5. /\ \A i, j \in 1 .. k : s[i] = s[j] => i = j
        /\ \A i, j \in 1 .. k : t[i] = t[j] => i = j
    BY <1>0, <1>6, <2>1, <2>2 DEF Holds, ListIs, Injective
  <2>6. /\ \A i \in 1 .. k : \E j \in 1 .. k : s[j] = t[i]
        /\ \A j \in 1 .. k : \E i \in 1 .. k : s[j] = t[i]
    BY <1>6, <2>2 DEF Elements
  <2> DEFINE p == [i \in 1 .. k |-> CHOOSE j \in 1 .. k : s[j] = t[i]]
  <2>7. \A i \in 1 .. k : p[i] \in 1 .. k /\ s[p[i]] = t[i]
    BY <2>6
  <2>8. p \in [1 .. k -> 1 .. k]
    BY <2>7
  <2> HIDE DEF p
  <2>9. p \in Bijection(1 .. k, 1 .. k)
    <3>1. ASSUME NEW i \in 1 .. k, NEW j \in 1 .. k, p[i] = p[j] PROVE i = j
      BY <2>5, <2>7, <3>1
    <3>2. ASSUME NEW j \in 1 .. k PROVE \E i \in 1 .. k : p[i] = j
      <4>1. PICK i \in 1 .. k : s[j] = t[i]
        BY <2>6
      <4>2. p[i] = j
        BY <2>5, <2>7, <4>1
      <4> QED
        BY <4>2
    <3> QED
      BY <2>8, <3>1, <3>2 DEF Bijection, Injection, Surjection, IsInjective
  <2>10. DOMAIN a = 1 .. k /\ DOMAIN b = 1 .. k
    BY <1>7, <2>4
  <2>11. b = [i \in 1 .. k |-> a[p[i]]]
    <3>1. b = [i \in 1 .. k |-> b[i]]
      BY <2>4
    <3>2. \A i \in 1 .. k : b[i] = a[p[i]]
      BY <1>7, <2>4, <2>7
    <3> QED
      BY <3>1, <3>2
  <2>12. ASSUME NEW i \in 1 .. k, NEW j \in 1 .. k, i < j PROVE b[i] <= b[j]
    BY <2>2, <2>4, <2>12 DEF Ordered
  <2>13. Sorting(a, b)
    BY <2>9, <2>10, <2>11, <2>12 DEF Sorting
  <2>14. queueCall' = <<"q_sort">>
    BY <1>13 DEF q_sort
  <2> QED
    BY <1>5, <2>3, <2>13, <2>14 DEF Moves
<1>14. CASE NoMemory \/ NothingThere \/ UNCHANGED vars
  <2>1. Holds(s)' /\ Fields' /\ value' = value
    BY <1>0, <1>1, <1>14, IdleSteps DEF Idle, queue, Holds, ListIs, Injective, Elements, Fields
  <2>2. PICK b : Shows(s, b)'
    BY <1>3, <2>1
  <2>3. b \in Seq(Values) /\ Len(b) = k /\ \A i \in 1 .. k : b[i] = a[i]
    BY <1>6, <1>7, <2>1, <2>2 DEF Shows
  <2>4. b = a
    BY <1>7, <2>3, SameSequence
  <2>5. CASE NoMemory
    BY <1>5, <2>2, <2>4, <2>5 DEF Moves, NoMemory
  <2>6. CASE NothingThere
    <3>1. s = <<>>
      BY <1>0, <2>6, HoldsFacts DEF NothingThere, Holds
    <3>2. a = <<>>
      BY <1>6, <1>7, <3>1
    <3> QED
      BY <1>5, <2>2, <2>4, <2>6, <3>2 DEF Moves, NothingThere
  <2>7. CASE UNCHANGED vars
    BY <1>5, <2>2, <2>4, <2>7 DEF Moves, vars
  <2> QED
    BY <1>14, <2>5, <2>6, <2>7
<1> QED
  BY <1>8, <1>9, <1>10, <1>11, <1>12, <1>13, <1>14 DEF Next

\* Seen as the strings at its elements, the linked queue does at every call what queue.h
\* promises of that call: it grows at the end that was named, gives back its first string,
\* is reversed, is sorted in place, or is emptied.
THEOREM SpecImplementsQueue == AvoidStale => (Spec => ImplementsQueue)
<1> SUFFICES ASSUME AvoidStale PROVE Spec => ImplementsQueue
  OBVIOUS
<1>1. Init => Abstract!Init
  <2> SUFFICES ASSUME Init PROVE Abstract!Init
    OBVIOUS
  <2>1. Listed = <<>>
    BY InitQueue, ListedIs DEF Holds
  <2> QED
    BY <2>1 DEF Init, Abstract!Init
<1>2. QueueIInv /\ [Next]_vars => [Abstract!Next]_<<items, queueCall>>
  BY QueueRefines
<1> QED
  BY <1>1, <1>2, SpecQueueIInv, PTL DEF Spec, ImplementsQueue, Abstract!Spec, items

-----------------------------------------------------------------------------
(* The iterative quicksort: the invariant *)

\* The list with the pivot put back: tr is free while tl moves, otherwise tl.
Hole == IF doing = "fromLeft" THEN tr ELSE tl
Whole == IF doing = "level" THEN key ELSE [key EXCEPT ![Hole] = pivot]

\* Ranges b[0] .. e[0], ..., b[n] .. e[n]: one behind the other, and not empty,
\* but for one behind the tail.
Ranges(b, e, n) ==
  /\ n \in Int /\ -1 <= n /\ n < Length
  /\ 0 .. n \subseteq DOMAIN b /\ 0 .. n \subseteq DOMAIN e
  /\ \A j \in 0 .. n : /\ b[j] \in Int /\ e[j] \in Positions /\ j + 1 <= b[j]
                       /\ b[j] <= e[j] \/ b[j] = PastTail
                       /\ \A i \in 0 .. n : i < j => e[i] < b[j]
  /\ n >= 0 => b[0] = 1
  /\ \A j \in 1 .. n : b[j] = e[j - 1] + 1

\* The two ends of a partition, and how far it has come.
Cursors(b, e, n, l, r, d) ==
  d # "level" =>
    /\ n >= 0 /\ b[n] <= l /\ l <= r /\ r <= e[n] /\ b[n] < e[n]
    /\ e[n] < Length => r < e[n] \/ (d = "fromRight" /\ l < r)
    /\ d = "split" => l = r

\* On either side of the cursors the values are on their side of the pivot.
Halves(w, b, e, n, l, r, p, d) ==
  d # "level" =>
    /\ \A x \in Positions : b[n] <= x /\ x < l => w[x] <= p
    /\ \A x \in Positions : r < x /\ x <= e[n] => p <= w[x]

\* The value at c is where it belongs.
InPlace(w, c) == \A x, y \in Positions : x <= c /\ c <= y => w[x] <= w[y]

\* The end of a range is where it belongs; of the last range if something follows.
Pivots(w, e, n) == \A j \in 0 .. n : e[j] < Length => InPlace(w, e[j])

\* What is behind the ranges is sorted.
Top(e, n) == IF n < 0 THEN 0 ELSE e[n]
Sorted(w, t) == \A x, y \in Positions : t < x /\ x <= y => w[x] <= w[y]

\* The list holds every value as often as the list that was made.
Count(w, k) == Cardinality({x \in Positions : w[x] = k})
SameValues(w) == \A k \in Keys : Count(w, k) = Count(made, k)

\* SortsInPlace and StaysInside alone say nothing while a partition is under way.
IInv ==
  /\ SortTypeOK
  /\ Ranges(beg, end, level)
  /\ Cursors(beg, end, level, tl, tr, doing)
  /\ Halves(Whole, beg, end, level, tl, tr, pivot, doing)
  /\ Pivots(Whole, end, level)
  /\ Sorted(Whole, Top(end, level))
  /\ SameValues(Whole)
-----------------------------------------------------------------------------
(* Exchanging two values *)

\* The list with the values at x and y exchanged.
Swapped(w, x, y) ==
  [p \in Positions |-> IF p = x THEN w[y] ELSE IF p = y THEN w[x] ELSE w[p]]

Lists == [Positions -> Keys]

\* An exchange leaves every value as often as it was.
LEMMA SwapCounts ==
  ASSUME NEW w \in Lists, NEW x \in Positions, NEW y \in Positions, NEW k
  PROVE  Count(Swapped(w, x, y), k) = Count(w, k)
<1> DEFINE S == {p \in Positions : w[p] = k}
           T == {p \in Positions : Swapped(w, x, y)[p] = k}
           f == [p \in S |-> IF p = x THEN y ELSE IF p = y THEN x ELSE p]
<1>1. IsFiniteSet(S)
  <2>1. IsFiniteSet(Positions)
    BY SortAssumption, FS_Interval DEF Positions
  <2> QED
    BY <2>1, FS_Subset
<1>2. f \in [S -> T]
  BY DEF Swapped
<1>3. \A p, o \in S : f[p] = f[o] => p = o
  OBVIOUS
<1>4. \A o \in T : \E p \in S : f[p] = o
  <2> SUFFICES ASSUME NEW o \in T PROVE \E p \in S : f[p] = o
    OBVIOUS
  <2> DEFINE p == IF o = x THEN y ELSE IF o = y THEN x ELSE o
  <2>1. p \in S
    BY DEF Swapped
  <2>2. f[p] = o
    BY <2>1
  <2> QED
    BY <2>1, <2>2
<1>5. f \in Bijection(S, T)
  <2> HIDE DEF S, T, f
  <2> QED
    BY <1>2, <1>3, <1>4 DEF Bijection, Injection, Surjection, IsInjective
<1>6. ExistsBijection(S, T)
  BY <1>5 DEF ExistsBijection
<1> QED
  BY <1>1, <1>6, FS_Bijection DEF Count

\* An exchange inside the last range leaves every value that is in its place there.
LEMMA SwapPivots ==
  ASSUME NEW w \in Lists, NEW b, NEW e, NEW n, Ranges(b, e, n), n >= 0, Pivots(w, e, n),
         NEW x \in Positions, NEW y \in Positions,
         b[n] <= x, x <= e[n], b[n] <= y, y <= e[n],
         e[n] < Length => x < e[n] /\ y < e[n]
  PROVE  Pivots(Swapped(w, x, y), e, n)
<1> SUFFICES ASSUME NEW j \in 0 .. n, e[j] < Length,
                    NEW a \in Positions, NEW c \in Positions, a <= e[j], e[j] <= c
             PROVE  Swapped(w, x, y)[a] <= Swapped(w, x, y)[c]
  BY DEF Pivots, InPlace
<1> DEFINE move(p) == IF p = x THEN y ELSE IF p = y THEN x ELSE p
<1>1. /\ n \in Int /\ e[j] \in Int /\ b[n] \in Int /\ e[n] \in Int
      /\ j < n => e[j] < b[n]
  BY DEF Ranges, Positions
<1>2. Length \in Int /\ x \in Int /\ y \in Int /\ a \in Int /\ c \in Int
  BY SortAssumption DEF Positions
<1>3. move(a) \in Positions /\ move(c) \in Positions
  OBVIOUS
<1>4. move(a) <= e[j] /\ e[j] <= move(c)
  <2>1. CASE j < n
    BY <1>1, <1>2, <2>1
  <2>2. CASE j = n
    BY <1>1, <1>2, <2>2
  <2> QED
    BY <1>1, <2>1, <2>2
<1>5. Swapped(w, x, y)[a] = w[move(a)] /\ Swapped(w, x, y)[c] = w[move(c)]
  BY DEF Swapped
<1> QED
  BY <1>3, <1>4, <1>5 DEF Pivots, InPlace

\* And what is sorted behind it.
LEMMA SwapSorted ==
  ASSUME NEW w \in Lists, NEW t \in Int, Sorted(w, t), NEW x \in Positions, NEW y \in Positions, x <= t, y <= t
  PROVE  Sorted(Swapped(w, x, y), t)
<1> SUFFICES ASSUME NEW a \in Positions, NEW c \in Positions, t < a, a <= c
             PROVE  Swapped(w, x, y)[a] <= Swapped(w, x, y)[c]
  BY DEF Sorted
<1>1. a # x /\ a # y /\ c # x /\ c # y
  BY SortAssumption DEF Positions
<1> QED
  BY <1>1 DEF Swapped, Sorted

\* The result is a list again.
LEMMA SwapType ==
  ASSUME NEW w \in Lists, NEW x \in Positions, NEW y \in Positions
  PROVE  Swapped(w, x, y) \in Lists
BY DEF Swapped, Lists

-----------------------------------------------------------------------------
(* What a step does to the list *)

\* Every step leaves the list with the pivot put back as it is, or exchanges the
\* values at tl and tr.
LEMMA WholeMoves ==
  ASSUME SortTypeOK, SortNext
  PROVE  /\ Whole \in Lists
         /\ Drop \/ Partition \/ Lower \/ Raise \/ Split => Whole' = Whole
         /\ FillLeft \/ FillRight => Whole' = IF tl = tr THEN Whole ELSE Swapped(Whole, tl, tr)
<1> USE DEF SortTypeOK, Lists
<1>1. Whole \in Lists
  BY DEF Whole, Hole
<1>2. Drop => Whole' = Whole
  BY DEF Drop, Whole
<1>3. Partition => Whole' = Whole
  BY DEF Partition, Whole, Hole
<1>4. Lower => Whole' = Whole
  BY DEF Lower, Whole, Hole
<1>5. Raise => Whole' = Whole
  BY DEF Raise, Whole, Hole
<1>6. Split => Whole' = Whole
  BY DEF Split, Whole, Hole
<1>7. ASSUME FillLeft PROVE Whole' = IF tl = tr THEN Whole ELSE Swapped(Whole, tl, tr)
  <2>1. CASE tl = tr
    BY <1>7, <2>1 DEF FillLeft, Whole, Hole
  <2>2. CASE tl # tr
    <3>1. Whole = [key EXCEPT ![tl] = pivot] /\ Whole' = [[key EXCEPT ![tl] = key[tr]] EXCEPT ![tr] = pivot]
      BY <1>7, <2>2 DEF FillLeft, Whole, Hole
    <3> QED
      BY <2>2, <3>1 DEF Swapped
  <2> QED
    BY <2>1, <2>2
<1>8. ASSUME FillRight PROVE Whole' = IF tl = tr THEN Whole ELSE Swapped(Whole, tl, tr)
  <2>1. CASE tl = tr
    BY <1>8, <2>1 DEF FillRight, Whole, Hole
  <2>2. CASE tl # tr
    <3>1. Whole = [key EXCEPT ![tr] = pivot] /\ Whole' = [[key EXCEPT ![tr] = key[tl]] EXCEPT ![tl] = pivot]
      BY <1>8, <2>2 DEF FillRight, Whole, Hole
    <3> QED
      BY <2>2, <3>1 DEF Swapped
  <2> QED
    BY <2>1, <2>2
<1> QED
  BY <1>1, <1>2, <1>3, <1>4, <1>5, <1>6, <1>7, <1>8
-----------------------------------------------------------------------------
(* The steps *)

\* The types that the steps compute with.
LEMMA Numbers ==
  ASSUME SortTypeOK
  PROVE  /\ Length \in Nat /\ Length > 0 /\ PastTail = Length + 1 /\ Positions = 1 .. Length
         /\ level \in Int /\ tl \in Positions /\ tr \in Positions /\ Keys \subseteq Int
         /\ key \in Lists /\ pivot \in Keys /\ Whole \in Lists
         /\ \A x \in Positions : key[x] \in Int /\ Whole[x] \in Int
         /\ pivot \in Int /\ MAX_LEVELS \in Nat /\ Length <= MAX_LEVELS
<1>1. Whole \in Lists
  BY DEF SortTypeOK, Whole, Hole, Lists
<1>2. Keys \subseteq Int /\ pivot \in Keys /\ key \in Lists
  BY SortAssumption DEF SortTypeOK, Lists
<1>3. \A w \in Lists : \A x \in Positions : w[x] \in Int
  BY <1>2 DEF Lists
<1>4. /\ Length \in Nat /\ Length > 0 /\ PastTail = Length + 1 /\ Positions = 1 .. Length
      /\ MAX_LEVELS \in Nat /\ Length <= MAX_LEVELS
  BY SortAssumption DEF Positions, PastTail
<1>5. level \in Int /\ tl \in Positions /\ tr \in Positions
  BY <1>4 DEF SortTypeOK
<1> QED
  BY <1>1, <1>2, <1>3, <1>4, <1>5

\* A step that keeps the values keeps how often each of them is there.
LEMMA NextSameValues ==
  ASSUME SortTypeOK, SameValues(Whole), [SortNext]_sortVars PROVE SameValues(Whole)'
<1>1. made' = made
  BY DEF SortNext, Drop, Partition, Lower, FillLeft, Raise, FillRight, Split, sortVars
<1>2. Whole' = Whole \/ Whole' = Swapped(Whole, tl, tr)
  <2>1. CASE SortNext
    BY <2>1, WholeMoves DEF SortNext
  <2>2. CASE UNCHANGED sortVars
    BY <2>2 DEF sortVars, range, Whole, Hole
  <2> QED
    BY <2>1, <2>2
<1>3. \A k \in Keys : Count(Whole', k) = Count(Whole, k)
  <2>1. \A k : Count(Swapped(Whole, tl, tr), k) = Count(Whole, k)
    BY Numbers, SwapCounts
  <2> QED
    BY <1>2, <2>1
<1>4. \A k \in Keys : Count(Whole', k) = Count(made', k)
  BY <1>1, <1>3 DEF SameValues
<1> QED
  BY <1>4 DEF SameValues

\* The invariant but for the types and the values, of any state.
Shape(w, b, e, n, l, r, p, d) ==
  /\ Ranges(b, e, n) /\ Cursors(b, e, n, l, r, d) /\ Halves(w, b, e, n, l, r, p, d)
  /\ Pivots(w, e, n) /\ Sorted(w, Top(e, n))

\* In the present state.
State == Shape(Whole, beg, end, level, tl, tr, pivot, doing)

\* A partition stops before the end of its range, which is as large as all of it.
LEMMA EndIsLargest ==
  ASSUME SortTypeOK, State, doing = "fromRight", tl # tr, key[tr] < pivot
  PROVE  end[level] < Length => tr < end[level]
<1> SUFFICES ASSUME end[level] < Length, tr >= end[level] PROVE FALSE
  BY Numbers DEF State, Shape, Ranges, Cursors, Positions
<1>1. /\ level \in 0 .. level /\ end[level] \in Positions /\ tr = end[level] /\ tl <= tr
      /\ InPlace(Whole, end[level])
  BY Numbers DEF State, Shape, Ranges, Cursors, Pivots, Positions
<1>2. Whole[tl] <= Whole[tr]
  BY <1>1, Numbers DEF InPlace, Positions
<1>3. Whole[tl] = pivot /\ Whole[tr] = key[tr]
  BY Numbers DEF Whole, Hole, Lists
<1> QED
  BY <1>2, <1>3, Numbers

\* Where the pivot goes it is in its place.
LEMMA PivotInPlace ==
  ASSUME SortTypeOK, State, doing = "split" PROVE InPlace(Whole, tl)
<1>1. /\ tl = tr /\ Whole[tl] = pivot /\ level \in Int /\ level >= 0
      /\ beg[level] \in Int /\ end[level] \in Positions /\ beg[level] <= tl /\ tl <= end[level]
  BY Numbers DEF State, Shape, Ranges, Cursors, Whole, Hole, Lists
<1> SUFFICES ASSUME NEW x \in Positions, NEW y \in Positions, x <= tl, tl <= y PROVE Whole[x] <= Whole[y]
  BY DEF InPlace
<1>2. CASE x < beg[level]
  <2>1. level > 0
    BY <1>1, <1>2, Numbers DEF State, Shape, Ranges
  <2>2. /\ level - 1 \in 0 .. level /\ end[level - 1] \in Positions /\ end[level - 1] < beg[level]
        /\ beg[level] = end[level - 1] + 1
    BY <1>1, <2>1 DEF State, Shape, Ranges
  <2>3. InPlace(Whole, end[level - 1])
    BY <1>1, <2>2, Numbers DEF State, Shape, Pivots, Positions
  <2> QED
    BY <1>1, <1>2, <2>2, <2>3, Numbers DEF InPlace, Positions
<1>3. CASE end[level] < y
  <2>1. InPlace(Whole, end[level])
    BY <1>1, <1>3, Numbers DEF State, Shape, Pivots, Positions
  <2> QED
    BY <1>1, <1>3, <2>1, Numbers DEF InPlace, Positions
<1>4. CASE beg[level] <= x /\ y <= end[level]
  <2>1. Whole[x] <= pivot
    <3>1. CASE x = tl
      BY <1>1, <3>1, Numbers
    <3>2. CASE x # tl
      BY <1>1, <1>4, <3>2, Numbers DEF State, Shape, Halves, Positions
    <3> QED
      BY <3>1, <3>2
  <2>2. pivot <= Whole[y]
    <3>1. CASE y = tl
      BY <1>1, <3>1, Numbers
    <3>2. CASE y # tl
      BY <1>1, <1>4, <3>2, Numbers DEF State, Shape, Halves, Positions
    <3> QED
      BY <3>1, <3>2
  <2> QED
    BY <2>1, <2>2, Numbers
<1> QED
  BY <1>1, <1>2, <1>3, <1>4, Numbers DEF Positions

\* A range of one node is in its place; so is one behind the tail.
LEMMA DropShape ==
  ASSUME SortTypeOK, State, Drop
  PROVE  Shape(Whole, beg, end, level - 1, tl, tr, pivot, doing)
<1>1. /\ doing = "level" /\ level \in Int /\ level >= 0 /\ level \in 0 .. level
      /\ beg[level] = end[level] \/ beg[level] = PastTail
      /\ Ranges(beg, end, level) /\ Pivots(Whole, end, level) /\ Sorted(Whole, end[level])
      /\ beg[level] \in Int /\ end[level] \in Positions
  BY Numbers DEF Drop, State, Shape, Ranges, Top
<1>2. Ranges(beg, end, level - 1)
  <2>1. level - 1 \in Int /\ -1 <= level - 1 /\ level - 1 < Length
    BY <1>1, Numbers DEF Ranges
  <2>2. 0 .. level - 1 \subseteq 0 .. level /\ 1 .. level - 1 \subseteq 1 .. level
    BY <1>1
  <2> QED
    BY <1>1, <2>1, <2>2 DEF Ranges
<1>3. Pivots(Whole, end, level - 1)
  BY <1>1 DEF Pivots
<1>4. Top(end, level - 1) = beg[level] - 1
  <2>1. CASE level = 0
    <3>1. beg[level] = 1 /\ Top(end, level - 1) = 0
      BY <1>1, <2>1 DEF Top, Ranges
    <3> QED
      BY <3>1
  <2>2. CASE level > 0
    <3>1. level \in 1 .. level /\ level - 1 \in 0 .. level
      BY <1>1, <2>2
    <3>2. beg[level] = end[level - 1] + 1 /\ end[level - 1] \in Positions
      BY <1>1, <3>1 DEF Ranges
    <3>3. Top(end, level - 1) = end[level - 1]
      BY <1>1, <2>2 DEF Top
    <3> QED
      BY <3>2, <3>3, Numbers
  <2> QED
    BY <1>1, <2>1, <2>2
<1>5. Sorted(Whole, beg[level] - 1)
  <2>1. CASE beg[level] = PastTail
    BY <2>1, Numbers DEF Sorted
  <2>2. CASE beg[level] = end[level] /\ end[level] = Length
    <3> SUFFICES ASSUME NEW x \in Positions, NEW y \in Positions, Length - 1 < x, x <= y PROVE Whole[x] <= Whole[y]
      BY <2>2 DEF Sorted
    <3>1. x = y
      BY Numbers
    <3> QED
      BY <3>1, Numbers
  <2>3. CASE beg[level] = end[level] /\ end[level] # Length
    <3>1. InPlace(Whole, end[level])
      BY <1>1, <2>3, Numbers DEF Pivots
    <3> SUFFICES ASSUME NEW x \in Positions, NEW y \in Positions, end[level] - 1 < x, x <= y PROVE Whole[x] <= Whole[y]
      BY <2>3 DEF Sorted
    <3>2. x = end[level] \/ end[level] < x
      BY <1>1, Numbers
    <3> QED
      BY <1>1, <3>1, <3>2, Numbers DEF InPlace, Sorted
  <2> QED
    BY <1>1, <2>1, <2>2, <2>3
<1> QED
  BY <1>1, <1>2, <1>3, <1>4, <1>5 DEF Shape, Cursors, Halves

\* The two new ranges, on either side of the end of the partition.
LEMMA SplitShape ==
  ASSUME SortTypeOK, State, Split,
         NEW b, b = Written(beg, level + 1, tl + 1),
         NEW e, e = Written(Written(end, level + 1, end[level]), level, tl)
  PROVE  Shape(Whole, b, e, level + 1, tl, tr, pivot, "level") /\ level + 1 \in 0 .. Length
<1>1. /\ doing = "split" /\ tl = tr /\ level \in Int /\ level >= 0 /\ level \in 0 .. level
      /\ Ranges(beg, end, level) /\ Pivots(Whole, end, level) /\ Sorted(Whole, end[level])
      /\ beg[level] \in Int /\ end[level] \in Positions /\ level + 1 <= beg[level]
      /\ beg[level] <= tl /\ tl <= end[level] /\ beg[level] < end[level]
      /\ end[level] < Length => tl < end[level]
  BY Numbers DEF Split, State, Shape, Ranges, Cursors, Top
<1>2. /\ 0 .. level + 1 \subseteq DOMAIN b /\ 0 .. level + 1 \subseteq DOMAIN e
      /\ b[level + 1] = tl + 1 /\ e[level + 1] = end[level] /\ e[level] = tl
      /\ \A j \in 0 .. level : b[j] = beg[j]
      /\ \A j \in 0 .. level - 1 : e[j] = end[j]
  <2>1. 0 .. level \subseteq DOMAIN beg /\ 0 .. level \subseteq DOMAIN end
    BY <1>1 DEF Ranges
  <2>2. DOMAIN b = DOMAIN beg \cup {level + 1} /\ DOMAIN e = DOMAIN end \cup {level + 1} \cup {level}
    BY DEF Written
  <2>3. 0 .. level + 1 = 0 .. level \cup {level + 1}
    BY <1>1
  <2>4. \A j \in 0 .. level + 1 :
          /\ b[j] = IF j = level + 1 THEN tl + 1 ELSE beg[j]
          /\ e[j] = IF j = level THEN tl ELSE IF j = level + 1 THEN end[level] ELSE end[j]
    BY <2>1, <2>2, <2>3 DEF Written
  <2> QED
    BY <1>1, <2>1, <2>2, <2>3, <2>4
<1>3. Ranges(b, e, level + 1)
  <2>1. level + 1 < Length
    BY <1>1, Numbers
  <2>2. \A j \in 0 .. level + 1 : /\ b[j] \in Int /\ e[j] \in Positions /\ j + 1 <= b[j]
                                  /\ b[j] <= e[j] \/ b[j] = PastTail
    <3>1. \A j \in 0 .. level - 1 : /\ b[j] \in Int /\ e[j] \in Positions /\ j + 1 <= b[j]
                                    /\ b[j] <= e[j] \/ b[j] = PastTail
      BY <1>1, <1>2 DEF Ranges
    <3>2. /\ b[level] \in Int /\ e[level] \in Positions /\ level + 1 <= b[level]
          /\ b[level] <= e[level]
      BY <1>1, <1>2, Numbers
    <3>3. /\ b[level + 1] \in Int /\ e[level + 1] \in Positions /\ level + 1 + 1 <= b[level + 1]
          /\ b[level + 1] <= e[level + 1] \/ b[level + 1] = PastTail
      <4>1. tl \in Int /\ Length \in Int /\ tl <= Length /\ end[level] \in Int /\ end[level] <= Length
        BY <1>1, Numbers
      <4>2. b[level + 1] = tl + 1 /\ e[level + 1] = end[level]
        BY <1>2
      <4>3. tl + 1 <= end[level] \/ tl + 1 = PastTail
        BY <1>1, <4>1, Numbers
      <4>4. level + 1 + 1 <= tl + 1
        BY <1>1, <4>1
      <4> QED
        BY <1>1, <4>1, <4>2, <4>3, <4>4
    <3>4. \A j \in 0 .. level + 1 : j \in 0 .. level - 1 \/ j = level \/ j = level + 1
      BY <1>1
    <3> QED
      BY <3>1, <3>2, <3>3, <3>4
  <2>3. \A j \in 0 .. level + 1 : \A i \in 0 .. level + 1 : i < j => e[i] < b[j]
    <3> SUFFICES ASSUME NEW j \in 0 .. level + 1, NEW i \in 0 .. level + 1, i < j PROVE e[i] < b[j]
      OBVIOUS
    <3>1. CASE j <= level
      BY <1>1, <1>2, <3>1 DEF Ranges
    <3>2. CASE j = level + 1 /\ i = level
      BY <1>2, <3>2, Numbers
    <3>3. CASE j = level + 1 /\ i < level
      <4>1. e[i] = end[i] /\ end[i] < beg[level] /\ end[i] \in Positions
        BY <1>1, <1>2, <3>3 DEF Ranges
      <4> QED
        BY <1>1, <1>2, <3>3, <4>1, Numbers
    <3> QED
      BY <1>1, <3>1, <3>2, <3>3
  <2>4. b[0] = 1
    BY <1>1, <1>2 DEF Ranges
  <2>5. \A j \in 1 .. level + 1 : b[j] = e[j - 1] + 1
    <3>1. \A j \in 1 .. level : b[j] = e[j - 1] + 1
      BY <1>1, <1>2 DEF Ranges
    <3>2. b[level + 1] = e[level + 1 - 1] + 1
      BY <1>1, <1>2
    <3> QED
      BY <1>1, <3>1, <3>2
  <2> QED
    BY <1>1, <1>2, <2>1, <2>2, <2>3, <2>4, <2>5 DEF Ranges
<1>4. Pivots(Whole, e, level + 1)
  <2> SUFFICES ASSUME NEW j \in 0 .. level + 1, e[j] < Length PROVE InPlace(Whole, e[j])
    BY DEF Pivots
  <2>1. CASE j < level
    BY <1>1, <1>2, <2>1 DEF Pivots
  <2>2. CASE j = level
    BY <1>1, <1>2, <2>2, PivotInPlace
  <2>3. CASE j = level + 1
    BY <1>1, <1>2, <2>3 DEF Pivots
  <2> QED
    BY <1>1, <2>1, <2>2, <2>3
<1>5. Sorted(Whole, Top(e, level + 1))
  BY <1>1, <1>2 DEF Top
<1>6. level + 1 \in 0 .. Length
  BY <1>1, <1>3, Numbers DEF Ranges
<1> QED
  BY <1>3, <1>4, <1>5, <1>6 DEF Shape, Cursors, Halves
\* A partition starts with nothing compared.
LEMMA PartitionShape ==
  ASSUME SortTypeOK, State, Partition
  PROVE  /\ Shape(Whole, beg, end, level, beg[level], end[level], key[beg[level]], "fromRight")
         /\ beg[level] \in Positions /\ end[level] \in Positions
<1>1. /\ level \in Int /\ level >= 0 /\ level \in 0 .. level
      /\ beg[level] # end[level] /\ beg[level] # PastTail
      /\ Ranges(beg, end, level) /\ Pivots(Whole, end, level) /\ Sorted(Whole, Top(end, level))
  BY Numbers DEF Partition, State, Shape
<1>2. /\ beg[level] \in Int /\ end[level] \in Positions /\ level + 1 <= beg[level]
      /\ beg[level] <= end[level]
  BY <1>1 DEF Ranges
<1>3. beg[level] \in Positions /\ beg[level] < end[level]
  BY <1>1, <1>2, Numbers
<1>4. Cursors(beg, end, level, beg[level], end[level], "fromRight")
  BY <1>1, <1>2, <1>3, Numbers DEF Cursors
<1>5. Halves(Whole, beg, end, level, beg[level], end[level], key[beg[level]], "fromRight")
  BY <1>2, Numbers DEF Halves
<1> QED
  BY <1>1, <1>2, <1>3, <1>4, <1>5 DEF Shape

\* Where a partition stands.
LEMMA Standing ==
  ASSUME SortTypeOK, State, doing \in {"fromRight", "fromLeft"}
  PROVE  /\ level \in Int /\ level >= 0 /\ level \in 0 .. level
         /\ beg[level] \in Int /\ beg[level] >= 1 /\ end[level] \in Positions
         /\ beg[level] <= tl /\ tl <= tr /\ tr <= end[level]
         /\ end[level] < Length => tr < end[level] \/ (doing = "fromRight" /\ tl < tr)
         /\ beg[level] < end[level]
         /\ Ranges(beg, end, level) /\ Pivots(Whole, end, level) /\ Sorted(Whole, end[level])
         /\ Top(end, level) = end[level]
         /\ \A x \in Positions : beg[level] <= x /\ x < tl => Whole[x] <= pivot
         /\ \A x \in Positions : tr < x /\ x <= end[level] => pivot <= Whole[x]
<1>1. /\ level \in Int /\ level >= 0 /\ level \in 0 .. level
      /\ beg[level] <= tl /\ tl <= tr /\ tr <= end[level] /\ beg[level] < end[level]
      /\ end[level] < Length => tr < end[level] \/ (doing = "fromRight" /\ tl < tr)
  BY Numbers DEF State, Shape, Cursors
<1>2. /\ beg[level] \in Int /\ level + 1 <= beg[level] /\ end[level] \in Positions
      /\ Ranges(beg, end, level) /\ Pivots(Whole, end, level)
  BY <1>1 DEF State, Shape, Ranges
<1>3. Top(end, level) = end[level]
  BY <1>1 DEF Top
<1>4. Sorted(Whole, end[level])
  BY <1>3 DEF State, Shape
<1>5. /\ \A x \in Positions : beg[level] <= x /\ x < tl => Whole[x] <= pivot
      /\ \A x \in Positions : tr < x /\ x <= end[level] => pivot <= Whole[x]
  BY DEF State, Shape, Halves
<1>6. beg[level] >= 1
  BY <1>1, <1>2
<1> QED
  BY <1>1, <1>2, <1>3, <1>4, <1>5, <1>6

\* The value passed on the right may stay there.
LEMMA LowerShape ==
  ASSUME SortTypeOK, State, Lower
  PROVE  Shape(Whole, beg, end, level, tl, tr - 1, pivot, "fromRight") /\ tr - 1 \in Positions
<1>1. doing = "fromRight" /\ key[tr] >= pivot /\ tl # tr
  BY DEF Lower
<1>2. tl < tr /\ tl \in Int /\ tr \in Int /\ tr - 1 \in Positions /\ end[level] \in Int
  BY <1>1, Standing, Numbers
<1>3. Whole[tr] = key[tr]
  BY <1>1, Numbers DEF Whole, Hole, Lists
<1>4. Cursors(beg, end, level, tl, tr - 1, "fromRight")
  BY <1>1, <1>2, Standing, Numbers DEF Cursors
<1>5. Halves(Whole, beg, end, level, tl, tr - 1, pivot, "fromRight")
  <2> SUFFICES ASSUME NEW x \in Positions, tr - 1 < x, x <= end[level] PROVE pivot <= Whole[x]
    BY <1>1, Standing DEF Halves
  <2>1. CASE x = tr
    BY <1>1, <1>3, <2>1, Numbers
  <2>2. CASE tr < x
    BY <1>1, <2>2, Standing
  <2> QED
    BY <1>2, <2>1, <2>2, Numbers
<1> QED
  BY <1>1, <1>2, <1>4, <1>5, Standing DEF Shape

\* The value passed on the left may stay there.
LEMMA RaiseShape ==
  ASSUME SortTypeOK, State, Raise
  PROVE  Shape(Whole, beg, end, level, tl + 1, tr, pivot, "fromLeft") /\ tl + 1 \in Positions
<1>1. doing = "fromLeft" /\ key[tl] <= pivot /\ tl # tr
  BY DEF Raise
<1>2. tl < tr /\ tl \in Int /\ tr \in Int /\ tl + 1 \in Positions /\ end[level] \in Int
  BY <1>1, Standing, Numbers
<1>3. Whole[tl] = key[tl]
  BY <1>1, Numbers DEF Whole, Hole, Lists
<1>4. Cursors(beg, end, level, tl + 1, tr, "fromLeft")
  BY <1>1, <1>2, Standing, Numbers DEF Cursors
<1>5. Halves(Whole, beg, end, level, tl + 1, tr, pivot, "fromLeft")
  <2> SUFFICES ASSUME NEW x \in Positions, beg[level] <= x, x < tl + 1 PROVE Whole[x] <= pivot
    BY <1>1, Standing DEF Halves
  <2>1. CASE x = tl
    BY <1>1, <1>3, <2>1, Numbers
  <2>2. CASE x < tl
    BY <1>1, <2>2, Standing
  <2> QED
    BY <1>2, <2>1, <2>2, Numbers
<1> QED
  BY <1>1, <1>2, <1>4, <1>5, Standing DEF Shape

\* A value less than the pivot goes to the left, and the pivot's place to tr.
LEMMA FillLeftShape ==
  ASSUME SortTypeOK, State, FillLeft
  PROVE  IF tl = tr THEN Shape(Whole, beg, end, level, tl, tr, pivot, "fromLeft")
         ELSE /\ Shape(Swapped(Whole, tl, tr), beg, end, level, tl + 1, tr, pivot, "fromLeft")
              /\ tl + 1 \in Positions
<1>1. doing = "fromRight" /\ ~(key[tr] >= pivot /\ tl # tr)
  BY DEF FillLeft
<1>2. tl \in Int /\ tr \in Int /\ end[level] \in Int
  BY <1>1, Standing, Numbers
<1>3. CASE tl = tr
  <2>1. Cursors(beg, end, level, tl, tr, "fromLeft")
    BY <1>1, <1>2, <1>3, Standing, Numbers DEF Cursors
  <2>2. Halves(Whole, beg, end, level, tl, tr, pivot, "fromLeft")
    BY <1>1, Standing DEF Halves
  <2> QED
    BY <1>1, <1>3, <2>1, <2>2, Standing DEF Shape
<1>4. ASSUME tl # tr
      PROVE  /\ Shape(Swapped(Whole, tl, tr), beg, end, level, tl + 1, tr, pivot, "fromLeft")
             /\ tl + 1 \in Positions
  <2>1. key[tr] < pivot /\ tl < tr /\ tl + 1 \in Positions
    <3>1. key[tr] < pivot
      BY <1>1, <1>4, Numbers
    <3>2. tl < tr
      BY <1>1, <1>2, <1>4, Standing
    <3>3. tl + 1 \in Positions
      BY <1>2, <3>2, Numbers
    <3> QED
      BY <3>1, <3>2, <3>3
  <2>2. end[level] < Length => tr < end[level]
    BY <1>1, <1>4, <2>1, EndIsLargest
  <2>3. Cursors(beg, end, level, tl + 1, tr, "fromLeft")
    BY <1>1, <1>2, <2>1, <2>2, Standing, Numbers DEF Cursors
  <2>4. Halves(Swapped(Whole, tl, tr), beg, end, level, tl + 1, tr, pivot, "fromLeft")
    <3>1. ASSUME NEW x \in Positions, beg[level] <= x, x < tl + 1 PROVE Swapped(Whole, tl, tr)[x] <= pivot
      <4>1. CASE x = tl
        <5>1. Swapped(Whole, tl, tr)[x] = Whole[tr]
          BY <4>1 DEF Swapped
        <5>2. Whole[tr] = key[tr]
          BY <1>1, <1>4, Numbers DEF Whole, Hole, Lists
        <5> QED
          BY <2>1, <5>1, <5>2, Numbers
      <4>2. CASE x < tl
        <5>1. Swapped(Whole, tl, tr)[x] = Whole[x]
          BY <1>2, <2>1, <4>2, Numbers DEF Swapped
        <5> QED
          BY <1>1, <3>1, <4>2, <5>1, Standing
      <4> QED
        BY <1>2, <3>1, <4>1, <4>2, Numbers
    <3>2. ASSUME NEW x \in Positions, tr < x, x <= end[level] PROVE pivot <= Swapped(Whole, tl, tr)[x]
      <4>1. Swapped(Whole, tl, tr)[x] = Whole[x]
        BY <1>2, <2>1, <3>2, Numbers DEF Swapped
      <4> QED
        BY <1>1, <3>2, <4>1, Standing
    <3> QED
      BY <3>1, <3>2 DEF Halves
  <2>5. Pivots(Swapped(Whole, tl, tr), end, level)
    <3>1. /\ beg[level] <= tl /\ tl <= end[level] /\ beg[level] <= tr /\ tr <= end[level]
          /\ end[level] < Length => tl < end[level] /\ tr < end[level]
      BY <1>1, <1>2, <2>1, <2>2, Standing, Numbers
    <3> QED
      BY <1>1, <3>1, Standing, Numbers, SwapPivots
  <2>6. Sorted(Swapped(Whole, tl, tr), end[level])
    <3>1. tl <= end[level] /\ tr <= end[level] /\ Sorted(Whole, end[level])
      BY <1>1, <1>2, <2>1, Standing
    <3> QED
      BY <1>2, <3>1, Numbers, SwapSorted
  <2> QED
    BY <1>1, <2>1, <2>3, <2>4, <2>5, <2>6, Standing DEF Shape
<1> QED
  BY <1>3, <1>4

\* A value greater than the pivot goes to the right, and the pivot's place to tl.
LEMMA FillRightShape ==
  ASSUME SortTypeOK, State, FillRight
  PROVE  IF tl = tr THEN Shape(Whole, beg, end, level, tl, tr, pivot, "split")
         ELSE /\ Shape(Swapped(Whole, tl, tr), beg, end, level, tl, tr - 1, pivot,
                       IF tl = tr - 1 THEN "split" ELSE "fromRight")
              /\ tr - 1 \in Positions
<1>1. doing = "fromLeft" /\ ~(key[tl] <= pivot /\ tl # tr)
  BY DEF FillRight
<1>2. tl \in Int /\ tr \in Int /\ end[level] \in Int
  BY <1>1, Standing, Numbers
<1>3. CASE tl = tr
  <2>1. Cursors(beg, end, level, tl, tr, "split")
    BY <1>1, <1>2, <1>3, Standing, Numbers DEF Cursors
  <2>2. Halves(Whole, beg, end, level, tl, tr, pivot, "split")
    BY <1>1, Standing DEF Halves
  <2> QED
    BY <1>1, <1>3, <2>1, <2>2, Standing DEF Shape
<1> DEFINE d == IF tl = tr - 1 THEN "split" ELSE "fromRight"
<1>4. ASSUME tl # tr
      PROVE  /\ Shape(Swapped(Whole, tl, tr), beg, end, level, tl, tr - 1, pivot, d)
             /\ tr - 1 \in Positions
  <2>1. pivot < key[tl] /\ tl < tr /\ tr - 1 \in Positions
    BY <1>1, <1>2, <1>4, Standing, Numbers
  <2>2. end[level] < Length => tr < end[level]
    BY <1>1, Standing
  <2>3. Cursors(beg, end, level, tl, tr - 1, d)
    <3>1. /\ level >= 0 /\ beg[level] <= tl /\ tl <= tr - 1 /\ tr - 1 <= end[level]
          /\ end[level] < Length => tr - 1 < end[level]
      BY <1>1, <1>2, <2>1, <2>2, Standing, Numbers
    <3>2. d = "split" => tl = tr - 1
      OBVIOUS
    <3> HIDE DEF d
    <3> QED
      BY <1>1, <3>1, <3>2, Standing DEF Cursors
  <2>4. Halves(Swapped(Whole, tl, tr), beg, end, level, tl, tr - 1, pivot, d)
    <3>1. ASSUME NEW x \in Positions, tr - 1 < x, x <= end[level] PROVE pivot <= Swapped(Whole, tl, tr)[x]
      <4>1. CASE x = tr
        <5>1. Swapped(Whole, tl, tr)[x] = Whole[tl]
          BY <4>1 DEF Swapped
        <5>2. Whole[tl] = key[tl]
          BY <1>1, <1>4, Numbers DEF Whole, Hole, Lists
        <5> QED
          BY <2>1, <5>1, <5>2, Numbers
      <4>2. CASE tr < x
        <5>1. Swapped(Whole, tl, tr)[x] = Whole[x]
          BY <1>2, <2>1, <4>2, Numbers DEF Swapped
        <5> QED
          BY <1>1, <3>1, <4>2, <5>1, Standing
      <4> QED
        BY <1>2, <3>1, <4>1, <4>2, Numbers
    <3>2. ASSUME NEW x \in Positions, beg[level] <= x, x < tl PROVE Swapped(Whole, tl, tr)[x] <= pivot
      <4>1. Swapped(Whole, tl, tr)[x] = Whole[x]
        BY <1>2, <2>1, <3>2, Numbers DEF Swapped
      <4> QED
        BY <1>1, <3>2, <4>1, Standing
    <3> HIDE DEF d
    <3> QED
      BY <3>1, <3>2 DEF Halves
  <2>5. Pivots(Swapped(Whole, tl, tr), end, level)
    <3>1. /\ beg[level] <= tl /\ tl <= end[level] /\ beg[level] <= tr /\ tr <= end[level]
          /\ end[level] < Length => tl < end[level] /\ tr < end[level]
      BY <1>1, <1>2, <2>1, <2>2, Standing, Numbers
    <3> QED
      BY <1>1, <3>1, Standing, Numbers, SwapPivots
  <2>6. Sorted(Swapped(Whole, tl, tr), end[level])
    <3>1. tl <= end[level] /\ tr <= end[level] /\ Sorted(Whole, end[level])
      BY <1>1, <1>2, <2>1, Standing
    <3> QED
      BY <1>2, <3>1, Numbers, SwapSorted
  <2> HIDE DEF d
  <2> QED
    BY <1>1, <2>1, <2>3, <2>4, <2>5, <2>6, Standing DEF Shape
<1> QED
  BY <1>3, <1>4
-----------------------------------------------------------------------------
(* The invariant holds *)

\* The list as made is one range, from its first node to its last.
LEMMA InitIInv == SortInit => IInv
<1> SUFFICES ASSUME SortInit PROVE IInv
  OBVIOUS
<1>1. /\ Length \in Nat /\ Length > 0 /\ Positions = 1 .. Length /\ Keys \subseteq Int
  BY SortAssumption DEF Positions
<1>2. /\ made \in Lists /\ key = made /\ level = 0 /\ doing = "level"
      /\ beg = [j \in {0} |-> 1] /\ end = [j \in {0} |-> Length] /\ Whole = key
  BY DEF SortInit, Lists, Whole
<1>3. SortTypeOK
  BY <1>1, <1>2 DEF SortInit, SortTypeOK, Lists
<1>4. Ranges(beg, end, level)
  <2>1. 0 .. level = {0} /\ beg[0] = 1 /\ end[0] = Length /\ 1 .. level = {}
    BY <1>2
  <2>2. DOMAIN beg = {0} /\ DOMAIN end = {0}
    BY <1>2
  <2>3. \A j \in 0 .. level : /\ beg[j] \in Int /\ end[j] \in Positions /\ j + 1 <= beg[j]
                              /\ beg[j] <= end[j]
    BY <1>1, <2>1
  <2> QED
    BY <1>1, <1>2, <2>1, <2>2, <2>3 DEF Ranges
<1>5. Pivots(Whole, end, level)
  BY <1>1, <1>2 DEF Pivots
<1>6. Sorted(Whole, Top(end, level))
  BY <1>1, <1>2 DEF Sorted, Top
<1>7. SameValues(Whole)
  BY <1>2 DEF SameValues
<1> QED
  BY <1>2, <1>3, <1>4, <1>5, <1>6, <1>7 DEF IInv, Cursors, Halves

\* Every step keeps the shape.
LEMMA NextState ==
  ASSUME SortTypeOK, State, [SortNext]_sortVars PROVE State'
<1>1. CASE UNCHANGED sortVars
  <2>1. /\ Whole' = Whole /\ beg' = beg /\ end' = end /\ level' = level
        /\ tl' = tl /\ tr' = tr /\ pivot' = pivot /\ doing' = doing
    BY <1>1 DEF sortVars, range, Whole, Hole
  <2> QED
    BY ONLY <2>1, State, Zenon DEF State
<1>2. CASE Drop
  <2>1. /\ Whole' = Whole /\ beg' = beg /\ end' = end /\ level' = level - 1
        /\ tl' = tl /\ tr' = tr /\ pivot' = pivot /\ doing' = doing
    BY <1>2, WholeMoves DEF Drop, SortNext
  <2>2. Shape(Whole, beg, end, level - 1, tl, tr, pivot, doing)
    BY <1>2, DropShape
  <2> QED
    BY ONLY <2>1, <2>2, Zenon DEF State
<1>3. CASE Partition
  <2>1. /\ Whole' = Whole /\ beg' = beg /\ end' = end /\ level' = level
        /\ tl' = beg[level] /\ tr' = end[level] /\ pivot' = key[beg[level]] /\ doing' = "fromRight"
    BY <1>3, WholeMoves DEF Partition, SortNext, range
  <2>2. Shape(Whole, beg, end, level, beg[level], end[level], key[beg[level]], "fromRight")
    BY <1>3, PartitionShape
  <2> QED
    BY ONLY <2>1, <2>2, Zenon DEF State
<1>4. CASE Lower
  <2>1. /\ Whole' = Whole /\ beg' = beg /\ end' = end /\ level' = level
        /\ tl' = tl /\ tr' = tr - 1 /\ pivot' = pivot /\ doing' = "fromRight"
    BY <1>4, WholeMoves DEF Lower, SortNext, range
  <2>2. Shape(Whole, beg, end, level, tl, tr - 1, pivot, "fromRight")
    BY <1>4, LowerShape
  <2> QED
    BY ONLY <2>1, <2>2, Zenon DEF State
<1>5. CASE Raise
  <2>1. /\ Whole' = Whole /\ beg' = beg /\ end' = end /\ level' = level
        /\ tl' = tl + 1 /\ tr' = tr /\ pivot' = pivot /\ doing' = "fromLeft"
    BY <1>5, WholeMoves DEF Raise, SortNext, range
  <2>2. Shape(Whole, beg, end, level, tl + 1, tr, pivot, "fromLeft")
    BY <1>5, RaiseShape
  <2> QED
    BY ONLY <2>1, <2>2, Zenon DEF State
<1>6. CASE FillLeft
  <2>1. /\ beg' = beg /\ end' = end /\ level' = level
        /\ tr' = tr /\ pivot' = pivot /\ doing' = "fromLeft"
        /\ Whole' = IF tl = tr THEN Whole ELSE Swapped(Whole, tl, tr)
        /\ tl' = IF tl = tr THEN tl ELSE tl + 1
    BY <1>6, WholeMoves DEF FillLeft, SortNext, range
  <2>2. Shape(IF tl = tr THEN Whole ELSE Swapped(Whole, tl, tr), beg, end, level,
              IF tl = tr THEN tl ELSE tl + 1, tr, pivot, "fromLeft")
    <3>1. CASE tl = tr
      BY <1>6, <3>1, FillLeftShape
    <3>2. CASE tl # tr
      BY <1>6, <3>2, FillLeftShape
    <3> QED
      BY <3>1, <3>2
  <2> QED
    BY ONLY <2>1, <2>2, Zenon DEF State
<1>7. CASE FillRight
  <2>1. /\ beg' = beg /\ end' = end /\ level' = level /\ tl' = tl /\ pivot' = pivot
        /\ Whole' = IF tl = tr THEN Whole ELSE Swapped(Whole, tl, tr)
    BY <1>7, WholeMoves DEF FillRight, SortNext, range
  <2>2. CASE tl = tr
    <3>1. tr' = tr /\ doing' = "split" /\ Whole' = Whole
      BY <1>7, <2>1, <2>2 DEF FillRight
    <3>2. Shape(Whole, beg, end, level, tl, tr, pivot, "split")
      BY <1>7, <2>2, FillRightShape
    <3> QED
      BY ONLY <2>1, <3>1, <3>2, Zenon DEF State
  <2>3. CASE tl # tr
    <3>1. /\ tr' = tr - 1 /\ Whole' = Swapped(Whole, tl, tr)
          /\ doing' = IF tl = tr - 1 THEN "split" ELSE "fromRight"
      BY <1>7, <2>1, <2>3 DEF FillRight
    <3>2. Shape(Swapped(Whole, tl, tr), beg, end, level, tl, tr - 1, pivot,
                IF tl = tr - 1 THEN "split" ELSE "fromRight")
      BY <1>7, <2>3, FillRightShape
    <3> QED
      BY ONLY <2>1, <3>1, <3>2, Zenon DEF State
  <2> QED
    BY <2>2, <2>3
<1>8. CASE Split
  <2> DEFINE b == Written(beg, level + 1, tl + 1)
             e == Written(Written(end, level + 1, end[level]), level, tl)
  <2>1. /\ Whole' = Whole /\ beg' = b /\ end' = e /\ level' = level + 1
        /\ tl' = tl /\ tr' = tr /\ pivot' = pivot /\ doing' = "level"
    BY <1>8, WholeMoves DEF Split, SortNext
  <2>2. Shape(Whole, b, e, level + 1, tl, tr, pivot, "level")
    BY <1>8, SplitShape
  <2> HIDE DEF b, e
  <2> QED
    BY ONLY <2>1, <2>2, Zenon DEF State
<1> QED
  BY <1>1, <1>2, <1>3, <1>4, <1>5, <1>6, <1>7, <1>8 DEF SortNext

\* Every step keeps the types: the cursors stay on the list, because the next
\* step of one is taken only while they have not met.
LEMMA NextTypeOK ==
  ASSUME SortTypeOK, State, [SortNext]_sortVars PROVE SortTypeOK'
<1>1. made' = made /\ made \in [Positions -> Keys]
  BY DEF SortTypeOK, SortNext, Drop, Partition, Lower, FillLeft, Raise, FillRight, Split, sortVars
<1>2. key' \in [Positions -> Keys] /\ pivot' \in Keys
  BY PartitionShape
     DEF SortTypeOK, SortNext, Drop, Partition, Lower, FillLeft, Raise, FillRight, Split, sortVars
<1>3. level' \in -1 .. Length
  <2>1. level - 1 \in -1 .. Length \/ ~Drop
    BY SortAssumption DEF SortTypeOK, Drop
  <2>2. level + 1 \in -1 .. Length \/ ~Split
    <3>1. Split => level + 1 \in 0 .. Length
      BY SplitShape
    <3> QED
      BY <3>1, Numbers
  <2>3. level' = level \/ (Drop /\ level' = level - 1) \/ (Split /\ level' = level + 1)
    BY DEF SortNext, Drop, Partition, Lower, FillLeft, Raise, FillRight, Split, sortVars, range
  <2>4. level \in -1 .. Length
    BY DEF SortTypeOK
  <2> QED
    BY ONLY <2>1, <2>2, <2>3, <2>4, Zenon
<1>4. tl' \in Positions /\ tr' \in Positions
  <2>1. tl \in Positions /\ tr \in Positions
    BY DEF SortTypeOK
  <2>2. CASE Partition
    <3>1. tl' = beg[level] /\ tr' = end[level] /\ beg[level] \in Positions /\ end[level] \in Positions
      BY <2>2, PartitionShape DEF Partition
    <3> QED
      BY ONLY <3>1, Zenon
  <2>3. CASE Lower
    <3>1. tl' = tl /\ tr' = tr - 1 /\ tr - 1 \in Positions
      BY <2>3, LowerShape DEF Lower
    <3> QED
      BY ONLY <2>1, <3>1, Zenon
  <2>4. CASE Raise
    <3>1. tr' = tr /\ tl' = tl + 1 /\ tl + 1 \in Positions
      BY <2>4, RaiseShape DEF Raise
    <3> QED
      BY ONLY <2>1, <3>1, Zenon
  <2>5. CASE FillLeft
    <3>1. tr' = tr /\ (tl' = tl \/ (tl' = tl + 1 /\ tl + 1 \in Positions))
      BY <2>5, FillLeftShape DEF FillLeft
    <3> QED
      BY ONLY <2>1, <3>1, Zenon
  <2>6. CASE FillRight
    <3>1. tl' = tl /\ (tr' = tr \/ (tr' = tr - 1 /\ tr - 1 \in Positions))
      BY <2>6, FillRightShape DEF FillRight
    <3> QED
      BY ONLY <2>1, <3>1, Zenon
  <2>7. CASE Drop \/ Split \/ UNCHANGED sortVars
    <3>1. tl' = tl /\ tr' = tr
      BY <2>7 DEF Drop, Split, sortVars
    <3> QED
      BY ONLY <2>1, <3>1, Zenon
  <2> QED
    BY <2>2, <2>3, <2>4, <2>5, <2>6, <2>7 DEF SortNext
<1>5. doing' \in {"level", "fromRight", "fromLeft", "split"}
  BY DEF SortTypeOK, SortNext, Drop, Partition, Lower, FillLeft, Raise, FillRight, Split, sortVars
<1> QED
  BY ONLY <1>1, <1>2, <1>3, <1>4, <1>5, Zenon DEF SortTypeOK, Positions

\* The parts of the invariant, with those about the ranges as one.
LEMMA Parts == IInv <=> SortTypeOK /\ State /\ SameValues(Whole)
BY DEF IInv, State, Shape

\* The invariant is inductive.
LEMMA NextIInv == IInv /\ [SortNext]_sortVars => IInv'
<1> SUFFICES ASSUME IInv, [SortNext]_sortVars PROVE IInv'
  OBVIOUS
<1>1. SortTypeOK /\ State /\ SameValues(Whole)
  BY Parts
<1>2. SortTypeOK' /\ State' /\ SameValues(Whole)'
  BY <1>1, NextTypeOK, NextState, NextSameValues
<1>3. IInv' <=> SortTypeOK' /\ State' /\ SameValues(Whole)'
  BY Zenon DEF IInv, State, Shape
<1> QED
  BY <1>2, <1>3

\* In every reachable state of a sort: what the comment above IInv says.
THEOREM SpecIInv == SortSpec => []IInv
<1> QED
  BY InitIInv, NextIInv, PTL DEF SortSpec

\* The cursors and the levels stay on the list and on the arrays.
THEOREM SpecSortTypeOK == SortSpec => []SortTypeOK
<1>1. IInv => SortTypeOK
  BY DEF IInv
<1> QED
  BY <1>1, SpecIInv, PTL

\* quicksort_iterative follows no link out of its range and never writes past
\* the end of its arrays, for lists of every length.
THEOREM SpecStaysInside == SortSpec => []StaysInside
<1>1. IInv => StaysInside
  <2> SUFFICES ASSUME IInv PROVE StaysInside
    OBVIOUS
  <2>1. level < MAX_LEVELS
    BY Parts, Numbers DEF IInv, Ranges
  <2>2. \A j \in 0 .. level : beg[j] = PastTail \/ (1 <= beg[j] /\ beg[j] <= end[j] /\ end[j] <= Length)
    <3> SUFFICES ASSUME NEW j \in 0 .. level, beg[j] # PastTail
                 PROVE  1 <= beg[j] /\ beg[j] <= end[j] /\ end[j] <= Length
      OBVIOUS
    <3>1. beg[j] \in Int /\ end[j] \in Positions /\ j + 1 <= beg[j] /\ beg[j] <= end[j]
      BY DEF IInv, Ranges
    <3> QED
      BY <3>1, Numbers DEF IInv
  <2>3. doing # "level" => beg[level] <= tl /\ tl <= tr /\ tr <= end[level]
    BY DEF IInv, Cursors
  <2> QED
    BY <2>1, <2>2, <2>3 DEF StaysInside
<1> QED
  BY <1>1, SpecIInv, PTL

\* list.c:153: when the loop ends the list is ordered and holds the values it
\* was made with, whatever they are and in whatever order.
THEOREM SpecSortsInPlace == SortSpec => []SortsInPlace
<1>1. IInv => SortsInPlace
  <2> SUFFICES ASSUME IInv, level < 0 PROVE SortsInPlace
    BY DEF SortsInPlace
  <2>1. doing = "level" /\ Whole = key /\ Top(end, level) = 0
    BY Parts, Numbers DEF IInv, Cursors, Whole, Top
  <2>2. \A a, b \in Positions : a <= b => key[a] <= key[b]
    <3>1. Sorted(key, 0)
      BY <2>1 DEF IInv
    <3> QED
      BY <3>1, SortAssumption DEF Sorted, Positions
  <2>3. \A k \in Keys : Cardinality({p \in Positions : key[p] = k})
                        = Cardinality({p \in Positions : made[p] = k})
    BY <2>1 DEF IInv, SameValues, Count
  <2> QED
    BY <2>2, <2>3 DEF SortsInPlace
<1> QED
  BY <1>1, SpecIInv, PTL

-----------------------------------------------------------------------------
(* The console: the invariant *)

Inputs == Files \cup {STDIN}
Place == [file : Inputs, pos : Nat \ {0}]

\* Open inputs in the order of their nesting: with -f they are scripts, and each is
\* sourced by the one below it.
Nested(m, s) ==
  /\ s \in Seq(Place)
  /\ m = "file" => /\ \A i \in 1 .. Len(s) : s[i].file \in Files
                   /\ \A i \in 1 .. Len(s) - 1 : s[i].file > s[i + 1].file

\* What qtest was started with.
Input ==
  /\ mode \in {"file", "missing", "terminal", "pipe"}
  /\ mode = "file" => \A i \in Files : script[i] \in Seq(Lines(i))

\* As long as lines are interpreted the lists are there and the limit is not reached.
Limits == ~quit_flag => cmd_frees = 0 /\ err_cnt < DefaultLimit

\* What main will answer.
Status ==
  /\ mainAt # "exit" => exitStatus = 0
  /\ mainAt = "finish_cmd" => err_cnt = 0
  /\ mode = "missing" => mainAt \in {"run_console", "exit"}
  /\ mainAt # "exit" /\ quit_flag /\ err_cnt = 0 => leak = "no"

\* ExitTells says nothing before the end, and ConsoleTypeOK no more of the errors than that
\* they are few.
ConsoleIInv == ConsoleTypeOK /\ ExitTells /\ Nested(mode, buf_stack) /\ Input /\ Limits /\ Status

-----------------------------------------------------------------------------
(* Inputs *)

\* There is a first file, and none has the number of standard input.
LEMMA FileNumbers ==
  /\ Len(MaxLines) \in Nat /\ Files = 1 .. Len(MaxLines) /\ 1 \in Files /\ NoFile = 0 /\ STDIN = 0
  /\ STDIN \notin Files /\ Inputs \subseteq Nat /\ Files \subseteq Nat
  /\ DefaultLimit \in Nat /\ DefaultLimit > 0
BY ConsoleAssumption DEF Files, STDIN, NoFile, Inputs

\* A line is what it makes the console do.
LEMMA LineTypes ==
  ASSUME NEW i \in Nat, NEW line \in Lines(i)
  PROVE  /\ line.cmd \in {"ok", "fail", "option", "partial", "source", "quit"}
         /\ line.cmd \in {"option", "partial"} => line.arg = 1
         /\ line.cmd = "source" /\ line.arg # NoFile => line.arg \in Files /\ line.arg > i
         /\ Failures(line) \in {1, 2}
BY FileNumbers DEF Lines, Plain, Line, Failures

\* A script that TLC enumerates is a sequence of lines of its file.
LEMMA ScriptSeq ==
  ASSUME NEW i \in Files, NEW s \in Contents(i) PROVE s \in Seq(Lines(i))
<1>1. MaxLines[i] \in Nat
  BY ConsoleAssumption DEF Files
<1>2. PICK n \in 0 .. MaxLines[i] : s \in [1 .. n -> Lines(i)]
  BY DEF Contents
<1> QED
  BY <1>1, <1>2

\* The innermost input is left.
LEMMA TailNested ==
  ASSUME NEW m, NEW s, Nested(m, s), s # <<>>
  PROVE  /\ Nested(m, Tail(s)) /\ Head(s) \in Place /\ s[1] = Head(s)
         /\ m = "file" /\ Tail(s) # <<>> => Tail(s)[1].file < Head(s).file
<1>1. s \in Seq(Place) /\ Len(s) \in Nat /\ Len(s) > 0
  BY DEF Nested
<1>2. /\ Tail(s) \in Seq(Place) /\ Len(Tail(s)) = Len(s) - 1
      /\ \A i \in 1 .. Len(s) - 1 : Tail(s)[i] = s[i + 1]
  BY <1>1
<1>3. Head(s) \in Place /\ s[1] = Head(s)
  BY <1>1
<1>4. Nested(m, Tail(s))
  BY <1>1, <1>2 DEF Nested
<1>5. m = "file" /\ Tail(s) # <<>> => Tail(s)[1].file < Head(s).file
  <2> SUFFICES ASSUME m = "file", Tail(s) # <<>> PROVE Tail(s)[1].file < Head(s).file
    OBVIOUS
  <2>1. Len(s) - 1 > 0
    BY <1>1, <1>2
  <2>2. Tail(s)[1] = s[2] /\ 1 \in 1 .. Len(s) - 1
    BY <1>1, <1>2, <2>1
  <2>3. s[1].file > s[2].file
    BY <2>2 DEF Nested
  <2>4. s[1].file \in Nat /\ s[2].file \in Nat
    <3>1. 1 \in 1 .. Len(s) /\ 2 \in 1 .. Len(s)
      BY <1>1, <2>1
    <3>2. s[1] \in Place /\ s[2] \in Place
      BY <1>1, <3>1
    <3> QED
      BY <3>2, FileNumbers DEF Place
  <2> QED
    BY <1>3, <2>2, <2>3, <2>4
<1> QED
  BY <1>3, <1>4, <1>5

\* A line is read from the innermost input.
LEMMA AdvanceNested ==
  ASSUME NEW m, NEW s, Nested(m, s), s # <<>>, NEW t, t = [s EXCEPT ![1].pos = @ + 1]
  PROVE  Nested(m, t) /\ t[1].file = Head(s).file
<1>1. s \in Seq(Place) /\ Len(s) \in Nat /\ Len(s) > 0 /\ s[1] \in Place /\ s[1] = Head(s)
  BY DEF Nested
<1>2. t = [s EXCEPT ![1] = [s[1] EXCEPT !.pos = s[1].pos + 1]]
  OBVIOUS
<1>3. [s[1] EXCEPT !.pos = s[1].pos + 1] \in Place /\ [s[1] EXCEPT !.pos = s[1].pos + 1].file = s[1].file
  BY <1>1 DEF Place
<1>4. t \in Seq(Place) /\ Len(t) = Len(s) /\ \A i \in 1 .. Len(s) : t[i].file = s[i].file
  BY <1>1, <1>2, <1>3
<1> QED
  BY <1>1, <1>4 DEF Nested

\* A sourced file becomes the innermost one.
LEMMA PushNested ==
  ASSUME NEW m, NEW s, Nested(m, s), NEW i \in Inputs,
         m = "file" => i \in Files /\ (s # <<>> => i > s[1].file)
  PROVE  Nested(m, push_file(i, s))
<1> DEFINE p == [file |-> i, pos |-> 1]
           t == push_file(i, s)
<1>1. s \in Seq(Place) /\ p \in Place /\ Len(s) \in Nat
  BY DEF Nested, Place
<1>2. /\ t \in Seq(Place) /\ Len(t) = Len(s) + 1 /\ t[1] = p
      /\ \A j \in 1 .. Len(s) : t[j + 1] = s[j]
  BY <1>1 DEF push_file
<1>3. \A j \in 2 .. Len(s) + 1 : j - 1 \in 1 .. Len(s) /\ t[j] = s[j - 1]
  BY <1>1, <1>2
<1>4. p.file = i
  OBVIOUS
<1> HIDE DEF p, t
<1>5. ASSUME m = "file", NEW j \in 1 .. Len(t) PROVE t[j].file \in Files
  <2>1. CASE j = 1
    BY <1>2, <1>4, <1>5, <2>1
  <2>2. CASE j # 1
    BY <1>1, <1>2, <1>3, <1>5, <2>2 DEF Nested
  <2> QED
    BY <2>1, <2>2
<1>6. ASSUME m = "file", NEW j \in 1 .. Len(t) - 1 PROVE t[j].file > t[j + 1].file
  <2>1. CASE j = 1
    <3>1. s # <<>> /\ t[j + 1] = s[1]
      BY <1>1, <1>2, <1>6, <2>1
    <3> QED
      BY <1>2, <1>4, <1>6, <2>1, <3>1
  <2>2. CASE j # 1
    <3>1. j - 1 \in 1 .. Len(s) - 1 /\ t[j] = s[j - 1] /\ t[j + 1] = s[j]
      BY <1>1, <1>2, <1>3, <1>6, <2>2
    <3>2. s[j - 1].file > s[(j - 1) + 1].file /\ (j - 1) + 1 = j
      BY <1>1, <1>6, <3>1 DEF Nested
    <3> QED
      BY <3>1, <3>2
  <2> QED
    BY <2>1, <2>2
<1> QED
  BY <1>2, <1>5, <1>6 DEF Nested, t

-----------------------------------------------------------------------------
(* One line *)

\* What a line leaves behind.
Interpreted ==
  /\ Nested(mode, buf_stack')
  /\ quit_flag' \in BOOLEAN /\ err_limit' \in {1, DefaultLimit} /\ err_cnt' \in 0 .. DefaultLimit + 1
  /\ cmd_frees' \in 0 .. 1 /\ leak' \in {"unchecked", "no", "yes"}
  /\ ~quit_flag' => cmd_frees' = 0 /\ err_cnt' < DefaultLimit
  /\ quit_flag' /\ err_cnt' = 0 => leak' = "no"

\* Errors beyond the limit set quit_flag; a command and the time command before it can
\* pass the limit by one.
LEMMA Recorded ==
  ASSUME ConsoleTypeOK, Limits, ~quit_flag, NEW n \in {0, 1, 2}, NEW l \in {1, DefaultLimit}, record_error(n, l)
  PROVE  /\ quit_flag' \in BOOLEAN /\ err_cnt' \in 0 .. DefaultLimit + 1
         /\ ~quit_flag' => err_cnt' < DefaultLimit
         /\ quit_flag' => err_cnt' # 0
<1>1. err_cnt \in Nat /\ err_cnt < DefaultLimit /\ quit_flag \in BOOLEAN
  BY FileNumbers DEF ConsoleTypeOK, Limits
<1>2. PICK e : e = err_cnt + n
  OBVIOUS
<1>3. /\ e \in 0 .. DefaultLimit + 1 /\ (n = 0 => e < DefaultLimit)
      /\ e < l => e < DefaultLimit
      /\ n > 0 /\ e >= l => e # 0
  BY <1>1, <1>2, FileNumbers
<1>4. err_cnt' = e /\ (quit_flag' <=> n > 0 /\ e >= l) /\ quit_flag' \in BOOLEAN
  BY <1>1, <1>2 DEF record_error
<1>5. e < DefaultLimit \/ (n > 0 /\ e >= l)
  BY <1>1, <1>2, <1>3, FileNumbers
<1> QED
  BY <1>3, <1>4, <1>5

\* The commands keep what the console promises between lines.
LEMMA RunInterpreted ==
  ASSUME ConsoleTypeOK, Limits, ~quit_flag, NEW i \in Nat, NEW line \in Lines(i), NEW inputs, Nested(mode, inputs),
         mode = "file" => (inputs # <<>> => i >= inputs[1].file), Run(line, inputs)
  PROVE  Interpreted
<1>0. /\ line.cmd \in {"ok", "fail", "option", "partial", "source", "quit"}
      /\ line.cmd \in {"option", "partial"} => line.arg = 1
      /\ line.cmd = "source" /\ line.arg # NoFile => line.arg \in Files /\ line.arg > i
      /\ Failures(line) \in {1, 2} /\ cmd_frees = 0 /\ err_limit \in {1, DefaultLimit}
      /\ leak \in {"unchecked", "no", "yes"}
  BY LineTypes DEF ConsoleTypeOK, Limits
<1>1. CASE Command(line, inputs)
  <2>1. PICK n \in {0, 1, 2} : record_error(n, err_limit)
    BY <1>0, <1>1 DEF Command
  <2>2. /\ quit_flag' \in BOOLEAN /\ err_cnt' \in 0 .. DefaultLimit + 1
        /\ ~quit_flag' => err_cnt' < DefaultLimit
        /\ quit_flag' => err_cnt' # 0
    BY <1>0, <2>1, Recorded
  <2> QED
    BY <1>0, <1>1, <2>2 DEF Command, Interpreted, quitting
<1>2. CASE do_source_cmd(line, inputs)
  <2>1. PICK n \in {0, 1, 2} : record_error(n, err_limit)
    BY <1>0, <1>2 DEF do_source_cmd
  <2>2. /\ quit_flag' \in BOOLEAN /\ err_cnt' \in 0 .. DefaultLimit + 1
        /\ ~quit_flag' => err_cnt' < DefaultLimit
        /\ quit_flag' => err_cnt' # 0
    BY <1>0, <2>1, Recorded
  <2>3. Nested(mode, buf_stack')
    <3>1. CASE line.arg = NoFile
      BY <1>2, <3>1 DEF do_source_cmd
    <3>2. CASE line.arg # NoFile
      <4>1. line.arg \in Files /\ line.arg > i
        BY <1>0, <1>2, <3>2 DEF do_source_cmd
      <4>2. mode = "file" /\ inputs # <<>> => line.arg > inputs[1].file
        <5> SUFFICES ASSUME mode = "file", inputs # <<>> PROVE line.arg > inputs[1].file
          OBVIOUS
        <5>1. Head(inputs) \in Place /\ inputs[1] = Head(inputs)
          BY TailNested
        <5>2. inputs[1].file \in Nat /\ line.arg \in Nat
          BY <4>1, <5>1, FileNumbers DEF Place
        <5> QED
          BY <4>1, <5>2
      <4>3. Nested(mode, push_file(line.arg, inputs))
        BY <4>1, <4>2, PushNested DEF Inputs
      <4> QED
        BY <1>2, <3>2, <4>3 DEF do_source_cmd
    <3> QED
      BY <3>1, <3>2
  <2> QED
    BY <1>0, <1>2, <2>2, <2>3 DEF do_source_cmd, Interpreted, quitting
<1>3. CASE do_option_cmd(line, inputs)
  <2>1. PICK n \in {0, 1, 2} : record_error(n, line.arg)
    BY <1>0, <1>3 DEF do_option_cmd
  <2>2. line.arg = 1
    BY <1>0, <1>3 DEF do_option_cmd
  <2>3. /\ quit_flag' \in BOOLEAN /\ err_cnt' \in 0 .. DefaultLimit + 1
        /\ ~quit_flag' => err_cnt' < DefaultLimit
        /\ quit_flag' => err_cnt' # 0
    BY <1>0, <2>1, <2>2, Recorded
  <2> QED
    BY <1>0, <1>3, <2>2, <2>3 DEF do_option_cmd, Interpreted, quitting
<1>4. CASE Quit(line)
  <2>1. /\ err_cnt \in Nat /\ err_cnt < DefaultLimit
        /\ \A n \in {0, 1, 2} : err_cnt + n \in 0 .. DefaultLimit + 1 /\ (n # 0 => err_cnt + n # 0)
    BY FileNumbers DEF ConsoleTypeOK, Limits
  <2>2. PICK n \in {0, 1, 2}, found \in {"no", "yes"} :
           /\ do_quit_cmd(found) /\ err_cnt' = err_cnt + n /\ (found = "yes" => n # 0)
    BY <1>0, <1>4 DEF Quit
  <2>3. err_cnt' \in 0 .. DefaultLimit + 1 /\ (found = "yes" => err_cnt' # 0)
    BY <2>1, <2>2
  <2>4. cmd_frees' = 1 /\ buf_stack' = <<>> /\ leak' = found
    BY <1>0, <2>2 DEF do_quit_cmd
  <2>5. Nested(mode, <<>>)
    BY DEF Nested
  <2> QED
    BY <1>0, <1>4, <2>2, <2>3, <2>4, <2>5 DEF Quit, Interpreted
<1> QED
  BY <1>1, <1>2, <1>3, <1>4 DEF Run

\* And so does a line that is dropped; executed grows by the place of one that is not.
LEMMA LineInterpreted ==
  ASSUME ConsoleIInv, mainAt # "exit", NEW i \in Nat, NEW line \in Lines(i), NEW inputs, Nested(mode, inputs),
         mode = "file" => (inputs # <<>> => i >= inputs[1].file),
         NEW at \in Inputs \X (Nat \ {0}), interpret_cmd(at, line, inputs)
  PROVE  /\ Interpreted /\ executed' \in Seq(Inputs \X (Nat \ {0}))
         /\ executed' # executed => ~quit_flag
<1>1. executed \in Seq(Inputs \X (Nat \ {0}))
  BY DEF ConsoleIInv, ConsoleTypeOK, Inputs
<1>2. CASE ~quit_flag /\ Interpret(at, line, inputs)
  <2>1. Interpreted
    BY <1>2, RunInterpreted DEF ConsoleIInv, Interpret
  <2>2. executed' \in Seq(Inputs \X (Nat \ {0}))
    BY <1>1, <1>2 DEF Interpret
  <2> QED
    BY <1>2, <2>1, <2>2
<1>3. CASE quit_flag /\ buf_stack' = inputs /\ UNCHANGED <<errors, quitting, executed>>
  BY <1>1, <1>3 DEF ConsoleIInv, ConsoleTypeOK, Limits, Status, Interpreted, errors, quitting
<1> QED
  BY <1>2, <1>3 DEF interpret_cmd

-----------------------------------------------------------------------------
(* The loop *)

\* What a step of the loop keeps besides.
LEMMA LoopKeeps ==
  ASSUME ConsoleIInv, mainAt = "loop", Interpreted, executed' \in Seq(Inputs \X (Nat \ {0})),
         UNCHANGED <<script, newline, mode, mainAt, exitStatus>>
  PROVE  ConsoleIInv'
<1>1. Nested(mode, buf_stack)'
  BY DEF Interpreted, Nested, Place, Inputs, Files, STDIN
<1>2. ConsoleTypeOK'
  <2>1. buf_stack' \in Seq([file : Files \cup {STDIN}, pos : Nat \ {0}])
    BY DEF Interpreted, Nested, Place, Inputs
  <2>2. \A i \in 1 .. Len(buf_stack') - 1 : mode = "file" => buf_stack'[i].file > buf_stack'[i + 1].file
    BY DEF Interpreted, Nested
  <2>3. executed' \in Seq((Files \cup {STDIN}) \X (Nat \ {0}))
    BY DEF Inputs
  <2> QED
    BY <2>1, <2>2, <2>3 DEF ConsoleIInv, ConsoleTypeOK, Interpreted, Files, STDIN
<1>3. Limits' /\ Status' /\ ExitTells'
  BY DEF ConsoleIInv, Interpreted, Limits, Status, ExitTells
<1>4. Input'
  BY DEF ConsoleIInv, Input, Files
<1> QED
  BY <1>1, <1>2, <1>3, <1>4 DEF ConsoleIInv

\* readline: the line there is in the innermost script, or its end.
LEMMA SelectKeeps ==
  ASSUME ConsoleIInv, cmd_select PROVE ConsoleIInv' /\ (executed' # executed => ~quit_flag)
<1> DEFINE top == Head(buf_stack)
           lines == script[top.file]
           rest == Tail(buf_stack)
           advanced == [buf_stack EXCEPT ![1].pos = @ + 1]
<1>1. /\ mainAt = "loop" /\ mode = "file" /\ buf_stack # <<>> /\ UNCHANGED <<script, newline, mode, mainAt, exitStatus>>
      /\ IF top.pos > Len(lines)
         THEN EndOfFile /\ UNCHANGED <<errors, quitting, executed>>
         ELSE interpret_cmd(<<top.file, top.pos>>, lines[top.pos],
                            IF top.pos = Len(lines) /\ ~newline[top.file] THEN rest ELSE advanced)
  BY DEF cmd_select, cmd_done
<1>2. /\ Nested(mode, buf_stack) /\ Nested(mode, rest) /\ top \in Place /\ top.file \in Files
      /\ rest # <<>> => rest[1].file < top.file
      /\ Nested(mode, advanced) /\ advanced[1].file = top.file
  <2>1. Nested(mode, buf_stack)
    BY DEF ConsoleIInv
  <2>2. Nested(mode, rest) /\ top \in Place /\ buf_stack[1] = top /\ (rest # <<>> => rest[1].file < top.file)
    BY <1>1, <2>1, TailNested
  <2>3. top.file \in Files
    <3>1. 1 \in 1 .. Len(buf_stack)
      BY <1>1, <2>1 DEF Nested
    <3> QED
      BY <1>1, <2>1, <2>2, <3>1 DEF Nested
  <2>4. Nested(mode, advanced) /\ advanced[1].file = top.file
    BY <1>1, <2>1, AdvanceNested
  <2> QED
    BY <2>1, <2>2, <2>3, <2>4
<1>3. lines \in Seq(Lines(top.file)) /\ top.pos \in Nat \ {0} /\ top.file \in Nat
  BY <1>1, <1>2, FileNumbers DEF ConsoleIInv, Input, Place
<1> HIDE DEF top, lines, rest, advanced
<1>4. CASE top.pos > Len(lines)
  <2>1. buf_stack' = rest /\ UNCHANGED <<errors, quitting, executed>>
    BY <1>1, <1>4 DEF EndOfFile, rest
  <2>2. Interpreted
    BY <1>1, <1>2, <2>1 DEF ConsoleIInv, ConsoleTypeOK, Limits, Status, Interpreted, errors, quitting
  <2>3. executed' \in Seq(Inputs \X (Nat \ {0}))
    BY <2>1 DEF ConsoleIInv, ConsoleTypeOK, Inputs
  <2> QED
    BY <1>1, <2>1, <2>2, <2>3, LoopKeeps
<1>5. CASE ~(top.pos > Len(lines))
  <2>1. PICK inputs : inputs = IF top.pos = Len(lines) /\ ~newline[top.file] THEN rest ELSE advanced
    OBVIOUS
  <2>2. interpret_cmd(<<top.file, top.pos>>, lines[top.pos], inputs)
    BY <1>1, <1>5, <2>1
  <2>3. lines[top.pos] \in Lines(top.file)
    BY <1>3, <1>5
  <2>4. Nested(mode, inputs)
    BY <1>2, <2>1
  <2>5. inputs # <<>> => top.file >= inputs[1].file
    <3>1. ASSUME rest # <<>> PROVE top.file >= rest[1].file
      <4>1. rest[1].file \in Nat
        <5>1. rest[1] \in Place
          BY <1>2, <3>1, TailNested
        <5> QED
          BY <5>1, FileNumbers DEF Place
      <4> QED
        BY <1>2, <1>3, <3>1, <4>1
    <3>2. top.file >= advanced[1].file
      BY <1>2, <1>3
    <3> QED
      BY <2>1, <3>1, <3>2
  <2>6. <<top.file, top.pos>> \in Inputs \X (Nat \ {0})
    BY <1>2, <1>3 DEF Inputs
  <2>7. /\ Interpreted /\ executed' \in Seq(Inputs \X (Nat \ {0}))
        /\ executed' # executed => ~quit_flag
    BY <1>1, <1>3, <2>2, <2>3, <2>4, <2>5, <2>6, LineInterpreted
  <2> QED
    BY <1>1, <2>7, LoopKeeps
<1> QED
  BY <1>4, <1>5

\* A line typed, which no input on the stack has a part in.
LEMMA LinenoiseKeeps ==
  ASSUME ConsoleIInv, linenoise PROVE ConsoleIInv' /\ (executed' # executed => ~quit_flag)
<1>1. /\ mainAt = "loop" /\ mode # "file" /\ UNCHANGED <<script, newline, mode, mainAt, exitStatus>>
      /\ \E line \in Lines(0) : interpret_cmd(<<STDIN, Len(executed) + 1>>, line, buf_stack)
  BY DEF linenoise
<1>2. PICK line \in Lines(0) : interpret_cmd(<<STDIN, Len(executed) + 1>>, line, buf_stack)
  BY <1>1
<1>3. <<STDIN, Len(executed) + 1>> \in Inputs \X (Nat \ {0})
  <2>1. Len(executed) \in Nat
    BY DEF ConsoleIInv, ConsoleTypeOK
  <2> QED
    BY <2>1 DEF Inputs
<1>4. Nested(mode, buf_stack)
  BY DEF ConsoleIInv
<1>5. /\ Interpreted /\ executed' \in Seq(Inputs \X (Nat \ {0}))
      /\ executed' # executed => ~quit_flag
  BY <1>1, <1>2, <1>3, <1>4, LineInterpreted
<1> QED
  BY <1>1, <1>5, LoopKeeps

\* The steps of main before and after the loop.
LEMMA MainKeeps ==
  ASSUME ConsoleIInv, run_console \/ InputEnds \/ finish_cmd \/ UNCHANGED consoleVars PROVE ConsoleIInv' /\ executed' = executed
<1>0. ConsoleTypeOK /\ ExitTells /\ Nested(mode, buf_stack) /\ Input /\ Limits /\ Status
  BY DEF ConsoleIInv
<1>1. UNCHANGED <<script, mode, executed, Files>>
  BY DEF run_console, InputEnds, finish_cmd, consoleVars, console, Files
<1>2. Input'
  BY <1>0, <1>1 DEF Input
<1>3. /\ Nested(mode, <<>>) /\ \A i \in Inputs : (mode = "file" => i \in Files) => Nested(mode, push_file(i, <<>>))
  <2>1. Nested(mode, <<>>)
    BY DEF Nested
  <2> QED
    BY <2>1, PushNested
<1>4. Nested(mode, buf_stack)'
  <2>1. \/ buf_stack' = buf_stack \/ buf_stack' = <<>>
        \/ buf_stack' = push_file(IF mode = "file" THEN 1 ELSE STDIN, <<>>)
    BY DEF run_console, InputEnds, finish_cmd, consoleVars, console, do_quit_cmd
  <2>2. Nested(mode, buf_stack')
    BY <1>0, <1>3, <2>1, FileNumbers DEF Inputs
  <2> QED
    BY <1>1, <2>2 DEF Nested, Place, Inputs
<1>5. /\ buf_stack' \in Seq([file : Files \cup {STDIN}, pos : Nat \ {0}])
      /\ \A i \in 1 .. Len(buf_stack') - 1 : mode' = "file" => buf_stack'[i].file > buf_stack'[i + 1].file
  BY <1>1, <1>4 DEF Nested, Place, Inputs
<1>6. ASSUME run_console PROVE ConsoleTypeOK' /\ Limits' /\ Status' /\ ExitTells'
  <2>1. /\ mainAt = "run_console" /\ UNCHANGED <<mode, errors, quitting, executed>>
        /\ \/ mode = "missing" /\ mainAt' = "exit" /\ exitStatus' = 1
           \/ mode # "missing" /\ mainAt' = "loop" /\ exitStatus' = exitStatus
    BY <1>6 DEF run_console
  <2>2. ConsoleTypeOK'
    BY <1>0, <1>1, <1>5, <2>1 DEF ConsoleTypeOK, errors, quitting
  <2> QED
    BY <1>0, <2>1, <2>2 DEF Limits, Status, ExitTells, errors, quitting
<1>7. ASSUME InputEnds PROVE ConsoleTypeOK' /\ Limits' /\ Status' /\ ExitTells'
  <2>1. /\ mainAt = "loop" /\ UNCHANGED <<mode, errors, quitting, executed>>
        /\ \/ err_cnt = 0 /\ mainAt' = "finish_cmd" /\ exitStatus' = exitStatus
           \/ err_cnt # 0 /\ mainAt' = "exit" /\ exitStatus' = 1
    BY <1>7 DEF InputEnds, console
  <2>2. ConsoleTypeOK'
    BY <1>0, <1>1, <1>5, <2>1 DEF ConsoleTypeOK, errors, quitting
  <2> QED
    BY <1>0, <2>1, <2>2 DEF Limits, Status, ExitTells, errors, quitting
<1>8. ASSUME finish_cmd PROVE ConsoleTypeOK' /\ Limits' /\ Status' /\ ExitTells'
  <2>1. /\ mainAt = "finish_cmd" /\ mainAt' = "exit" /\ quit_flag' = TRUE /\ UNCHANGED <<mode, err_cnt, err_limit, executed>>
        /\ \/ quit_flag /\ exitStatus' = 0 /\ UNCHANGED <<cmd_frees, leak>>
           \/ ~quit_flag /\ \E found \in {"no", "yes"} :
                 /\ cmd_frees' = cmd_frees + 1 /\ leak' = found
                 /\ exitStatus' = IF found = "yes" THEN 1 ELSE 0
    BY <1>8 DEF finish_cmd, do_quit_cmd, quitting
  <2>2. err_cnt = 0 /\ mode # "missing" /\ (quit_flag => leak = "no") /\ (~quit_flag => cmd_frees + 1 = 1)
    BY <1>0, <2>1 DEF Status, Limits
  <2>3. /\ cmd_frees' \in 0 .. 1 /\ leak' \in {"unchecked", "no", "yes"} /\ exitStatus' \in 0 .. 1
        /\ exitStatus' = 0 <=> leak' = "no"
    BY <1>0, <2>1, <2>2 DEF ConsoleTypeOK
  <2>4. ConsoleTypeOK'
    BY <1>0, <1>1, <1>5, <2>1, <2>3 DEF ConsoleTypeOK
  <2> QED
    BY <2>1, <2>2, <2>3, <2>4 DEF Limits, Status, ExitTells
<1>9. ASSUME UNCHANGED consoleVars PROVE ConsoleTypeOK' /\ Limits' /\ Status' /\ ExitTells'
  BY <1>0, <1>1, <1>5, <1>9 DEF consoleVars, console, errors, quitting, ConsoleTypeOK, Limits, Status, ExitTells
<1> QED
  BY <1>1, <1>2, <1>4, <1>6, <1>7, <1>8, <1>9 DEF ConsoleIInv

-----------------------------------------------------------------------------
(* The theorems *)

\* The program starts with nothing read.
LEMMA ConsoleInitIInv == ConsoleInit => ConsoleIInv
<1> SUFFICES ASSUME ConsoleInit PROVE ConsoleIInv
  OBVIOUS
<1>1. /\ buf_stack = <<>> /\ quit_flag = FALSE /\ err_cnt = 0 /\ err_limit = DefaultLimit /\ cmd_frees = 0
      /\ leak = "unchecked" /\ executed = <<>> /\ mainAt = "run_console" /\ exitStatus = 0
      /\ mode \in {"file", "missing", "terminal", "pipe"}
  BY DEF ConsoleInit
<1>2. ConsoleTypeOK
  <2>1. /\ buf_stack \in Seq([file : Files \cup {STDIN}, pos : Nat \ {0}])
        /\ executed \in Seq(({STDIN} \cup Files) \X (Nat \ {0}))
    BY <1>1
  <2>2. \A i \in 1 .. Len(buf_stack) - 1 : FALSE
    BY <1>1
  <2>3. err_cnt \in 0 .. DefaultLimit + 1
    BY <1>1, FileNumbers
  <2>4. cmd_frees \in 0 .. 1 /\ exitStatus \in 0 .. 1 /\ err_limit \in {1, DefaultLimit}
    BY <1>1
  <2>5. leak \in {"unchecked", "no", "yes"} /\ mainAt \in {"run_console", "loop", "finish_cmd", "exit"}
    BY <1>1
  <2>6. quit_flag \in BOOLEAN
    BY <1>1, Zenon
  <2> QED
    BY <2>1, <2>2, <2>3, <2>4, <2>5, <2>6 DEF ConsoleTypeOK
<1>3. mode = "file" => \A i \in Files : script[i] \in Seq(Lines(i))
  BY ScriptSeq DEF ConsoleInit, Scripts
<1>4. Nested(mode, buf_stack)
  BY <1>1 DEF Nested
<1> QED
  BY <1>1, <1>2, <1>3, <1>4, FileNumbers DEF ConsoleIInv, ExitTells, Input, Limits, Status

\* Every step keeps the invariant.
LEMMA ConsoleNextIInv == ConsoleIInv /\ [ConsoleNext]_consoleVars => ConsoleIInv'
BY SelectKeeps, LinenoiseKeeps, MainKeeps DEF ConsoleNext, Exited

\* The invariant holds in every state of the console.
THEOREM ConsoleSpecIInv == ConsoleSpec => []ConsoleIInv
BY ConsoleInitIInv, ConsoleNextIInv, PTL DEF ConsoleSpec

\* console.c:268-294, :600-607: the lists are freed once, the inputs nest, and the exit
\* status tells whether anything has failed, whatever the scripts or the user do.
THEOREM SpecConsoleInv == ConsoleSpec => []ConsoleInv
<1>1. ConsoleIInv => ConsoleInv
  BY DEF ConsoleIInv, ConsoleInv
<1> QED
  BY <1>1, ConsoleSpecIInv, PTL

\* interpret_cmd: its one test keeps every line from a freed command list, and from one
\* more line after the limit.
THEOREM SpecNothingAfterQuit == ConsoleSpec => NothingAfterQuit
<1>1. ConsoleIInv /\ [ConsoleNext]_consoleVars => [executed' # executed => cmd_frees = 0 /\ err_cnt < DefaultLimit]_consoleVars
  <2> SUFFICES ASSUME ConsoleIInv, [ConsoleNext]_consoleVars, executed' # executed PROVE cmd_frees = 0 /\ err_cnt < DefaultLimit
    OBVIOUS
  <2>1. ~quit_flag
    BY SelectKeeps, LinenoiseKeeps, MainKeeps DEF ConsoleNext, Exited
  <2> QED
    BY <2>1 DEF ConsoleIInv, Limits
<1> QED
  BY <1>1, ConsoleSpecIInv, PTL DEF ConsoleSpec, NothingAfterQuit

-----------------------------------------------------------------------------
(* The console: the order of lines *)

\* Two functions that agree wherever they agree on all smaller arguments are the same.
AgreeSoFar(D, mu, f, h) ==
  \A x \in D : (\A y \in D : mu[y] < mu[x] => f[y] = h[y]) => f[x] = h[x]

\* They agree everywhere.
LEMMA SameRecursion ==
  ASSUME NEW D, NEW mu \in [D -> Nat], NEW f, NEW h, AgreeSoFar(D, mu, f, h)
  PROVE  \A x \in D : f[x] = h[x]
<1> DEFINE E == {x \in D : f[x] # h[x]}
<1> SUFFICES ASSUME E # {} PROVE FALSE
  OBVIOUS
<1>1. PICK x \in E : \A y \in D : mu[y] < mu[x] => y \notin E
  <2>1. E \in SUBSET D
    OBVIOUS
  <2> HIDE DEF E
  <2> QED
    BY <2>1, FirstBad
<1> QED
  BY <1>1 DEF AgreeSoFar

\* What FlattenSeq has put together of the first i sequences.
LEMMA FlattenGrows ==
  ASSUME NEW S, NEW seqs \in Seq(Seq(S)), seqs # <<>>
  PROVE  \E f \in [1 .. Len(seqs) -> Seq(S)] :
           /\ f[1] = seqs[1] /\ FlattenSeq(seqs) = f[Len(seqs)]
           /\ \A i \in 1 .. Len(seqs) : i # 1 => f[i] = f[i - 1] \o seqs[i]
<1> DEFINE D == 1 .. Len(seqs)
           Body(g, i) == IF i = 1 THEN seqs[i] ELSE g[i - 1] \o seqs[i]
           B == [g \in [D -> Seq(S)] |-> [i \in D |-> Body(g, i)]]
           mu == [i \in D |-> i]
           M == CHOOSE m : m = [i \in D |-> Body(m, i)]
<1>1. Len(seqs) \in Nat /\ Len(seqs) # 0 /\ \A i \in D : seqs[i] \in Seq(S)
  OBVIOUS
<1>2. mu \in [D -> Nat]
  BY <1>1
<1>3. ASSUME NEW g \in [D -> Seq(S)], NEW i \in D PROVE Body(g, i) \in Seq(S)
  <2>1. CASE i = 1
    BY <1>1, <2>1
  <2>2. CASE i # 1
    <3>1. i - 1 \in D
      BY <1>1, <2>2
    <3>2. g[i - 1] \in Seq(S) /\ seqs[i] \in Seq(S)
      BY <1>1, <3>1
    <3> HIDE DEF D
    <3> QED
      BY <2>2, <3>2, ConcatProperties
  <2> QED
    BY <2>1, <2>2
<1>4. ASSUME NEW g, NEW h, NEW i \in D, \A j \in D : mu[j] < mu[i] => g[j] = h[j]
      PROVE  Body(g, i) = Body(h, i)
  <2>1. CASE i = 1
    BY <2>1
  <2>2. CASE i # 1
    <3>1. i - 1 \in D /\ i - 1 < i
      BY <1>1, <2>2
    <3>2. mu[i - 1] < mu[i]
      BY <3>1
    <3> QED
      BY <1>4, <2>2, <3>1, <3>2
  <2> QED
    BY <2>1, <2>2
<1>5. Seq(S) # {}
  <2>1. <<>> \in Seq(S)
    OBVIOUS
  <2> QED
    BY <2>1
<1> HIDE DEF Body
<1>6. B \in [[D -> Seq(S)] -> [D -> Seq(S)]]
  BY <1>3
<1>7. \A g, h \in [D -> Seq(S)], i \in D :
        (\A j \in D : mu[j] < mu[i] => g[j] = h[j]) => B[g][i] = B[h][i]
  <2> SUFFICES ASSUME NEW g \in [D -> Seq(S)], NEW h \in [D -> Seq(S)], NEW i \in D,
                      \A j \in D : mu[j] < mu[i] => g[j] = h[j]
               PROVE  B[g][i] = B[h][i]
    OBVIOUS
  <2>1. Body(g, i) = Body(h, i)
    BY <1>4
  <2> QED
    BY <2>1
<1>8. PICK f \in [D -> Seq(S)] : f = [i \in D |-> Body(f, i)]
  <2>1. Recursion(D, Seq(S), mu, B)
    <3> HIDE DEF D, mu, B
    <3> QED
      BY <1>2, <1>5, <1>6, <1>7 DEF Recursion
  <2>2. \E f \in [D -> Seq(S)] : f = B[f]
    <3> HIDE DEF D, mu, B
    <3> QED
      BY <2>1, RecursionDefines
  <2> QED
    BY <2>2
<1>9. M = [i \in D |-> Body(M, i)]
  <2> HIDE DEF D
  <2> QED
    BY <1>8
<1> HIDE DEF M
<1>10. ASSUME NEW k \in D PROVE M[k] = f[k]
  <2>1. ASSUME NEW i \in D, \A j \in D : mu[j] < mu[i] => M[j] = f[j] PROVE M[i] = f[i]
    <3>1. Body(M, i) = Body(f, i)
      BY <1>4, <2>1
    <3>2. M[i] = Body(M, i) /\ f[i] = Body(f, i)
      <4> HIDE DEF D, mu, B
      <4> QED
        BY <1>8, <1>9
    <3> QED
      BY <3>1, <3>2
  <2>2. AgreeSoFar(D, mu, M, f)
    <3> HIDE DEF D, mu, B
    <3> QED
      BY <2>1 DEF AgreeSoFar
  <2> HIDE DEF D, mu, B
  <2> QED
    BY <1>2, <2>2, SameRecursion
<1>11. FlattenSeq(seqs) = M[Len(seqs)]
  BY <1>1 DEF FlattenSeq, M, Body
<1>12. Len(seqs) \in D /\ 1 \in D
  BY <1>1
<1>13. FlattenSeq(seqs) = f[Len(seqs)]
  BY <1>10, <1>11, <1>12
<1>14. \A i \in D : f[i] = Body(f, i)
  <2> HIDE DEF D
  <2> QED
    BY <1>8
<1>15. f[1] = seqs[1] /\ \A i \in D : i # 1 => f[i] = f[i - 1] \o seqs[i]
  <2> HIDE DEF D
  <2> QED
    BY <1>12, <1>14 DEF Body
<1> QED
  BY <1>8, <1>13, <1>15

\* Nothing is put together of nothing.
LEMMA FlattenNothing == FlattenSeq(<<>>) = <<>>
BY DEF FlattenSeq

\* What is put together begins with the first sequence and goes on with the others.
LEMMA FlattenFront ==
  ASSUME NEW S, NEW seqs \in Seq(Seq(S)), seqs # <<>>
  PROVE  /\ FlattenSeq(seqs) \in Seq(S) /\ FlattenSeq(Tail(seqs)) \in Seq(S)
         /\ FlattenSeq(seqs) = seqs[1] \o FlattenSeq(Tail(seqs))
<1>1. /\ Tail(seqs) \in Seq(Seq(S)) /\ Len(Tail(seqs)) = Len(seqs) - 1 /\ Len(seqs) \in Nat \ {0}
      /\ \A i \in 1 .. Len(Tail(seqs)) : Tail(seqs)[i] = seqs[i + 1]
  BY HeadAndTail
<1>0. PICK rest : rest = Tail(seqs)
  OBVIOUS
<1>2. PICK n \in Nat : n = Len(rest) /\ rest = Tail(seqs) /\ Len(seqs) = n + 1
  <2>1. PICK m \in Nat \ {0} : m = Len(seqs)
    BY <1>1
  <2>2. m - 1 \in Nat /\ m = (m - 1) + 1
    OBVIOUS
  <2> QED
    BY <1>0, <1>1, <2>1, <2>2
<1>3. \A i \in 1 .. n + 1 : seqs[i] \in Seq(S)
  BY <1>2
<1>4. PICK f \in [1 .. n + 1 -> Seq(S)] :
        /\ f[1] = seqs[1] /\ FlattenSeq(seqs) = f[n + 1]
        /\ \A i \in 1 .. n + 1 : i # 1 => f[i] = f[i - 1] \o seqs[i]
  <2>1. \E f \in [1 .. Len(seqs) -> Seq(S)] :
          /\ f[1] = seqs[1] /\ FlattenSeq(seqs) = f[Len(seqs)]
          /\ \A i \in 1 .. Len(seqs) : i # 1 => f[i] = f[i - 1] \o seqs[i]
    BY FlattenGrows
  <2> QED
    BY <1>2, <2>1
<1>5. n + 1 \in 1 .. n + 1 /\ 1 \in 1 .. n + 1
  OBVIOUS
<1>6. FlattenSeq(seqs) \in Seq(S) /\ f[1] \in Seq(S)
  BY <1>4, <1>5
<1>7. CASE n = 0
  <2>1. Tail(seqs) = <<>>
    <3>1. rest \in Seq(Seq(S)) /\ Len(rest) = 0
      BY <1>1, <1>2, <1>7
    <3> QED
      BY <1>2, <3>1, EmptySeq
  <2>2. FlattenSeq(Tail(seqs)) = <<>> /\ <<>> \in Seq(S)
    BY <2>1, FlattenNothing, EmptySeq
  <2>3. FlattenSeq(seqs) = f[1]
    BY <1>4, <1>7
  <2>4. f[1] \o <<>> = f[1]
    BY <1>6, ConcatEmptySeq
  <2> QED
    BY <1>4, <1>6, <2>2, <2>3, <2>4
<1>8. CASE n # 0
  <2>1. rest # <<>> /\ rest \in Seq(Seq(S)) /\ Len(rest) = n
    <3>1. rest \in Seq(Seq(S)) /\ Len(rest) # 0
      BY <1>1, <1>2, <1>8
    <3> QED
      BY <1>2, <3>1
  <2>2. PICK g \in [1 .. n -> Seq(S)] :
          /\ g[1] = rest[1] /\ FlattenSeq(rest) = g[n]
          /\ \A i \in 1 .. n : i # 1 => g[i] = g[i - 1] \o rest[i]
    BY <2>1, FlattenGrows
  <2>3. \A i \in 1 .. n : i + 1 \in 1 .. n + 1 /\ i + 1 # 1 /\ (i + 1) - 1 = i /\ i \in 1 .. n + 1
    OBVIOUS
  <2>4. \A i \in 1 .. n : f[i + 1] = f[i] \o rest[i] /\ rest[i] \in Seq(S)
    <3> SUFFICES ASSUME NEW i \in 1 .. n PROVE f[i + 1] = f[i] \o rest[i] /\ rest[i] \in Seq(S)
      OBVIOUS
    <3>1. PICK k : k = i + 1
      OBVIOUS
    <3>2. k \in 1 .. n + 1 /\ k # 1 /\ k - 1 = i /\ rest[i] = seqs[k]
      BY <1>1, <1>2, <2>3, <3>1
    <3> QED
      BY <1>3, <1>4, <3>1, <3>2
  <2> DEFINE E == {i \in 1 .. n : f[i + 1] # seqs[1] \o g[i]}
  <2>5. E = {}
    <3> SUFFICES ASSUME E # {} PROVE FALSE
      OBVIOUS
    <3>1. PICK i \in E : \A j \in E : i <= j
      <4>1. E \subseteq Nat
        OBVIOUS
      <4> HIDE DEF E
      <4> QED
        BY <4>1, LeastNumber
    <3>2. i \in 1 .. n /\ f[i + 1] # seqs[1] \o g[i]
      OBVIOUS
    <3>3. CASE i = 1
      BY <1>4, <2>2, <2>4, <3>2, <3>3
    <3>4. CASE i # 1
      <4>1. PICK j : j = i - 1
        OBVIOUS
      <4>2. j \in 1 .. n /\ j + 1 = i /\ ~ (i <= j)
        BY <3>2, <3>4, <4>1
      <4>3. j \notin E
        <5> HIDE DEF E
        <5> QED
          BY <3>1, <4>2
      <4>4. f[j + 1] = seqs[1] \o g[j]
        BY <4>2, <4>3
      <4>5. f[i + 1] = (seqs[1] \o g[j]) \o rest[i] /\ g[i] = g[j] \o rest[i]
        BY <2>2, <2>4, <3>2, <3>4, <4>1, <4>2, <4>4
      <4>6. seqs[1] \in Seq(S) /\ g[j] \in Seq(S) /\ rest[i] \in Seq(S)
        BY <1>3, <1>5, <2>2, <2>4, <3>2, <4>2
      <4>7. (seqs[1] \o g[j]) \o rest[i] = seqs[1] \o (g[j] \o rest[i])
        <5> HIDE DEF E
        <5>1. PICK a \in Seq(S), b \in Seq(S), c \in Seq(S) : a = seqs[1] /\ b = g[j] /\ c = rest[i]
          BY <4>6
        <5>2. (a \o b) \o c = a \o (b \o c)
          BY ONLY a \in Seq(S), b \in Seq(S), c \in Seq(S)
        <5> QED
          BY <5>1, <5>2
      <4> QED
        BY <3>2, <4>5, <4>7
    <3> QED
      BY <3>3, <3>4
  <2>6. n \in 1 .. n
    BY <1>8
  <2>7. f[n + 1] = seqs[1] \o g[n] /\ g[n] \in Seq(S)
    BY <2>2, <2>5, <2>6
  <2> QED
    BY <1>2, <1>4, <1>6, <2>2, <2>7
<1> QED
  BY <1>7, <1>8

\* Where a line comes from.
Origins == Inputs \X (Nat \ {0})

\* The lines that each line of a file stands for, when f says what the files stand for,
\* and what they do stand for.
Blocks(scripts, i, f) ==
  [p \in 1 .. Len(scripts[i]) |->
     <<<<i, p>>>> \o (IF scripts[i][p].cmd = "source" /\ scripts[i][p].arg # NoFile
                      THEN f[scripts[i][p].arg] ELSE <<>>)]
Flat(scripts) == CHOOSE f : f = [i \in Files |-> FlattenSeq(Blocks(scripts, i, f))]

\* Scripts that source later ones only.
Descending(scripts) == \A i \in Files : scripts[i] \in Seq(Lines(i))

\* A file that is sourced has a higher number.
Above == [i \in Files |-> Len(MaxLines) - i]

\* There are no files above the last.
LEMMA AboveIsNat ==
  /\ Above \in [Files -> Nat]
  /\ \A i, j \in Files : j > i => Above[j] < Above[i]
<1>1. PICK n \in Nat : n = Len(MaxLines) /\ Files = 1 .. n
  BY FileNumbers
<1>2. \A i \in 1 .. n : n - i \in Nat
  OBVIOUS
<1>3. \A i, j \in 1 .. n : j > i => n - j < n - i
  OBVIOUS
<1>4. Above = [i \in 1 .. n |-> n - i]
  BY <1>1 DEF Above
<1> QED
  BY <1>1, <1>2, <1>3, <1>4

\* What a line of a script that sources others stands for.
LEMMA BlockTypes ==
  ASSUME NEW scripts, Descending(scripts), NEW i \in Files, NEW f \in [Files -> Seq(Origins)]
  PROVE  /\ Blocks(scripts, i, f) \in Seq(Seq(Origins))
         /\ Len(Blocks(scripts, i, f)) = Len(scripts[i]) /\ Len(scripts[i]) \in Nat
         /\ \A p \in 1 .. Len(scripts[i]) : scripts[i][p] \in Lines(i)
<1>1. scripts[i] \in Seq(Lines(i)) /\ i \in Nat
  BY FileNumbers DEF Descending
<1>2. PICK n \in Nat : n = Len(scripts[i])
  BY <1>1
<1>3. \A p \in 1 .. n : scripts[i][p] \in Lines(i)
  BY <1>1, <1>2
<1>4. ASSUME NEW p \in 1 .. n PROVE Blocks(scripts, i, f)[p] \in Seq(Origins)
  <2> DEFINE more == IF scripts[i][p].cmd = "source" /\ scripts[i][p].arg # NoFile
                     THEN f[scripts[i][p].arg] ELSE <<>>
  <2>1. more \in Seq(Origins)
    <3>1. CASE scripts[i][p].cmd = "source" /\ scripts[i][p].arg # NoFile
      <4>1. scripts[i][p].arg \in Files
        BY <1>1, <1>3, <3>1, LineTypes
      <4> QED
        BY <3>1, <4>1
    <3>2. CASE ~(scripts[i][p].cmd = "source" /\ scripts[i][p].arg # NoFile)
      BY <3>2, EmptySeq
    <3> QED
      BY <3>1, <3>2
  <2>2. <<i, p>> \in Origins
    BY DEF Origins, Inputs
  <2>3. Blocks(scripts, i, f)[p] = <<<<i, p>>>> \o more
    BY <1>2 DEF Blocks
  <2> HIDE DEF more
  <2> QED
    BY <2>1, <2>2, <2>3, InFront
<1>5. Blocks(scripts, i, f) = [p \in 1 .. n |-> Blocks(scripts, i, f)[p]]
  BY <1>2 DEF Blocks
<1>6. PICK b : b = Blocks(scripts, i, f)
  OBVIOUS
<1>7. b \in [1 .. n -> Seq(Origins)]
  BY <1>4, <1>5, <1>6
<1>8. b \in Seq(Seq(Origins)) /\ Len(b) = n
  BY <1>7
<1> QED
  BY <1>2, <1>3, <1>6, <1>8

\* The lines depend on the later files only.
LEMMA BlocksBelow ==
  ASSUME NEW scripts, Descending(scripts), NEW i \in Files, NEW f, NEW h,
         \A j \in Files : Above[j] < Above[i] => f[j] = h[j]
  PROVE  Blocks(scripts, i, f) = Blocks(scripts, i, h)
<1>1. scripts[i] \in Seq(Lines(i)) /\ i \in Nat
  BY FileNumbers DEF Descending
<1>2. PICK n \in Nat : n = Len(scripts[i])
  BY <1>1
<1>3. ASSUME NEW p \in 1 .. n, scripts[i][p].cmd = "source" /\ scripts[i][p].arg # NoFile
      PROVE  f[scripts[i][p].arg] = h[scripts[i][p].arg]
  <2>1. scripts[i][p] \in Lines(i)
    BY <1>1, <1>2
  <2>2. scripts[i][p].arg \in Files /\ scripts[i][p].arg > i
    BY <1>1, <1>3, <2>1, LineTypes
  <2> QED
    BY <2>2, AboveIsNat
<1> QED
  BY <1>2, <1>3 DEF Blocks

\* What the files stand for.
LEMMA FlatIs ==
  ASSUME NEW scripts, Descending(scripts)
  PROVE  /\ Flat(scripts) \in [Files -> Seq(Origins)]
         /\ \A i \in Files : Flat(scripts)[i] = FlattenSeq(Blocks(scripts, i, Flat(scripts)))
<1> DEFINE C == Seq(Origins)
           Body(g, i) == FlattenSeq(Blocks(scripts, i, g))
           B == [g \in [Files -> C] |-> [i \in Files |-> Body(g, i)]]
           M == CHOOSE f : f = [i \in Files |-> Body(f, i)]
<1>1. ASSUME NEW g \in [Files -> C], NEW i \in Files PROVE Body(g, i) \in C
  <2>1. PICK b \in Seq(Seq(Origins)) : b = Blocks(scripts, i, g)
    BY BlockTypes
  <2>2. FlattenSeq(b) \in Seq(Origins)
    <3>1. CASE b = <<>>
      BY <3>1, FlattenNothing, EmptySeq
    <3>2. CASE b # <<>>
      BY <3>2, FlattenFront
    <3> QED
      BY <3>1, <3>2
  <2> QED
    BY <2>1, <2>2
<1>2. ASSUME NEW g, NEW h, NEW i \in Files, \A j \in Files : Above[j] < Above[i] => g[j] = h[j]
      PROVE  Body(g, i) = Body(h, i)
  <2>1. Blocks(scripts, i, g) = Blocks(scripts, i, h)
    BY <1>2, BlocksBelow
  <2> QED
    BY <2>1
<1>3. C # {}
  <2>1. <<>> \in C
    BY EmptySeq
  <2> QED
    BY <2>1
<1> HIDE DEF Body, C
<1>4. B \in [[Files -> C] -> [Files -> C]]
  BY <1>1
<1>5. \A g, h \in [Files -> C], i \in Files :
        (\A j \in Files : Above[j] < Above[i] => g[j] = h[j]) => B[g][i] = B[h][i]
  <2> SUFFICES ASSUME NEW g \in [Files -> C], NEW h \in [Files -> C], NEW i \in Files,
                      \A j \in Files : Above[j] < Above[i] => g[j] = h[j]
               PROVE  B[g][i] = B[h][i]
    OBVIOUS
  <2>1. Body(g, i) = Body(h, i)
    BY <1>2
  <2> QED
    BY <2>1
<1>6. PICK f \in [Files -> C] : f = [i \in Files |-> Body(f, i)]
  <2>1. Recursion(Files, C, Above, B)
    <3> HIDE DEF B
    <3> QED
      BY <1>3, <1>4, <1>5, AboveIsNat DEF Recursion
  <2>2. \E f \in [Files -> C] : f = B[f]
    <3> HIDE DEF B
    <3> QED
      BY <2>1, RecursionDefines
  <2> QED
    BY <2>2
<1>7. M = [i \in Files |-> Body(M, i)]
  BY <1>6
<1>8. Flat(scripts) = M
  BY DEF Flat, Body
<1> HIDE DEF M, B
<1>9. AgreeSoFar(Files, Above, M, f)
  <2>1. ASSUME NEW i \in Files, \A j \in Files : Above[j] < Above[i] => M[j] = f[j] PROVE M[i] = f[i]
    <3>1. Body(M, i) = Body(f, i)
      BY <1>2, <2>1
    <3>2. M[i] = Body(M, i) /\ f[i] = Body(f, i)
      BY <1>6, <1>7
    <3> QED
      BY <3>1, <3>2
  <2> QED
    BY <2>1 DEF AgreeSoFar
<1>10. \A i \in Files : M[i] = f[i]
  BY <1>9, AboveIsNat, SameRecursion
<1>11. M \in [Files -> C]
  BY <1>7, <1>10
<1>12. \A i \in Files : M[i] = Body(M, i)
  BY <1>7
<1> QED
  BY <1>8, <1>11, <1>12 DEF C, Body

\* The property's order is that of the first file.
LEMMA FlattenedIs == Flattened = Flat(script)[1]
BY DEF Flattened, Flat, Blocks

\* What is left of a file from a line on, and of all the files that are open.
Rest(scripts, i, p) ==
  FlattenSeq(SubSeq(Blocks(scripts, i, Flat(scripts)), p, Len(scripts[i])))
Due(scripts, inputs) ==
  FlattenSeq([k \in 1 .. Len(inputs) |-> Rest(scripts, inputs[k].file, inputs[k].pos)])

\* What is left of a file is the next line and what it sources, and then the rest.
LEMMA RestIs ==
  ASSUME NEW scripts, Descending(scripts), NEW i \in Files, NEW p \in Nat \ {0}
  PROVE  /\ Rest(scripts, i, p) \in Seq(Origins)
         /\ Rest(scripts, i, 1) = Flat(scripts)[i]
         /\ p > Len(scripts[i]) => Rest(scripts, i, p) = <<>>
         /\ p <= Len(scripts[i]) =>
              Rest(scripts, i, p) = Blocks(scripts, i, Flat(scripts))[p] \o Rest(scripts, i, p + 1)
<1>1. Flat(scripts) \in [Files -> Seq(Origins)] /\ Flat(scripts)[i] = FlattenSeq(Blocks(scripts, i, Flat(scripts)))
  BY FlatIs
<1>2. PICK b \in Seq(Seq(Origins)), n \in Nat :
        b = Blocks(scripts, i, Flat(scripts)) /\ n = Len(b) /\ Len(scripts[i]) = n
  BY <1>1, BlockTypes
<1>3. \A q : Rest(scripts, i, q) = FlattenSeq(SubSeq(b, q, n))
  BY <1>2 DEF Rest
<1>4. Rest(scripts, i, 1) = Flat(scripts)[i]
  <2>1. SubSeq(b, 1, n) = b
    BY <1>2, SubSeqFull
  <2> QED
    BY <1>1, <1>2, <1>3, <2>1
<1>5. CASE p > n
  <2>1. SubSeq(b, p, n) = <<>>
    BY <1>5, SubSeqEmpty
  <2>2. Rest(scripts, i, p) = <<>>
    BY <1>3, <2>1, FlattenNothing
  <2>3. ~(p <= n)
    BY <1>5
  <2> QED
    BY <1>2, <1>4, <2>2, <2>3, EmptySeq
<1>6. CASE p <= n
  <2>1. PICK rest : rest = SubSeq(b, p, n)
    OBVIOUS
  <2>2. /\ rest \in Seq(Seq(Origins)) /\ rest # <<>> /\ rest[1] = b[p]
        /\ Tail(rest) = SubSeq(b, p + 1, n)
    <3>1. p \in 1 .. n /\ n \in p .. n
      BY <1>6
    <3>2. rest = <<b[p]>> \o SubSeq(b, p + 1, n)
      BY <1>2, <2>1, <3>1, SubSeqRecursiveFirst
    <3>3. b[p] \in Seq(Origins)
      BY <1>2, <3>1
    <3>4. SubSeq(b, p + 1, n) \in Seq(Seq(Origins))
      <4>1. \A k \in p + 1 .. n : k \in 1 .. n
        OBVIOUS
      <4>2. \A k \in p + 1 .. n : b[k] \in Seq(Origins)
        BY <1>2, <4>1
      <4>3. p + 1 \in Int /\ n \in Int
        OBVIOUS
      <4> QED
        BY <4>2, <4>3, SubSeqProperties
    <3>5. PICK more \in Seq(Seq(Origins)) : more = SubSeq(b, p + 1, n)
      BY <3>4
    <3>6. rest \in Seq(Seq(Origins)) /\ Len(rest) = Len(more) + 1 /\ rest[1] = b[p]
      BY <3>2, <3>3, <3>5, InFront
    <3>7. Tail(rest) = SubSeq(b, p + 1, n)
      BY <1>2, <2>1, <3>1, HeadTailOfSubSeq
    <3>8. rest # <<>>
      <4>1. Len(more) \in Nat
        OBVIOUS
      <4> QED
        BY <3>6, <4>1
    <3> QED
      BY <3>6, <3>7, <3>8
  <2>3. FlattenSeq(rest) \in Seq(Origins) /\ FlattenSeq(rest) = rest[1] \o FlattenSeq(Tail(rest))
    BY <2>2, FlattenFront
  <2>4. Rest(scripts, i, p) = FlattenSeq(rest) /\ Rest(scripts, i, p + 1) = FlattenSeq(Tail(rest))
    BY <1>3, <2>1, <2>2
  <2>5. ~(p > n)
    BY <1>6
  <2> QED
    BY <1>2, <1>4, <2>2, <2>3, <2>4, <2>5
<1>7. p > n \/ p <= n
  OBVIOUS
<1> QED
  BY <1>5, <1>6, <1>7, Zenon

\* Inputs that are scripts.
OpenScripts == Seq([file : Files, pos : Nat \ {0}])

\* What is due is the rest of the innermost file and then that of the others.
LEMMA DueIs ==
  ASSUME NEW scripts, Descending(scripts)
  PROVE  /\ Due(scripts, <<>>) = <<>>
         /\ \A inputs \in OpenScripts :
              /\ Due(scripts, inputs) \in Seq(Origins)
              /\ inputs # <<>> =>
                   Due(scripts, inputs) = Rest(scripts, Head(inputs).file, Head(inputs).pos)
                                            \o Due(scripts, Tail(inputs))
<1>1. Due(scripts, <<>>) = <<>>
  <2>1. [k \in 1 .. Len(<<>>) |-> Rest(scripts, (<<>>)[k].file, (<<>>)[k].pos)] = <<>>
    OBVIOUS
  <2> QED
    BY <2>1, FlattenNothing DEF Due
<1>2. ASSUME NEW inputs \in OpenScripts, inputs # <<>>
      PROVE  /\ Due(scripts, inputs) \in Seq(Origins)
             /\ Due(scripts, inputs) = Rest(scripts, Head(inputs).file, Head(inputs).pos)
                                         \o Due(scripts, Tail(inputs))
  <2> DEFINE R(s, k) == Rest(scripts, s[k].file, s[k].pos)
  <2>0. PICK top, rest : top = Head(inputs) /\ rest = Tail(inputs)
    OBVIOUS
  <2>1. PICK n \in Nat :
          /\ top = Head(inputs) /\ rest = Tail(inputs) /\ n = Len(rest) /\ Len(inputs) = n + 1
          /\ top = inputs[1] /\ \A k \in 1 .. n : rest[k] = inputs[k + 1]
    <3>1. /\ Head(inputs) = inputs[1] /\ Len(inputs) \in Nat \ {0}
          /\ Tail(inputs) \in OpenScripts
          /\ Len(Tail(inputs)) = Len(inputs) - 1 /\ \A k \in 1 .. Len(Tail(inputs)) : Tail(inputs)[k] = inputs[k + 1]
      BY <1>2, HeadAndTail DEF OpenScripts
    <3>2. PICK m \in Nat \ {0} : m = Len(inputs)
      BY <3>1
    <3>3. m - 1 \in Nat /\ (m - 1) + 1 = m
      OBVIOUS
    <3>4. PICK n : n = m - 1
      OBVIOUS
    <3>5. n \in Nat /\ n = Len(Tail(inputs)) /\ Len(inputs) = n + 1
      BY <3>1, <3>2, <3>3, <3>4
    <3>7. /\ n = Len(rest) /\ top = inputs[1]
          /\ \A k \in 1 .. n : rest[k] = inputs[k + 1]
      BY <2>0, <3>1, <3>5
    <3> HIDE DEF R
    <3> QED
      BY <2>0, <3>5, <3>7
  <2>2. ASSUME NEW k \in 1 .. n + 1 PROVE R(inputs, k) \in Seq(Origins)
    <3>1. inputs[k] \in [file : Files, pos : Nat \ {0}]
      <4>1. inputs \in [1 .. Len(inputs) -> [file : Files, pos : Nat \ {0}]]
        BY LenProperties DEF OpenScripts
      <4>2. inputs \in [1 .. n + 1 -> [file : Files, pos : Nat \ {0}]]
        BY <2>1, <4>1
      <4> QED
        BY <4>2
    <3> QED
      BY <3>1, RestIs
  <2>3. PICK seqs : seqs = [k \in 1 .. n + 1 |-> R(inputs, k)]
    OBVIOUS
  <2> HIDE DEF R
  <2>4. seqs \in Seq(Seq(Origins)) /\ Len(seqs) = n + 1 /\ seqs[1] = R(inputs, 1) /\ seqs # <<>>
    <3>1. seqs \in [1 .. n + 1 -> Seq(Origins)] /\ 1 \in 1 .. n + 1 /\ n + 1 \in Nat
      BY <2>2, <2>3
    <3>2. seqs \in Seq(Seq(Origins)) /\ Len(seqs) = n + 1
      BY <3>1
    <3>3. seqs # <<>>
      BY <3>2
    <3> QED
      BY <2>3, <3>1, <3>2, <3>3
  <2>5. Tail(seqs) = [k \in 1 .. n |-> R(rest, k)]
    <3>1. \A k \in 1 .. n : k + 1 \in 1 .. n + 1
      OBVIOUS
    <3>2. \A k \in 1 .. n : R(rest, k) = R(inputs, k + 1)
      BY <2>1 DEF R
    <3>3. \A k \in 1 .. n : seqs[k + 1] = R(rest, k)
      BY <2>3, <3>1, <3>2
    <3>4. Tail(seqs) = [k \in 1 .. n |-> seqs[k + 1]]
      <4>1. /\ Tail(seqs) \in Seq(Seq(Origins)) /\ Len(Tail(seqs)) = Len(seqs) - 1
            /\ \A k \in 1 .. Len(Tail(seqs)) : Tail(seqs)[k] = seqs[k + 1]
        BY <2>4, HeadAndTail
      <4>2. PICK t \in Seq(Seq(Origins)) : t = Tail(seqs)
        BY <4>1
      <4>3. Len(t) = n /\ \A k \in 1 .. n : t[k] = seqs[k + 1]
        BY <2>4, <4>1, <4>2
      <4>4. t \in [1 .. n -> Seq(Origins)]
        BY <4>2, <4>3, LenProperties
      <4> QED
        BY <4>2, <4>3, <4>4
    <3> QED
      BY <3>3, <3>4
  <2>6. Due(scripts, inputs) = FlattenSeq(seqs) /\ Due(scripts, rest) = FlattenSeq(Tail(seqs))
    BY <2>1, <2>3, <2>5 DEF Due, R
  <2>7. FlattenSeq(seqs) \in Seq(Origins) /\ FlattenSeq(seqs) = seqs[1] \o FlattenSeq(Tail(seqs))
    BY <2>4, FlattenFront
  <2>8. R(inputs, 1) = Rest(scripts, top.file, top.pos)
    BY <2>1 DEF R
  <2> QED
    BY <2>1, <2>4, <2>6, <2>7, <2>8
<1> QED
  BY <1>1, <1>2, EmptySeq

\* The lines interpreted so far begin the flattened script; while none has quit, what is
\* due of the open files is all that is missing.
Order ==
  mode = "file" =>
    /\ mainAt = "run_console" => executed = <<>>
    /\ \E more \in Seq(Origins) : executed \o more = Flat(script)[1]
    /\ mainAt = "loop" /\ ~quit_flag => executed \o Due(script, buf_stack) = Flat(script)[1]
    /\ mainAt = "finish_cmd" /\ ~quit_flag => executed = Flat(script)[1]

\* What the console's invariant says about files.
LEMMA OrderTypes ==
  ASSUME ConsoleIInv, mode = "file"
  PROVE  /\ Descending(script) /\ executed \in Seq(Origins) /\ 1 \in Files
         /\ buf_stack \in OpenScripts /\ Flat(script)[1] \in Seq(Origins)
<1>1. Descending(script)
  BY DEF ConsoleIInv, Input, Descending
<1>2. executed \in Seq(Origins)
  BY DEF ConsoleIInv, ConsoleTypeOK, Origins, Inputs
<1>3. 1 \in Files
  BY FileNumbers
<1>4. buf_stack \in OpenScripts
  <2>1. buf_stack \in Seq(Place) /\ \A i \in 1 .. Len(buf_stack) : buf_stack[i].file \in Files
    BY DEF ConsoleIInv, Nested
  <2>2. PICK n \in Nat : n = Len(buf_stack)
    BY <2>1
  <2>3. buf_stack \in [1 .. n -> Place]
    BY <2>1, <2>2, LenProperties
  <2>4. \A i \in 1 .. n : buf_stack[i] \in [file : Files, pos : Nat \ {0}]
    BY <2>1, <2>2, <2>3 DEF Place
  <2>5. buf_stack \in [1 .. n -> [file : Files, pos : Nat \ {0}]]
    BY <2>3, <2>4
  <2>6. \A X : \A s \in [1 .. n -> X] : s \in Seq(X)
    OBVIOUS
  <2> QED
    BY <2>5, <2>6 DEF OpenScripts
<1> QED
  BY <1>1, <1>2, <1>3, <1>4, FlatIs

\* One more line, what it sources, the rest of its file and the other files.
Regrouped(e, x, m, r, d) ==
  /\ m \o (r \o d) \in Seq(Origins)
  /\ e \o (((<<x>> \o m) \o r) \o d) = Append(e, x) \o (m \o (r \o d))

\* Sequences may be regrouped so.
LEMMA Regroup ==
  ASSUME NEW e \in Seq(Origins), NEW x \in Origins, NEW m \in Seq(Origins),
         NEW r \in Seq(Origins), NEW d \in Seq(Origins)
  PROVE  Regrouped(e, x, m, r, d)
<1>1. <<x>> \in Seq(Origins) /\ <<x>> \o m \in Seq(Origins) /\ r \o d \in Seq(Origins)
  OBVIOUS
<1>2. m \o (r \o d) \in Seq(Origins)
  BY <1>1, ConcatProperties
<1>3. ((<<x>> \o m) \o r) \o d = (<<x>> \o m) \o (r \o d)
  <2>1. PICK k \in Seq(Origins) : k = <<x>> \o m
    BY <1>1
  <2>2. (k \o r) \o d = k \o (r \o d)
    BY ONLY k \in Seq(Origins), r \in Seq(Origins), d \in Seq(Origins)
  <2> QED
    BY <2>1, <2>2
<1>4. (<<x>> \o m) \o (r \o d) = <<x>> \o (m \o (r \o d))
  BY <1>1, ConcatAssociative
<1>5. e \o (<<x>> \o (m \o (r \o d))) = (e \o <<x>>) \o (m \o (r \o d))
  <2>1. PICK k \in Seq(Origins), l \in Seq(Origins) : k = m \o (r \o d) /\ l = <<x>>
    BY <1>1, <1>2
  <2>2. e \o (l \o k) = (e \o l) \o k
    BY ONLY e \in Seq(Origins), l \in Seq(Origins), k \in Seq(Origins)
  <2> QED
    BY <2>1, <2>2
<1>6. Append(e, x) = e \o <<x>>
  BY AppendIsConcat
<1> QED
  BY <1>2, <1>3, <1>4, <1>5, <1>6 DEF Regrouped

\* The main file is opened.
LEMMA RunOrder == ASSUME ConsoleIInv, Order, run_console PROVE Order'
<1> SUFFICES ASSUME mode = "file" PROVE Order'
  BY DEF Order, run_console
<1>1. /\ executed = <<>> /\ buf_stack' = <<[file |-> 1, pos |-> 1]>> /\ mainAt' = "loop"
      /\ UNCHANGED <<script, mode, executed>>
  BY DEF Order, run_console, push_file
<1>2. /\ Descending(script) /\ 1 \in Files /\ Flat(script)[1] \in Seq(Origins)
  BY OrderTypes
<1>3. PICK inputs : inputs = <<[file |-> 1, pos |-> 1]>>
  OBVIOUS
<1>4. /\ inputs \in OpenScripts /\ inputs # <<>> /\ Tail(inputs) = <<>>
      /\ Head(inputs).file = 1 /\ Head(inputs).pos = 1
  BY <1>2, <1>3 DEF OpenScripts
<1>5. Due(script, inputs) = Rest(script, 1, 1) \o Due(script, <<>>)
  BY <1>2, <1>4, DueIs
<1>6. Due(script, inputs) = Flat(script)[1]
  <2>1. 1 \in Nat \ {0}
    OBVIOUS
  <2>2. Rest(script, 1, 1) = Flat(script)[1]
    BY <1>2, <2>1, RestIs
  <2>3. Due(script, <<>>) = <<>>
    BY <1>2, DueIs
  <2> QED
    BY <1>2, <1>5, <2>2, <2>3, ConcatEmptySeq
<1>7. <<>> \o Flat(script)[1] = Flat(script)[1]
  BY <1>2, ConcatEmptySeq
<1>8. Due(script, buf_stack)' = Due(script, inputs) /\ Flat(script)' = Flat(script)
  BY <1>1, <1>3
<1> QED
  BY <1>1, <1>2, <1>6, <1>7, <1>8 DEF Order

\* What a line leaves open, when it has not quit, is what it sources and what there was.
LEMMA CommandDue ==
  ASSUME ConsoleIInv, mode = "file", ~quit_flag,
         NEW i \in Files, NEW line \in Lines(i), NEW inputs \in OpenScripts, Run(line, inputs), ~quit_flag'
  PROVE  Due(script, buf_stack') =
           (IF line.cmd = "source" /\ line.arg # NoFile THEN Flat(script)[line.arg] ELSE <<>>)
             \o Due(script, inputs)
<1>1. Descending(script)
  BY OrderTypes
<1>2. Due(script, inputs) \in Seq(Origins)
  BY <1>1, DueIs
<1>3. <<>> \o Due(script, inputs) = Due(script, inputs)
  BY <1>2, ConcatEmptySeq
<1>4. line.cmd = "source" /\ line.arg # NoFile => line.arg \in Files
  BY LineTypes, FileNumbers
<1>5. CASE line.cmd = "source" /\ line.arg # NoFile
  <2>1. do_source_cmd(line, inputs)
    BY <1>5 DEF Run, Command, do_option_cmd, Quit
  <2>2. PICK p, pushed : p = [file |-> line.arg, pos |-> 1] /\ pushed = <<p>> \o inputs
    OBVIOUS
  <2>3. buf_stack' = pushed
    BY <1>5, <2>1, <2>2 DEF do_source_cmd, push_file
  <2>4. /\ pushed \in OpenScripts /\ pushed # <<>> /\ Tail(pushed) = inputs /\ Head(pushed) = p
    <3>1. p \in [file : Files, pos : Nat \ {0}]
      BY <1>4, <1>5, <2>2
    <3> QED
      BY <2>2, <3>1 DEF OpenScripts
  <2>5. Due(script, pushed) = Rest(script, p.file, p.pos) \o Due(script, inputs)
    BY <1>1, <2>4, DueIs
  <2>6. Rest(script, p.file, p.pos) = Flat(script)[line.arg]
    <3>1. p.file = line.arg /\ p.pos = 1 /\ line.arg \in Files /\ 1 \in Nat \ {0}
      BY <1>4, <1>5, <2>2
    <3>2. Rest(script, line.arg, 1) = Flat(script)[line.arg]
      BY <1>1, <3>1, RestIs
    <3> QED
      BY <3>1, <3>2
  <2> QED
    BY <1>5, <2>3, <2>5, <2>6
<1>6. CASE ~(line.cmd = "source" /\ line.arg # NoFile)
  <2>1. buf_stack' = inputs
    BY <1>6 DEF Run, Command, do_source_cmd, do_option_cmd, Quit
  <2> QED
    BY <1>3, <1>6, <2>1
<1> QED
  BY <1>5, <1>6

\* readline: the next line of the innermost script, or its end.
LEMMA SelectOrder == ASSUME ConsoleIInv, Order, cmd_select PROVE Order'
<1> DEFINE top == Head(buf_stack)
           lines == script[top.file]
           rest == Tail(buf_stack)
           advanced == [buf_stack EXCEPT ![1].pos = @ + 1]
           whole == Flat(script)[1]
           due == Due(script, rest)
           at == <<top.file, top.pos>>
           block == Blocks(script, top.file, Flat(script))[top.pos]
           sourced == IF lines[top.pos].cmd = "source" /\ lines[top.pos].arg # NoFile
                      THEN Flat(script)[lines[top.pos].arg] ELSE <<>>
<1>1. /\ mainAt = "loop" /\ mode = "file" /\ ~quit_flag /\ buf_stack # <<>>
      /\ UNCHANGED <<script, newline, mode, mainAt, exitStatus>>
      /\ IF top.pos > Len(lines)
         THEN EndOfFile /\ UNCHANGED <<errors, quitting, executed>>
         ELSE interpret_cmd(at, lines[top.pos],
                            IF top.pos = Len(lines) /\ ~newline[top.file] THEN rest ELSE advanced)
  BY DEF cmd_select, cmd_done
<1>2. /\ Descending(script) /\ executed \in Seq(Origins) /\ buf_stack \in OpenScripts
      /\ whole \in Seq(Origins)
  BY <1>1, OrderTypes
<1>3. /\ top \in [file : Files, pos : Nat \ {0}] /\ rest \in OpenScripts
      /\ advanced \in OpenScripts /\ advanced # <<>> /\ Tail(advanced) = rest
      /\ Head(advanced).file = top.file /\ Head(advanced).pos = top.pos + 1
  <2>1. PICK s, t : s = buf_stack /\ t = advanced
    OBVIOUS
  <2>2. s \in OpenScripts /\ s # <<>> /\ t = [s EXCEPT ![1] = [s[1] EXCEPT !.pos = s[1].pos + 1]]
    BY <1>1, <1>2, <2>1
  <2>3. /\ Head(s) \in [file : Files, pos : Nat \ {0}] /\ Head(s) = s[1] /\ Len(s) \in Nat \ {0}
        /\ Tail(s) \in OpenScripts
    BY <2>2, HeadAndTail DEF OpenScripts
  <2>4. PICK p : p = [s[1] EXCEPT !.pos = s[1].pos + 1]
    OBVIOUS
  <2>5. p \in [file : Files, pos : Nat \ {0}] /\ p.file = s[1].file /\ p.pos = s[1].pos + 1
    BY <2>3, <2>4
  <2>6. /\ t \in OpenScripts /\ Len(t) = Len(s) /\ t[1] = p
        /\ \A i \in 1 .. Len(s) : i # 1 => t[i] = s[i]
    <3>1. s \in Seq([file : Files, pos : Nat \ {0}]) /\ 1 \in 1 .. Len(s) /\ t = [s EXCEPT ![1] = p]
      BY <2>2, <2>3, <2>4 DEF OpenScripts
    <3> QED
      BY <2>5, <3>1, ExceptSeq DEF OpenScripts
  <2>7. t # <<>> /\ Head(t) = p /\ Tail(t) = Tail(s)
    BY <2>2, <2>3, <2>6 DEF OpenScripts
  <2> QED
    BY <2>1, <2>3, <2>5, <2>6, <2>7
<1>4. top.file \in Files /\ top.pos \in Nat \ {0} /\ top.pos + 1 \in Nat \ {0}
  <2>1. top.file \in Files /\ top.pos \in Nat \ {0}
    BY <1>3
  <2> HIDE DEF top
  <2> QED
    BY <2>1
<1>5. due \in Seq(Origins) /\ executed \o (Rest(script, top.file, top.pos) \o due) = whole
  <2>1. executed \o Due(script, buf_stack) = whole
    BY <1>1 DEF Order
  <2> QED
    BY <1>1, <1>2, <1>3, <2>1, DueIs
<1>6. Flat(script)' = Flat(script) /\ Due(script, buf_stack)' = Due(script, buf_stack')
  BY <1>1
<1>7. lines \in Seq(Lines(top.file)) /\ Len(lines) \in Nat
  BY <1>2, <1>4 DEF Descending
<1>8. ASSUME NEW more \in Seq(Origins), executed' \o more = whole,
             ~quit_flag' => more = Due(script, buf_stack')
      PROVE  Order'
  <2> HIDE DEF whole
  <2>1. mainAt' = "loop" /\ whole = Flat(script)'[1]
    BY <1>1, <1>6 DEF whole
  <2> QED
    BY <1>6, <1>8, <2>1 DEF Order
<1> HIDE DEF top, lines, rest, advanced, whole, due, at, block, sourced
<1>9. CASE top.pos > Len(lines)
  <2>1. buf_stack' = rest /\ executed' = executed
    BY <1>1, <1>9 DEF EndOfFile, rest
  <2>2. Rest(script, top.file, top.pos) = <<>>
    BY <1>2, <1>4, <1>9, RestIs DEF lines
  <2>3. <<>> \o due = due
    BY <1>5, ConcatEmptySeq
  <2>4. executed' \o due = whole
    BY <1>5, <2>1, <2>2, <2>3
  <2> QED
    BY <1>5, <1>8, <2>1, <2>4 DEF due
<1>10. CASE ~(top.pos > Len(lines))
  <2>1. PICK inputs : inputs = IF top.pos = Len(lines) /\ ~newline[top.file] THEN rest ELSE advanced
    OBVIOUS
  <2>2. executed' = Append(executed, at) /\ Run(lines[top.pos], inputs)
    BY <1>1, <1>10, <2>1 DEF interpret_cmd, Interpret
  <2>3. top.pos <= Len(lines) /\ top.pos \in 1 .. Len(lines) /\ lines[top.pos] \in Lines(top.file)
    <3>1. PICK p \in Nat \ {0}, n \in Nat : p = top.pos /\ n = Len(lines)
      BY <1>4, <1>7
    <3>2. p <= n /\ p \in 1 .. n
      BY <1>10, <3>1
    <3> QED
      BY <1>7, <3>1, <3>2
  <2>4. inputs \in OpenScripts
    BY <1>3, <2>1
  <2>5. PICK left \in Seq(Origins) : left = Rest(script, top.file, top.pos + 1)
    BY <1>2, <1>4, RestIs
  <2>6. Due(script, inputs) = left \o due
    <3>1. CASE inputs = advanced
      <4>1. Due(script, advanced) = Rest(script, top.file, top.pos + 1) \o due
        BY <1>2, <1>3, DueIs DEF due
      <4> QED
        BY <2>5, <3>1, <4>1
    <3>2. CASE inputs # advanced
      <4>1. inputs = rest /\ top.pos = Len(lines)
        BY <2>1, <3>2
      <4>2. top.pos + 1 > Len(lines)
        BY <1>4, <4>1
      <4>3. left = <<>>
        BY <1>2, <1>4, <2>5, <4>2, RestIs DEF lines
      <4> QED
        BY <1>5, <4>1, <4>3, ConcatEmptySeq DEF due
    <3> QED
      BY <3>1, <3>2
  <2>7. block = <<at>> \o sourced
    BY <2>3 DEF block, Blocks, at, sourced, lines
  <2>8. Rest(script, top.file, top.pos) = block \o left
    BY <1>2, <1>4, <2>3, <2>5, RestIs DEF block, lines
  <2>9. at \in Origins /\ sourced \in Seq(Origins)
    <3>1. at \in Origins
      BY <1>4 DEF at, Origins, Inputs
    <3>2. top.file \in Nat
      BY <1>4, FileNumbers
    <3>3. lines[top.pos].cmd = "source" /\ lines[top.pos].arg # NoFile => lines[top.pos].arg \in Files
      BY <2>3, <3>2, LineTypes
    <3>4. sourced \in Seq(Origins)
      BY <1>2, <3>3, FlatIs, EmptySeq DEF sourced
    <3> QED
      BY <3>1, <3>4
  <2>10. PICK more : more = sourced \o (left \o due)
    OBVIOUS
  <2>11. more \in Seq(Origins) /\ executed' \o more = whole
    <3>1. executed \o (((<<at>> \o sourced) \o left) \o due) = whole
      BY <1>5, <2>7, <2>8
    <3>2. /\ sourced \o (left \o due) \in Seq(Origins)
          /\ executed \o (((<<at>> \o sourced) \o left) \o due) = Append(executed, at) \o (sourced \o (left \o due))
      <4>1. PICK e \in Seq(Origins), x \in Origins, m \in Seq(Origins), d \in Seq(Origins) :
              e = executed /\ x = at /\ m = sourced /\ d = due
        BY <1>2, <1>5, <2>9
      <4>2. Regrouped(e, x, m, left, d)
        BY <4>1, <2>5, Regroup
      <4> QED
        BY <4>1, <4>2 DEF Regrouped
    <3> QED
      BY <2>2, <2>10, <3>1, <3>2
  <2>12. ~quit_flag' => more = Due(script, buf_stack')
    <3> SUFFICES ASSUME ~quit_flag' PROVE more = Due(script, buf_stack')
      OBVIOUS
    <3>1. Due(script, buf_stack') = sourced \o Due(script, inputs)
      BY <1>1, <1>4, <2>2, <2>3, <2>4, CommandDue DEF sourced
    <3> QED
      BY <2>6, <2>10, <3>1
  <2> QED
    BY <1>8, <2>11, <2>12
<1> QED
  BY <1>9, <1>10

\* The loop ends when nothing is due or a line has quit; what follows interprets nothing.
LEMMA EndOrder ==
  ASSUME ConsoleIInv, Order, linenoise \/ InputEnds \/ finish_cmd \/ UNCHANGED consoleVars
  PROVE  Order'
<1> SUFFICES ASSUME mode = "file" PROVE Order'
  BY DEF Order, linenoise, InputEnds, finish_cmd, consoleVars, console
<1>1. /\ Descending(script) /\ executed \in Seq(Origins) /\ UNCHANGED <<script, mode, executed>>
  BY OrderTypes DEF linenoise, InputEnds, finish_cmd, consoleVars, console
<1>2. Flat(script)' = Flat(script)
  BY <1>1
<1>3. CASE InputEnds
  <2>1. /\ mainAt = "loop" /\ mainAt' \in {"finish_cmd", "exit"} /\ quit_flag' = quit_flag
        /\ ~quit_flag => buf_stack = <<>>
    BY <1>3 DEF InputEnds, cmd_done, console, errors
  <2>2. ~quit_flag => executed = Flat(script)[1]
    <3> SUFFICES ASSUME ~quit_flag PROVE executed = Flat(script)[1]
      OBVIOUS
    <3>1. executed \o <<>> = Flat(script)[1]
      BY <1>1, <2>1, DueIs DEF Order
    <3> QED
      BY <1>1, <3>1, ConcatEmptySeq
  <2> QED
    BY <1>1, <1>2, <2>1, <2>2 DEF Order
<1>4. CASE finish_cmd
  <2>1. mainAt' = "exit"
    BY <1>4 DEF finish_cmd
  <2> QED
    BY <1>1, <1>2, <2>1 DEF Order
<1>5. CASE UNCHANGED consoleVars
  <2>1. Due(script, buf_stack)' = Due(script, buf_stack) /\ UNCHANGED <<mainAt, quit_flag>>
    BY <1>5 DEF consoleVars, console, errors
  <2> QED
    BY <1>1, <1>2, <2>1 DEF Order
<1> QED
  BY <1>3, <1>4, <1>5 DEF linenoise

\* readline and push_file: whatever the scripts source, and wherever their ends are, the
\* lines are interpreted in the order of the flattened script, none twice and none left out.
THEOREM SpecScriptOrder == ConsoleSpec => []ScriptOrder
<1>1. ConsoleInit => Order
  <2> SUFFICES ASSUME ConsoleInit, mode = "file" PROVE Order
    BY DEF Order
  <2>1. executed = <<>> /\ mainAt = "run_console" /\ ConsoleIInv
    BY ConsoleInitIInv DEF ConsoleInit
  <2>2. Flat(script)[1] \in Seq(Origins)
    BY <2>1, OrderTypes
  <2>3. <<>> \o Flat(script)[1] = Flat(script)[1]
    BY <2>2, ConcatEmptySeq
  <2> QED
    BY <2>1, <2>2, <2>3 DEF Order
<1>2. ConsoleIInv /\ Order /\ [ConsoleNext]_consoleVars => Order'
  BY RunOrder, SelectOrder, EndOrder DEF ConsoleNext, Exited
<1>3. ConsoleIInv /\ Order => ScriptOrder
  <2> SUFFICES ASSUME ConsoleIInv, Order, mode = "file" PROVE ScriptOrder
    BY DEF ScriptOrder
  <2>1. executed \in Seq(Origins) /\ Flat(script)[1] \in Seq(Origins)
    BY OrderTypes
  <2>2. PICK more \in Seq(Origins) : executed \o more = Flat(script)[1]
    BY DEF Order
  <2>3. PICK e \in Seq(Origins), w \in Seq(Origins) : e = executed /\ w = Flat(script)[1]
    BY <2>1
  <2>4. IsPrefix(e, w)
    <3>1. w = e \o more
      BY <2>2, <2>3
    <3>2. PICK m \in Nat, n \in Nat : m = Len(e) /\ n = Len(more)
      OBVIOUS
    <3>3. Len(w) = m + n /\ \A i \in 1 .. m : w[i] = e[i]
      BY <3>1, <3>2
    <3>4. m <= m + n
      BY <3>2
    <3>5. SubSeq(e, 1, m) = SubSeq(w, 1, m)
      BY <3>2, <3>3, <3>4
    <3> QED
      BY <3>2, <3>3, <3>4, <3>5 DEF IsPrefix
  <2> QED
    BY <2>3, <2>4, FlattenedIs DEF Order, ScriptOrder
<1> QED
  BY <1>1, <1>2, <1>3, ConsoleSpecIInv, PTL DEF ConsoleSpec
=============================================================================
