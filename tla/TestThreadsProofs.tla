--------------------------- MODULE TestThreadsProofs ---------------------------
(***************************************************************************)
(* Facts about the threads and batches of main.c that the proofs of both   *)
(* channels rest on: who is on which side, and that create_threads deals   *)
(* out every message to exactly one thread of a side.                      *)
(***************************************************************************)
EXTENDS TestThreads, TLAPS

\* A thread is a writer or a reader, by its side, and no thread is the NULL
\* pointer of the channels.
LEMMA ThreadSides ==
  /\ \A t \in Threads : /\ Side(t) \in Sides /\ t # <<>>
                        /\ Side(t) = "send" <=> t \in Writers
                        /\ Side(t) = "recv" <=> t \in Readers
  /\ \A s \in Sides : Other(s) \in Sides /\ Other(s) # s /\ Other(Other(s)) = s
  /\ \A s, o \in Sides : s = o \/ o = Other(s)
BY DEF Threads, Writers, Readers, Side, Sides, Other

\* Division as the code's compiler does it on the sizes at hand.
LEMMA Division ==
  ASSUME NEW a \in Nat, NEW n \in Nat \ {0}
  PROVE  /\ a \div n \in Nat /\ a % n \in Nat /\ a % n < n
         /\ a = n * (a \div n) + (a % n)
OBVIOUS

\* A factor that grows makes the product grow.
LEMMA ProductGrows ==
  ASSUME NEW a \in Nat, NEW b \in Nat, NEW q \in Nat, a <= b
  PROVE  a * q <= b * q
<1>1. PICK d \in Nat : b = a + d
  <2> WITNESS b - a \in Nat
  <2> QED OBVIOUS
<1>2. b * q = a * q + d * q /\ d * q \in Nat
  BY <1>1
<1> QED
  BY <1>2

\* Where a batch begins and how long it is, with the quotient and the
\* remainder of the deal named.
LEMMA BatchBounds ==
  ASSUME NEW t \in Threads
  PROVE  /\ Batch(t) \in Nat /\ From(t) \in Nat
         /\ From(t) + Batch(t) <= Total
<1> DEFINE n == Peers(t)
           i == t[2]
           q == Total \div n
           r == Total % n
<1>1. n \in Nat \ {0} /\ i \in Nat /\ i < n
  BY ThreadsAssumption DEF Peers, Threads, Writers, Readers, Side
<1>2. q \in Nat /\ r \in Nat /\ r < n /\ Total = n * q + r
  BY <1>1, Division, ThreadsAssumption
<1> HIDE DEF n, i, q, r
<1>3. (i + 1) * q <= n * q
  BY <1>1, <1>2, ProductGrows
<1>4. (i + 1) * q = i * q + q /\ i * q \in Nat /\ n * q \in Nat
  BY <1>1, <1>2
<1>5. Batch(t) = q + (IF i < r THEN 1 ELSE 0)
  BY DEF Batch, n, i, q, r
<1>6. From(t) = i * q + (IF i < r THEN i ELSE r)
  BY DEF From, n, i, q, r
<1> QED
  BY <1>1, <1>2, <1>3, <1>4, <1>5, <1>6

\* The batches of two threads of a side have no message in common.
LEMMA BatchesDisjoint ==
  ASSUME NEW t \in Threads, NEW u \in Threads, Side(t) = Side(u), t # u
  PROVE  \/ From(t) + Batch(t) <= From(u)
         \/ From(u) + Batch(u) <= From(t)
<1> DEFINE n == Peers(t)
           i == t[2]
           j == u[2]
           q == Total \div n
           r == Total % n
<1>1. n \in Nat \ {0} /\ i \in Nat /\ j \in Nat /\ i # j /\ Peers(u) = n
  BY ThreadsAssumption DEF Peers, Threads, Writers, Readers, Side
<1>2. q \in Nat /\ r \in Nat
  BY <1>1, Division, ThreadsAssumption
<1>3. /\ Batch(t) = q + (IF i < r THEN 1 ELSE 0)
      /\ From(t) = i * q + (IF i < r THEN i ELSE r)
      /\ Batch(u) = q + (IF j < r THEN 1 ELSE 0)
      /\ From(u) = j * q + (IF j < r THEN j ELSE r)
  BY <1>1 DEF Batch, From
<1> HIDE DEF n, i, j, q, r
<1>4. /\ (i + 1) * q = i * q + q /\ i * q \in Nat
      /\ (j + 1) * q = j * q + q /\ j * q \in Nat
  BY <1>1, <1>2
<1>5. CASE i < j
  <2>1. (i + 1) * q <= j * q
    BY <1>1, <1>2, <1>5, ProductGrows
  <2> QED
    BY <1>1, <1>2, <1>3, <1>4, <1>5, <2>1
<1>6. CASE j < i
  <2>1. (j + 1) * q <= i * q
    BY <1>1, <1>2, <1>6, ProductGrows
  <2> QED
    BY <1>1, <1>2, <1>3, <1>4, <1>6, <2>1
<1> QED
  BY <1>1, <1>5, <1>6

\* The batches of a side leave no message out.
LEMMA BatchesCover ==
  ASSUME NEW m \in Messages, NEW s \in Sides
  PROVE  \E t \in Threads : Side(t) = s /\ From(t) <= m /\ m < From(t) + Batch(t)
<1> DEFINE n == IF s = "send" THEN NWriters ELSE NReaders
           q == Total \div n
           r == Total % n
           T(i) == <<s, i>>
<1>1. n \in Nat \ {0} /\ m \in Nat /\ m < Total
  BY ThreadsAssumption DEF Messages
<1>2. q \in Nat /\ r \in Nat /\ r < n /\ Total = n * q + r
  BY <1>1, Division, ThreadsAssumption
<1>3. ASSUME NEW i \in Nat, i < n
      PROVE  /\ T(i) \in Threads /\ Side(T(i)) = s
             /\ Batch(T(i)) = q + (IF i < r THEN 1 ELSE 0)
             /\ From(T(i)) = i * q + (IF i < r THEN i ELSE r)
  BY <1>3, ThreadsAssumption
  DEF Sides, Threads, Writers, Readers, Side, Batch, From, Peers
<1> HIDE DEF n, q, r, T
<1>4. SUFFICES \E i \in Nat : /\ i < n /\ i * q + (IF i < r THEN i ELSE r) <= m
                              /\ m < i * q + (IF i < r THEN i ELSE r)
                                       + (q + (IF i < r THEN 1 ELSE 0))
  <2>1. PICK i \in Nat : /\ i < n /\ i * q + (IF i < r THEN i ELSE r) <= m
                         /\ m < i * q + (IF i < r THEN i ELSE r)
                                  + (q + (IF i < r THEN 1 ELSE 0))
    BY <1>4
  <2>2. /\ T(i) \in Threads /\ Side(T(i)) = s
        /\ From(T(i)) <= m /\ m < From(T(i)) + Batch(T(i))
    BY <2>1, <1>3
  <2> QED
    BY <2>2
<1>5. CASE m < r * (q + 1)
  <2> DEFINE i == m \div (q + 1)
  <2>1. i \in Nat /\ m % (q + 1) < q + 1 /\ m = (q + 1) * i + (m % (q + 1))
        /\ m % (q + 1) \in Nat
    <3>1. q + 1 \in Nat \ {0}
      BY <1>2
    <3> QED
      BY <1>1, <3>1, Division
  <2> HIDE DEF i
  <2>2. (q + 1) * i = i * (q + 1) /\ i * (q + 1) = i * q + i
    BY <1>2, <2>1
  <2>3. i < r
    <3>1. r <= i => r * (q + 1) <= i * (q + 1)
      BY <1>2, <2>1, ProductGrows
    <3>2. r * (q + 1) \in Nat /\ i * (q + 1) \in Nat
      BY <1>2, <2>1
    <3> QED
      BY <1>1, <1>2, <1>5, <2>1, <2>2, <3>1, <3>2
  <2>4. i < n /\ i * q + i <= m /\ m < i * q + i + (q + 1)
    <3>1. i * q \in Nat
      BY <1>2, <2>1
    <3> QED
      BY <1>1, <1>2, <2>1, <2>2, <2>3, <3>1
  <2> QED
    BY <2>1, <2>3, <2>4
<1>6. CASE ~(m < r * (q + 1))
  <2>1. r * (q + 1) = r * q + r /\ r * q \in Nat /\ n * q \in Nat
    BY <1>1, <1>2
  <2>2. q # 0
    BY <1>1, <1>2, <1>6, <2>1
  <2> DEFINE d == m - r * (q + 1)
             j == d \div q
  <2>3. d \in Nat
    BY <1>1, <1>2, <1>6, <2>1
  <2>4. j \in Nat /\ d % q \in Nat /\ d % q < q /\ d = q * j + (d % q)
    BY <1>2, <2>2, <2>3, Division
  <2>5. d = m - r * q - r
    BY <1>1, <1>2, <2>1
  <2> HIDE DEF d, j
  <2>6. (r + j) * q = r * q + q * j /\ q * j \in Nat
    BY <1>2, <2>4
  <2>7. r + j < n
    <3>1. n <= r + j => n * q <= (r + j) * q
      BY <1>1, <1>2, <2>4, ProductGrows
    <3> QED
      BY <1>1, <1>2, <2>1, <2>3, <2>4, <2>5, <2>6, <3>1
  <2>8. /\ ~(r + j < r) /\ (r + j) * q + r <= m /\ m < (r + j) * q + r + q
    BY <1>1, <1>2, <2>1, <2>3, <2>4, <2>5, <2>6
  <2>9. r + j \in Nat
    BY <1>2, <2>4
  <2> HIDE DEF d
  <2> QED
    BY <1>2, <2>7, <2>8, <2>9
<1> QED
  BY <1>5, <1>6

\* A message is the next one of one writer only.
LEMMA OneWriter ==
  ASSUME NEW w \in Writers, NEW v \in Writers, NEW i \in Nat, NEW j \in Nat,
         i < Batch(w), j < Batch(v), From(w) + i = From(v) + j
  PROVE  w = v
<1>1. Side(w) = Side(v) /\ w \in Threads /\ v \in Threads
  BY DEF Side, Writers, Threads
<1> QED
  BY <1>1, BatchBounds, BatchesDisjoint
=============================================================================
