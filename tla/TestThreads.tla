---------------------------- MODULE TestThreads ----------------------------
(***************************************************************************)
(* The threads of 2021q1_croutine/main.c and the messages create_threads   *)
(* deals out to them: writer i sends, and reader i expects as many as, the *)
(* messages of batch i.  Both channel modules are driven by these threads. *)
(***************************************************************************)
EXTENDS Integers, FiniteSets

CONSTANTS NWriters, NReaders,   \* threads of each kind
          Total                 \* messages of one repetition

ASSUME ThreadsAssumption == /\ NWriters \in Nat \ {0}
                            /\ NReaders \in Nat \ {0}
                            /\ Total \in Nat

Sides == {"send", "recv"}
Other(s) == IF s = "send" THEN "recv" ELSE "send"

Writers == {"send"} \X (0 .. NWriters - 1)
Readers == {"recv"} \X (0 .. NReaders - 1)
Threads == Writers \cup Readers
Side(t) == t[1]

Messages == 0 .. Total - 1
NoMsg == -1                     \* a cell nobody has written yet

\* The messages are dealt out in consecutive batches, the first Total % n of
\* the n threads getting one more than the others.
Peers(t) == IF Side(t) = "send" THEN NWriters ELSE NReaders
From(t) == LET left == Total % Peers(t)
           IN  t[2] * (Total \div Peers(t)) + (IF t[2] < left THEN t[2] ELSE left)
Batch(t) == Total \div Peers(t) + (IF t[2] < Total % Peers(t) THEN 1 ELSE 0)
=============================================================================
