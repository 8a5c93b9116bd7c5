--------------------------- MODULE ThreadPoolProofs ---------------------------
(***************************************************************************)
(* The thread pool for any number of workers and tasks.                    *)
(*                                                                         *)
(* The argument: the list is often not what it should be, since            *)
(* tpool_apply changes it without the lock, and then tasks are lost or the *)
(* process dies; but no task is taken twice.  Along next the tasks get     *)
(* newer, and no task is linked behind two others (Links), so a task that  *)
(* was cut off is found again neither by the walk nor from tail, and one   *)
(* that was taken from tail alone is only found from tasks older than      *)
(* every later head (Queue).  A worker thus has its task for itself        *)
(* (Taken), and a task that is still allocated has not been run, finished, *)
(* cancelled or freed, but by the worker that has it (Outcomes).           *)
(***************************************************************************)
EXTENDS ThreadPool, TLAPS

-----------------------------------------------------------------------------
(* The invariant *)

\* The tasks the client has applied so far; the task with the larger number is newer.
Added == 1 .. applied
NotNewer(p, q) == p <= q

\* Inside jobqueue_fetch with rwlock held.
Locked == {"test", "nonempty", "ends", "with_tail", "with_head", "only", "clear",
           "clear_tail", "clear_head", "first", "walk", "cut", "set_tail", "unlock"}

\* From the load of a task's pointer until the task is freed.
HasTask == {"clear", "clear_tail", "clear_head", "set_tail", "unlock", "start", "run", "finish"}

Taken(k) == \E w \in Workers : wpc[w] \in HasTask /\ task[w] = k

\* A task that is allocated and that no worker has.
Queued(k) == k \in live /\ ~Taken(k)

\* A worker has its task, still to be cleared from the pointers to it.
Clearing(k, labels) == \E w \in Workers : wpc[w] \in labels /\ task[w] = k

Locking ==
  /\ \A w \in Workers : wpc[w] \in Locked <=> rwlock = w
  /\ \A w \in Workers : w > created => wpc[w] = "none"

TakenOnce ==
  /\ \A w \in Workers : wpc[w] \in HasTask => task[w] \in live
  /\ \A w, v \in Workers : wpc[w] \in HasTask /\ wpc[v] \in HasTask /\ task[w] = task[v] => w = v

\* Where the calls of the client are.
Adding == {"load_tail", "store_first", "store_head", "link", "store_tail"}
Labels == Adding \cup {"create", "join_cancelled", "failed", "rest", "poison",
                       "get_wait", "get_check", "join", "drain", "over"}

\* How many tasks the client has applied at label c.
AppliedAt(c, n) ==
  /\ c \in {"create", "join_cancelled", "failed"} => n = 0
  /\ c \in {"rest", "get_wait", "get_check"} => n <= NTasks
  /\ c = "poison" => NTasks <= n /\ n < NTasks + NWorkers
  /\ c \in Adding => n > 0

Client ==
  /\ cpc \in Labels /\ AppliedAt(cpc, applied)
  /\ cpc \in {"get_wait", "get_check"} => cfut \in Usable
  /\ cpc \in {"join_cancelled", "failed"} => cancelled = 1 .. created
  /\ cpc \notin {"join_cancelled", "failed"} => cancelled = {}
  /\ cpc = "failed" => \A w \in cancelled : wpc[w] = "exit"
  /\ cpc \in {"drain", "over"} => \A w \in Workers : wpc[w] = "exit"

\* The task being added is not yet on the list.
NewTask ==
  /\ cpc \in Adding => Queued(applied)
  /\ cpc \in {"load_tail", "store_first", "link", "store_tail"} => tail # applied /\ head # applied
  /\ cpc \in {"load_tail", "store_first", "link", "store_head"} => \A p \in Tasks : next[p] # applied
  /\ cpc \in Adding => next[applied] = NULL
  /\ cpc \in {"link", "store_tail"} => ctail \in Added \ {applied}
  /\ cpc \in Adding => \A w \in Workers :
        /\ wpc[w] \in {"cut", "set_tail"} => tmp[w] # applied
        /\ wpc[w] = "cut" => next[tmp[w]] # applied
        /\ wpc[w] \in {"with_tail", "walk"} /\ cpc = "store_head" => tmp[w] # applied

\* Along next the tasks get newer, and no task is behind two others.
Links ==
  /\ \A p \in Tasks : next[p] # NULL => NotNewer(p, next[p]) /\ p # next[p] /\ {p, next[p]} \subseteq Added
  /\ \A p, q \in Tasks : next[p] = next[q] /\ next[p] # NULL => p = q
  /\ head \in Added \cup {NULL} /\ tail \in Added \cup {NULL}

\* The pointers to the ends, while a task is taken and one is added.
Ends ==
  /\ \A w \in Workers :
        /\ wpc[w] \in {"ends", "with_tail", "with_head", "only", "clear", "clear_tail",
                       "first", "walk", "cut", "set_tail"} => tail # NULL
        /\ wpc[w] = "with_head" => tmp[w] # NULL
        /\ wpc[w] = "clear_tail" => head = NULL
        /\ wpc[w] \in {"only", "clear", "clear_tail"} => cpc \notin {"store_first", "store_head"}
  /\ tail = NULL => head = NULL \/ \E w \in Workers : wpc[w] = "clear_head"
  /\ cpc = "store_first" => tail = NULL
  /\ cpc = "store_head" => /\ tail = applied
                           /\ head = NULL \/ \E w \in Workers : wpc[w] = "clear_head"

\* What is found from head and tail nobody has taken, but for the task that
\* the holder of the lock is about to clear from them.
Queue ==
  /\ cpc \notin {"drain", "over"} /\ tail # NULL =>
       Queued(tail) \/ Clearing(tail, {"clear", "clear_tail", "set_tail"})
  /\ head # NULL => Queued(head) \/ Clearing(head, {"clear", "clear_head"})
  /\ \A p \in Tasks : head # NULL /\ NotNewer(head, p) /\ Queued(p) /\ next[p] # NULL =>
       Queued(next[p]) \/ Clearing(next[p], {"clear", "clear_head"})

\* The walk is at a task on the list.
Walking ==
  \A w \in Workers :
    /\ (wpc[w] = "walk" /\ tmp[w] # NULL) \/ wpc[w] \in {"cut", "set_tail"} =>
         head # NULL /\ NotNewer(head, tmp[w]) /\ Queued(tmp[w])
    /\ wpc[w] = "cut" => next[tmp[w]] # NULL

\* What the flags and the counters say of task k, by where it is.
Outcome(k) ==
  /\ k \notin Added => flag[k] = {} /\ frees[k] = 0 /\ runs[k] = 0
  /\ k \in live => /\ frees[k] = 0 /\ "FINISHED" \notin flag[k] /\ "CANCELLED" \notin flag[k]
                   /\ runs[k] = IF Clearing(k, {"finish"}) THEN 1 ELSE 0
  /\ runs[k] \in {0, 1} /\ frees[k] \in {0, 1}
  /\ "DESTROYED" \in flag[k] => k \in destroyed
  /\ k \in destroyed => k \in Added /\ (k \in live => "DESTROYED" \in flag[k])
  /\ "FINISHED" \in flag[k] => runs[k] = 1
  /\ "CANCELLED" \in flag[k] => runs[k] = 0 /\ k \notin live
  /\ ~IsPoison(k) /\ k \notin destroyed => frees[k] = 0
  /\ ~IsPoison(k) /\ k \in Added /\ k \notin live =>
       "FINISHED" \in flag[k] \/ "CANCELLED" \in flag[k] \/ k \in destroyed
  /\ k \in destroyed /\ k \notin live => frees[k] = 1

Outcomes == \A k \in Tasks : Outcome(k)

\* No part holds without the others: a worker has its task for itself only because of
\* what the list looks like, and the list is safe only because of who has what.
IInv == /\ TypeOK /\ Locking /\ TakenOnce /\ Client /\ NewTask /\ Links /\ Ends
        /\ Queue /\ Walking /\ Outcomes

-----------------------------------------------------------------------------
(* Workers, tasks and pointers *)

\* NULL is nobody's number.
LEMMA Numbers ==
  /\ NULL \notin Workers /\ NULL \notin Tasks /\ Pointers = Tasks \cup {NULL}
  /\ NTasks \in Nat /\ NWorkers \in Nat /\ Workers = 1 .. NWorkers
  /\ Tasks = 1 .. NTasks + NWorkers /\ NULL = 0
BY PoolAssumption DEF Workers, Tasks, Pointers, NULL

\* The order of the tasks.
LEMMA Order ==
  /\ \A p \in Tasks : NotNewer(p, p)
  /\ \A p, q, r \in Tasks : NotNewer(p, q) /\ NotNewer(q, r) => NotNewer(p, r)
  /\ \A p, q \in Tasks : NotNewer(p, q) /\ NotNewer(q, p) => p = q
BY PoolAssumption DEF NotNewer, Tasks

\* The tasks applied are the oldest ones, and the last one is the newest of them.
LEMMA AddedTasks ==
  ASSUME TypeOK
  PROVE  /\ Added \subseteq Tasks
         /\ \A p \in Added : NotNewer(p, applied) /\ applied \in Added
         /\ applied = 0 => Added = {}
         /\ applied # 0 => applied \in Added
BY PoolAssumption DEF TypeOK, Added, Tasks, NotNewer

\* rwlock goes from nobody to one worker and back.
LEMMA NextLocking ==
  ASSUME TypeOK, Locking, [Next]_vars PROVE Locking'
<1> USE Numbers DEF Locking, Locked, Goto
<1>1. wpc \in [Workers -> WorkerLabels]
  BY DEF TypeOK
<1>2. ASSUME NEW w \in Workers, WorkerStep(w) \/ SpuriousWakeup(w) PROVE Locking'
  <2>1. created' = created
    BY <1>2 DEF WorkerStep, TakeTask, Execute, LockQueue, TestCancel, CheckNonempty, CancelBlocked,
       LoadEnd, Compare, TakeOnly, ClearTail, ClearHead, WalkFirst, Walk, CutLast, SetTail, UnlockQueue,
       StartPoison, Start, Run, Finish, SpuriousWakeup, clientVars
  <2>2. \/ rwlock = NULL /\ rwlock' = w /\ wpc[w] \in {"lock", "blocked"}
           /\ \E l \in Locked : wpc' = [wpc EXCEPT ![w] = l]
        \/ rwlock' = rwlock /\ wpc[w] \in Locked /\ \E l \in Locked : wpc' = [wpc EXCEPT ![w] = l]
        \/ rwlock' = NULL /\ wpc[w] \in Locked /\ \E l \in {"blocked", "start", "exit"} : wpc' = [wpc EXCEPT ![w] = l]
        \/ rwlock' = rwlock /\ wpc[w] \in {"blocked", "start", "run", "finish"}
           /\ \E l \in {"lock", "run", "finish", "exit"} : wpc' = [wpc EXCEPT ![w] = l]
    <3>1. CASE TakeTask(w) \/ SpuriousWakeup(w)
      BY <1>1, <3>1 DEF TakeTask, LockQueue, TestCancel, CheckNonempty, CancelBlocked,
       LoadEnd, Compare, TakeOnly, ClearTail, ClearHead, WalkFirst, Walk, CutLast, SetTail, UnlockQueue,
       SpuriousWakeup
    <3>2. CASE Execute(w)
      BY <1>1, <3>2 DEF Execute, StartPoison, Start, Run, Finish
    <3> QED
      BY <1>2, <3>1, <3>2 DEF WorkerStep
  <2>3. wpc[w] # "none"
    BY <2>2
  <2>4. \A v \in Workers : wpc'[v] \in Locked <=> rwlock' = v
    BY <1>1, <2>2
  <2>5. \A v \in Workers : v > created => wpc'[v] = "none"
    BY <1>1, <2>2, <2>3
  <2> QED
    BY <2>1, <2>4, <2>5
<1>3. ASSUME CreateWorker PROVE Locking'
  <2>1. created \in Nat /\ created + 1 \in Workers
    BY <1>3, Numbers DEF CreateWorker, PoolReady, TypeOK
  <2>2. wpc' = [wpc EXCEPT ![created + 1] = "lock"] /\ rwlock' = rwlock /\ created' = created + 1
    BY <1>3 DEF CreateWorker
  <2>3. wpc[created + 1] = "none"
    BY <2>1
  <2>4. \A v \in Workers : v > created + 1 => wpc'[v] = "none"
    BY <1>1, <2>1, <2>2
  <2>5. \A v \in Workers : wpc'[v] \in Locked <=> rwlock' = v
    BY <1>1, <2>1, <2>2, <2>3
  <2> QED
    BY <2>2, <2>4, <2>5
<1>4. ASSUME UNCHANGED <<wpc, rwlock, created>> PROVE Locking'
  BY <1>4
<1>5. Inside => CreateWorker \/ UNCHANGED <<wpc, rwlock, created>>
  BY DEF Inside, Create, CreateFails, JoinCancelled, Apply, ApplyLoadTail, ApplyStoreFirst, ApplyStoreHead,
     ApplyLink, ApplyStoreTail, GetCheck, Join, JoinWorkers, Drain, DrainDone, ApplyAllocate, workerVars, clientVars
<1>6. ClientCall => UNCHANGED <<wpc, rwlock, created>>
  BY DEF ClientCall, ApplyAllocate, GetCall, DestroyFuture, GetTimeout, JoinCall, workerVars
<1> QED
  BY <1>2, <1>3, <1>4, <1>5, <1>6 DEF Next, vars, workerVars, clientVars

\* The steps of a worker, by the labels they lead from and to.
LEMMA WorkerMoves ==
  ASSUME TypeOK, NEW w \in Workers, WorkerStep(w) \/ SpuriousWakeup(w)
  PROVE  /\ wpc[w] \notin {"none", "exit"} /\ \E l \in WorkerLabels \ {"none"} : wpc' = [wpc EXCEPT ![w] = l]
         /\ UNCHANGED <<cfut, ctail, applied, created, destroyed, cancelled>>
         /\ ~Finish(w) => cpc' = cpc
         /\ cpc' = cpc \/ (cpc = "get_wait" /\ cpc' = "get_check")
<1> USE DEF TypeOK, WorkerLabels, Goto, clientVars
<1>1. CASE TakeTask(w) \/ SpuriousWakeup(w)
  BY <1>1 DEF TakeTask, LockQueue, TestCancel, CheckNonempty, CancelBlocked,
     LoadEnd, Compare, TakeOnly, ClearTail, ClearHead, WalkFirst, Walk, CutLast, SetTail, UnlockQueue,
     SpuriousWakeup
<1>2. CASE Execute(w)
  BY <1>2 DEF Execute, StartPoison, Start, Run, Finish
<1> QED
  BY <1>1, <1>2 DEF WorkerStep

\* Every call of the client starts and ends where the invariant has it.
LEMMA NextClient ==
  ASSUME TypeOK, Locking, Client, [Next]_vars PROVE Client'
<1> USE DEF ClientGoto, Goto
<1>0. /\ applied \in Nat /\ NTasks \in Nat /\ NWorkers \in Nat /\ created \in Nat
      /\ wpc \in [Workers -> WorkerLabels] /\ cpc \in Labels
  BY Numbers DEF TypeOK, Client, Labels, Adding
<1>1. ASSUME NEW w \in Workers, WorkerStep(w) \/ SpuriousWakeup(w) PROVE Client'
  <2>1. /\ wpc[w] \notin {"none", "exit"} /\ \E l \in WorkerLabels \ {"none"} : wpc' = [wpc EXCEPT ![w] = l]
        /\ UNCHANGED <<cfut, applied, destroyed, cancelled, created>>
        /\ cpc' = cpc \/ (cpc = "get_wait" /\ cpc' = "get_check")
    BY <1>1, WorkerMoves
  <2>2. AppliedAt(cpc, applied) /\ (cpc = "get_wait" => AppliedAt("get_check", applied))
    BY DEF Client, AppliedAt, Adding
  <2>3. AppliedAt(cpc', applied') /\ cpc' \in Labels
    BY <1>0, <2>1, <2>2 DEF Labels
  <2>4. Usable' = Usable
    BY <2>1 DEF Usable
  <2>5. cpc' \in {"get_wait", "get_check"} => cfut' \in Usable'
    BY <2>1, <2>4 DEF Client
  <2>6. /\ cpc' \in {"join_cancelled", "failed"} => cancelled' = 1 .. created'
        /\ cpc' \notin {"join_cancelled", "failed"} => cancelled' = {}
    BY <2>1 DEF Client
  <2>7. /\ cpc' = "failed" => \A v \in cancelled' : wpc'[v] = "exit"
        /\ cpc' \in {"drain", "over"} => \A v \in Workers : wpc'[v] = "exit"
    <3>1. cancelled \subseteq Workers
      BY DEF TypeOK
    <3>2. cpc' # "failed"
      <4> SUFFICES ASSUME cpc' = "failed" PROVE FALSE
        OBVIOUS
      <4>1. cpc = "failed" /\ cancelled = 1 .. created /\ w \notin cancelled
        BY <2>1 DEF Client
      <4>2. w > created
        BY <1>0, <4>1, Numbers
      <4> QED
        BY <2>1, <4>2 DEF Locking
    <3>3. cpc' \notin {"drain", "over"}
      BY <2>1 DEF Client
    <3> QED
      BY <3>2, <3>3
  <2> QED
    BY <2>3, <2>5, <2>6, <2>7 DEF Client
<1>2. ASSUME CreateWorker \/ CreateFails \/ JoinCancelled PROVE Client'
  <2>1. /\ AppliedAt(cpc, applied) /\ applied = 0 /\ applied' = applied
        /\ cpc' \in {"create", "rest", "join_cancelled", "failed"}
    BY <1>2 DEF CreateWorker, CreateFails, JoinCancelled, Client, AppliedAt
  <2>2. \A l \in {"create", "rest", "join_cancelled", "failed"} : AppliedAt(l, applied)
    BY <1>0, <2>1 DEF AppliedAt, Adding
  <2>3. AppliedAt(cpc', applied') /\ cpc' \in Labels
    BY <2>1, <2>2 DEF Labels
  <2>4. /\ cpc' \in {"join_cancelled", "failed"} => cancelled' = 1 .. created'
        /\ cpc' \notin {"join_cancelled", "failed"} => cancelled' = {}
    BY <1>2 DEF CreateWorker, CreateFails, JoinCancelled, Client, PoolReady
  <2>5. cpc' = "failed" => \A v \in cancelled' : wpc'[v] = "exit"
    BY <1>2 DEF CreateWorker, CreateFails, JoinCancelled, workerVars
  <2> QED
    BY <2>1, <2>3, <2>4, <2>5 DEF Client
<1>3. ASSUME ApplyAllocate PROVE Client'
  <2>1. cpc' = "load_tail" /\ applied' = applied + 1 /\ cancelled' = cancelled /\ cpc \in {"rest", "poison"}
    BY <1>3 DEF ApplyAllocate
  <2>2. AppliedAt("load_tail", applied + 1)
    BY <1>0 DEF AppliedAt, Adding
  <2>3. AppliedAt(cpc', applied')
    BY <2>1, <2>2
  <2> QED
    BY <2>1, <2>3 DEF Client, Labels, Adding
<1>4. ASSUME Apply PROVE Client'
  <2>1. /\ cpc \in Adding /\ applied' = applied /\ cancelled' = cancelled
        /\ \/ cpc' \in Adding
           \/ cpc' = "rest" /\ ~IsPoison(applied)
           \/ cpc' = "poison" /\ IsPoison(applied) /\ applied < NTasks + NWorkers
           \/ cpc' = "join"
    BY <1>4 DEF Apply, ApplyLoadTail, ApplyStoreFirst, ApplyStoreHead, ApplyLink, ApplyStoreTail, AfterApply, Adding
  <2>2. /\ \A l \in Adding : AppliedAt(l, applied)
        /\ ~IsPoison(applied) => AppliedAt("rest", applied)
        /\ IsPoison(applied) /\ applied < NTasks + NWorkers => AppliedAt("poison", applied)
        /\ AppliedAt("join", applied)
    BY <1>0, <2>1 DEF Client, AppliedAt, Adding, IsPoison
  <2>3. AppliedAt(cpc', applied') /\ cpc' \in Labels
    BY <2>1, <2>2 DEF Labels
  <2>4. cpc' \in {"rest", "poison", "join"} \cup Adding /\ cancelled = {}
    BY <2>1 DEF Client, Adding
  <2> QED
    BY <2>1, <2>3, <2>4 DEF Client, Adding
<1>5. ASSUME GetCheck \/ GetTimeout \/ JoinCall \/ JoinWorkers \/ Drain \/ DrainDone
             \/ \E k \in Tasks : GetCall(k) \/ DestroyFuture(k)
      PROVE Client'
  <2>1. /\ applied' = applied /\ cancelled' = cancelled /\ wpc' = wpc
        /\ \/ cpc \in {"rest", "get_wait", "get_check"} /\ cpc' \in {"rest", "get_wait", "get_check"}
           \/ cpc = "rest" /\ cpc' = "poison" /\ applied = NTasks
           \/ cpc \in {"join", "drain", "over"} /\ cpc' \in {"drain", "over"}
    BY <1>5 DEF GetCheck, GetTimeout, JoinCall, JoinWorkers, Drain, DrainDone, GetCall, DestroyFuture, clientVars, workerVars
  <2>2. AppliedAt(cpc', applied') /\ cpc' \in Labels
    <3>1. /\ cpc \in {"rest", "get_wait", "get_check"} =>
               \A l \in {"rest", "get_wait", "get_check"} : AppliedAt(l, applied)
          /\ applied = NTasks => AppliedAt("poison", applied)
          /\ \A l \in {"drain", "over"} : AppliedAt(l, applied)
      BY <1>0, PoolAssumption DEF Client, AppliedAt, Adding
    <3> QED
      BY <2>1, <3>1 DEF Labels
  <2>3. cpc' \in {"get_wait", "get_check"} => cfut' \in Usable'
    BY <1>5 DEF GetCheck, GetTimeout, JoinCall, JoinWorkers, Drain, DrainDone, GetCall, DestroyFuture, clientVars,
       Usable, Client
  <2>4. cpc' \in {"drain", "over"} => \A v \in Workers : wpc'[v] = "exit"
    BY <1>5 DEF GetCheck, GetTimeout, JoinCall, JoinWorkers, Drain, DrainDone, GetCall, DestroyFuture, clientVars,
       workerVars, Client
  <2>5. cancelled' = {} /\ cpc' \notin {"join_cancelled", "failed"}
    BY <2>1 DEF Client
  <2> QED
    BY <2>2, <2>3, <2>4, <2>5 DEF Client
<1>6. ASSUME UNCHANGED vars PROVE Client'
  BY <1>6 DEF vars, workerVars, clientVars, Client, Usable
<1> QED
  BY <1>1, <1>2, <1>3, <1>4, <1>5, <1>6 DEF Next, Inside, ClientCall, Create, Join

\* Every step keeps the types; what it counts up are the counters of a task there is.
LEMMA NextTypeOK ==
  ASSUME TypeOK, TakenOnce, Client, Walking, [Next]_vars PROVE TypeOK'
<1> USE DEF Goto, ClientGoto
<1>0. /\ {head, tail, ctail, cfut} \subseteq Pointers
      /\ next \in [Tasks -> Pointers]
      /\ rwlock \in Workers \cup {NULL}
      /\ live \subseteq 1 .. applied
      /\ flag \in [Tasks -> SUBSET Flags] /\ frees \in [Tasks -> Nat]
      /\ wpc \in [Workers -> WorkerLabels]
      /\ task \in [Workers -> Pointers] /\ tmp \in [Workers -> Pointers]
      /\ runs \in [Tasks -> Nat]
      /\ applied \in 0 .. NTasks + NWorkers /\ created \in 0 .. NWorkers
      /\ destroyed \subseteq 1 .. NTasks /\ cancelled \subseteq Workers
      /\ fault \in {"none", "null", "freed"}
      /\ Pointers = Tasks \cup {NULL} /\ NULL \notin Tasks
      /\ live \subseteq Tasks /\ applied \in Pointers
  <2>1. live \subseteq Tasks /\ applied \in Pointers
    BY Numbers DEF TypeOK
  <2> QED
    BY <2>1, Numbers DEF TypeOK
<1> DEFINE Counters == /\ \E n \in Nat, k \in Pointers : frees' = frees \/ frees' = [frees EXCEPT ![k] = n]
                       /\ \E n \in Nat, k \in Pointers : runs' = runs \/ runs' = [runs EXCEPT ![k] = n]
           Rest == /\ {head, tail, ctail, cfut}' \subseteq Pointers
                   /\ next' \in [Tasks -> Pointers]
                   /\ rwlock' \in Workers \cup {NULL}
                   /\ flag' \in [Tasks -> SUBSET Flags]
                   /\ wpc' \in [Workers -> WorkerLabels]
                   /\ task' \in [Workers -> Pointers] /\ tmp' \in [Workers -> Pointers]
                   /\ cancelled' \subseteq Workers
                   /\ fault' \in {"none", "null", "freed"}
           Bounds == /\ live' \subseteq 1 .. applied'
                     /\ applied' \in 0 .. NTasks + NWorkers /\ created' \in 0 .. NWorkers
                     /\ destroyed' \subseteq 1 .. NTasks
<1>1. ASSUME Counters, Rest, Bounds PROVE TypeOK'
  <2>1. frees' \in [Tasks -> Nat] /\ runs' \in [Tasks -> Nat]
    BY <1>0, <1>1
  <2> QED
    BY <1>1, <2>1 DEF TypeOK, Pointers, Tasks, Workers
<1>2. ASSUME NEW w \in Workers, WorkerStep(w) \/ SpuriousWakeup(w) PROVE Counters /\ Rest /\ Bounds
  <2>1. Bounds
    <3>1. /\ live' \subseteq live
      BY <1>2 DEF WorkerStep, TakeTask, Execute, LockQueue, TestCancel, CheckNonempty, CancelBlocked,
         LoadEnd, Compare, TakeOnly, ClearTail, ClearHead, WalkFirst, Walk, CutLast, SetTail, UnlockQueue,
         StartPoison, Start, Run, Finish, SpuriousWakeup, futureVars, Free
    <3>2. UNCHANGED <<applied, created, destroyed>>
      BY <1>2, WorkerMoves
    <3> QED
      BY <1>0, <3>1, <3>2
  <2>2. CASE TakeTask(w) \/ SpuriousWakeup(w)
    <3>1. Counters
      <4>1. frees' = frees /\ runs' = runs
        BY <2>2 DEF TakeTask, LockQueue, TestCancel, CheckNonempty, CancelBlocked,
         LoadEnd, Compare, TakeOnly, ClearTail, ClearHead, WalkFirst, Walk, CutLast, SetTail, UnlockQueue,
         SpuriousWakeup, futureVars
      <4> QED
        BY <1>0, <4>1
    <3>2. wpc' \in [Workers -> WorkerLabels]
      BY <1>0, <1>2, WorkerMoves
    <3>3. rwlock' \in Workers \cup {NULL} /\ flag' = flag /\ UNCHANGED <<ctail, cfut, cancelled>>
      BY <1>0, <2>2 DEF TakeTask, LockQueue, TestCancel, CheckNonempty, CancelBlocked,
         LoadEnd, Compare, TakeOnly, ClearTail, ClearHead, WalkFirst, Walk, CutLast, SetTail, UnlockQueue,
         SpuriousWakeup, futureVars, clientVars
    <3>4. /\ {head', tail'} \subseteq Pointers /\ next' \in [Tasks -> Pointers]
          /\ task' \in [Workers -> Pointers] /\ tmp' \in [Workers -> Pointers]
          /\ fault' \in {"none", "null", "freed"}
      <4>1. CASE CutLast(w)
        <5>1. tmp[w] \in Tasks
          BY <1>0, <1>2, <4>1 DEF CutLast, Walking, Queued
        <5> QED
          BY <1>0, <4>1, <5>1 DEF CutLast
      <4>2. CASE Walk(w)
        BY <1>0, <4>2 DEF Walk, Touch, queueVars
      <4>3. CASE SetTail(w) \/ ClearTail(w) \/ ClearHead(w) \/ TakeOnly(w) \/ WalkFirst(w) \/ LoadEnd(w)
        BY <1>0, <4>3 DEF SetTail, ClearTail, ClearHead, TakeOnly, WalkFirst, LoadEnd, queueVars
      <4>4. CASE LockQueue(w) \/ TestCancel(w) \/ CheckNonempty(w) \/ CancelBlocked(w) \/ Compare(w)
                 \/ UnlockQueue(w) \/ SpuriousWakeup(w)
        BY <1>0, <4>4 DEF LockQueue, TestCancel, CheckNonempty, CancelBlocked, Compare, UnlockQueue,
           SpuriousWakeup, queueVars
      <4> QED
        BY <2>2, <4>1, <4>2, <4>3, <4>4 DEF TakeTask
    <3> QED
      BY <1>0, <2>1, <3>1, <3>2, <3>3, <3>4
  <2>3. CASE Execute(w)
    <3>1. wpc' \in [Workers -> WorkerLabels]
      BY <1>0, <1>2, WorkerMoves
    <3>2. /\ UNCHANGED <<head, tail, next, rwlock, task, tmp, ctail, cfut, cancelled, fault>>
          /\ flag' \in [Tasks -> SUBSET Flags]
      <4>1. UNCHANGED <<head, tail, next, rwlock, task, tmp, ctail, cfut, cancelled, fault>>
        BY <2>3 DEF Execute, StartPoison, Start, Run, Finish, queueVars, clientVars
      <4>2. \/ flag' = flag
            \/ \E f \in {"RUNNING", "FINISHED"} : flag' = [flag EXCEPT ![task[w]] = @ \cup {f}]
        BY <2>3 DEF Execute, StartPoison, Start, Run, Finish, SetFlag, futureVars
      <4>3. \A k \in Tasks : \A f \in {"RUNNING", "FINISHED"} : flag[k] \cup {f} \in SUBSET Flags
        BY <1>0 DEF Flags
      <4> QED
        BY <1>0, <4>1, <4>2, <4>3
    <3>3. Counters
      <4>1. /\ frees' = frees \/ \E k \in Pointers : frees' = [frees EXCEPT ![k] = frees[k] + 1]
            /\ runs' = runs \/ \E k \in Pointers : runs' = [runs EXCEPT ![k] = runs[k] + 1]
        BY <1>0, <2>3 DEF Execute, StartPoison, Start, Run, Finish, FreeFuture, futureVars
      <4>2. \A k \in Tasks : frees[k] + 1 \in Nat /\ runs[k] + 1 \in Nat
        BY <1>0
      <4>3. \E n \in Nat, k \in Pointers : frees' = frees \/ frees' = [frees EXCEPT ![k] = n]
        BY <1>0, <4>1, <4>2
      <4>4. \E n \in Nat, k \in Pointers : runs' = runs \/ runs' = [runs EXCEPT ![k] = n]
        BY <1>0, <4>1, <4>2
      <4> QED
        BY <4>3, <4>4
    <3> QED
      BY <1>0, <2>1, <3>1, <3>2, <3>3
  <2> QED
    BY <1>2, <2>2, <2>3 DEF WorkerStep
<1>3. ASSUME CreateWorker \/ CreateFails \/ JoinCancelled PROVE Counters /\ Rest /\ Bounds
  <2>1. created # NWorkers => created + 1 \in 0 .. NWorkers /\ created + 1 \in Workers
    BY <1>0, Numbers
  <2>2. 1 .. created \subseteq Workers /\ "lock" \in WorkerLabels
    BY <1>0, Numbers DEF WorkerLabels
  <2>3. UNCHANGED <<head, tail, next, rwlock, live, flag, frees, task, tmp, runs, cfut, ctail, applied, destroyed, fault>>
    BY <1>3 DEF CreateWorker, CreateFails, JoinCancelled, queueVars, futureVars, workerVars
  <2>4. \/ wpc' = wpc /\ created' = created
        \/ wpc' = [wpc EXCEPT ![created + 1] = "lock"] /\ created' = created + 1 /\ created # NWorkers
    BY <1>3 DEF CreateWorker, CreateFails, JoinCancelled, workerVars, PoolReady
  <2>5. wpc' \in [Workers -> WorkerLabels]
    BY <1>0, <2>2, <2>4
  <2>6. created' \in 0 .. NWorkers
    BY <1>0, <2>1, <2>4
  <2>7. cancelled' \subseteq Workers
    BY <1>0, <1>3, <2>2 DEF CreateWorker, CreateFails, JoinCancelled
  <2> QED
    BY <1>0, <2>3, <2>5, <2>6, <2>7
<1>4. ASSUME ApplyAllocate PROVE Counters /\ Rest /\ Bounds
  <2>1. AppliedAt(cpc, applied) /\ (cpc = "poison" \/ (cpc = "rest" /\ applied < NTasks))
    BY <1>4, Numbers DEF ApplyAllocate, Client, AppliedAt
  <2>2. applied + 1 \in 0 .. NTasks + NWorkers
    BY <1>0, <2>1, Numbers, PoolAssumption DEF AppliedAt
  <2>3. live \cup {applied + 1} \subseteq 1 .. applied + 1
    <3>1. applied \in Nat /\ 1 .. applied \subseteq 1 .. applied + 1 /\ applied + 1 \in 1 .. applied + 1
      BY <1>0, Numbers
    <3> QED
      BY <1>0, <3>1
  <2>4. applied' = applied + 1 /\ live' = live \cup {applied + 1} /\ created' = created /\ destroyed' = destroyed
    BY <1>4 DEF ApplyAllocate
  <2>5. Bounds
    BY <1>0, <2>2, <2>3, <2>4
  <2>6. Counters /\ Rest
    BY <1>0, <1>4 DEF ApplyAllocate, queueVars, workerVars
  <2> QED
    BY <2>5, <2>6
<1>5. ASSUME Apply PROVE Counters /\ Rest /\ Bounds
  <2>1. UNCHANGED <<live, flag, frees, rwlock, wpc, task, tmp, runs, applied, created, destroyed, cancelled, cfut>>
    BY <1>5 DEF Apply, ApplyLoadTail, ApplyStoreFirst, ApplyStoreHead, ApplyLink, ApplyStoreTail, futureVars, workerVars
  <2>2. /\ {head', tail', ctail'} \subseteq Pointers /\ next' \in [Tasks -> Pointers]
        /\ fault' \in {"none", "null", "freed"}
    BY <1>0, <1>5 DEF Apply, ApplyLoadTail, ApplyStoreFirst, ApplyStoreHead, ApplyLink, ApplyStoreTail, queueVars, Touch
  <2> QED
    BY <1>0, <2>1, <2>2
<1>6. ASSUME GetCheck \/ GetTimeout \/ JoinCall \/ JoinWorkers \/ DrainDone \/ (\E k \in Tasks : GetCall(k))
      PROVE Counters /\ Rest /\ Bounds
  <2>1. UNCHANGED <<head, tail, next, live, frees, rwlock, wpc, task, tmp, runs, applied, created, destroyed, cancelled,
                    ctail, fault>>
    BY <1>6 DEF GetCheck, GetTimeout, JoinCall, JoinWorkers, DrainDone, GetCall, queueVars, futureVars, workerVars
  <2>2. cfut' \in Pointers /\ flag' \in [Tasks -> SUBSET Flags]
    BY <1>0, <1>6 DEF GetCheck, GetTimeout, JoinCall, JoinWorkers, DrainDone, GetCall, SetFlag, Flags, futureVars
  <2> QED
    BY <1>0, <2>1, <2>2
<1>7. ASSUME NEW k \in Tasks, DestroyFuture(k) PROVE Counters /\ Rest /\ Bounds
  <2>1. UNCHANGED <<head, tail, next, live, rwlock, wpc, task, tmp, runs, applied, created, cancelled, cfut, ctail, fault>>
    BY <1>7 DEF DestroyFuture, queueVars, workerVars
  <2>2. destroyed' = destroyed \cup {k} /\ k \in 1 .. NTasks
    BY <1>0, <1>7, Numbers DEF DestroyFuture, Usable
  <2>3. flag' \in [Tasks -> SUBSET Flags]
    <3>1. flag' = flag \/ flag' = [flag EXCEPT ![k] = flag[k] \cup {"DESTROYED"}]
      BY <1>7 DEF DestroyFuture, SetFlag
    <3>2. flag[k] \cup {"DESTROYED"} \in SUBSET Flags
      BY <1>0 DEF Flags
    <3> QED
      BY <1>0, <3>1, <3>2
  <2>4. Counters
    <3>1. frees' = frees \/ frees' = [frees EXCEPT ![k] = frees[k] + 1]
      BY <1>7 DEF DestroyFuture, FreeFuture
    <3>2. frees[k] + 1 \in Nat
      BY <1>0
    <3> QED
      BY <1>0, <2>1, <3>1, <3>2
  <2> QED
    BY <1>0, <2>1, <2>2, <2>3, <2>4
<1>8. ASSUME Drain PROVE Counters /\ Rest /\ Bounds
  <2>1. UNCHANGED <<tail, next, rwlock, wpc, task, tmp, runs, applied, created, cancelled, cfut, ctail, destroyed>>
    BY <1>8 DEF Drain, clientVars, workerVars
  <2>2. head \in Tasks /\ head' = next[head] /\ live' = live \ {head}
    BY <1>0, <1>8 DEF Drain, Free
  <2>3. flag' \in [Tasks -> SUBSET Flags] /\ fault' \in {"none", "null", "freed"}
    BY <1>0, <1>8 DEF Drain, SetFlag, Flags, Touch
  <2>4. Counters
    <3>1. frees' = frees \/ frees' = [frees EXCEPT ![head] = frees[head] + 1]
      BY <1>8 DEF Drain, FreeFuture
    <3>2. frees[head] + 1 \in Nat
      BY <1>0, <2>2
    <3> QED
      BY <1>0, <2>1, <3>1, <3>2
  <2> QED
    BY <1>0, <2>1, <2>2, <2>3, <2>4
<1>9. ASSUME UNCHANGED vars PROVE Counters /\ Rest /\ Bounds
  BY <1>0, <1>9 DEF vars, queueVars, futureVars, workerVars, clientVars
<1> HIDE DEF Counters, Rest, Bounds
<1> QED
  BY <1>1, <1>2, <1>3, <1>4, <1>5, <1>6, <1>7, <1>8, <1>9 DEF Next, Inside, ClientCall, Create, Join

\* One worker at a time holds rwlock.
LEMMA Alone ==
  ASSUME Locking, NEW w \in Workers, NEW v \in Workers, wpc[w] \in Locked, wpc[v] \in Locked
  PROVE  w = v
BY DEF Locking

\* A worker takes a task that nobody has.
LEMMA TakesQueued ==
  ASSUME IInv, NEW w \in Workers
  PROVE  /\ wpc[w] = "only" => tail \in Tasks /\ Queued(tail)
         /\ wpc[w] = "cut" => /\ tmp[w] \in Tasks /\ next[tmp[w]] \in Tasks
                              /\ Queued(tmp[w]) /\ Queued(next[tmp[w]])
<1> USE DEF IInv
<1>1. ASSUME wpc[w] = "only" PROVE tail \in Tasks /\ Queued(tail)
  <2>1. tail # NULL /\ cpc \notin {"drain", "over"}
    BY <1>1 DEF Ends, Client
  <2>2. ~Clearing(tail, {"clear", "clear_tail", "set_tail"})
    BY <1>1, Alone DEF Clearing, Locked
  <2> QED
    BY <2>1, <2>2, Numbers DEF Queue, TypeOK
<1>2. ASSUME wpc[w] = "cut"
      PROVE  /\ tmp[w] \in Tasks /\ next[tmp[w]] \in Tasks
             /\ Queued(tmp[w]) /\ Queued(next[tmp[w]])
  <2>1. head # NULL /\ NotNewer(head, tmp[w]) /\ Queued(tmp[w]) /\ next[tmp[w]] # NULL
    BY <1>2 DEF Walking
  <2>2. tmp[w] \in Tasks
    BY <2>1, Numbers, AddedTasks DEF Queued, TypeOK, Added
  <2>3. next[tmp[w]] \in Tasks
    BY <2>1, <2>2, Numbers DEF TypeOK
  <2>4. ~Clearing(next[tmp[w]], {"clear", "clear_head"})
    BY <1>2, Alone DEF Clearing, Locked
  <2> QED
    BY <2>1, <2>2, <2>3, <2>4 DEF Queue
<1> QED
  BY <1>1, <1>2

\* Who has a task changes when it is taken and when it is freed.
LEMMA WorkerQueued ==
  ASSUME TypeOK, TakenOnce, NEW w \in Workers, WorkerStep(w) \/ SpuriousWakeup(w)
  PROVE  \A k : Queued(k)' <=> /\ Queued(k)
                               /\ TakeOnly(w) => k # tail
                               /\ CutLast(w) => k # next[tmp[w]]
<1> USE DEF Goto
<1>0. /\ wpc \in [Workers -> WorkerLabels] /\ task \in [Workers -> Pointers]
      /\ \A v \in Workers : wpc[v] \in HasTask => task[v] \in live
      /\ \A u, v \in Workers : wpc[u] \in HasTask /\ wpc[v] \in HasTask /\ task[u] = task[v] => u = v
  BY DEF TypeOK, TakenOnce
<1> SUFFICES ASSUME NEW k
             PROVE Queued(k)' <=> /\ Queued(k)
                                  /\ TakeOnly(w) => k # tail
                                  /\ CutLast(w) => k # next[tmp[w]]
  OBVIOUS
<1>1. CASE TakeOnly(w)
  <2>1. live' = live /\ wpc' = [wpc EXCEPT ![w] = "clear"] /\ task' = [task EXCEPT ![w] = tail] /\ wpc[w] = "only"
    BY <1>1 DEF TakeOnly, futureVars
  <2>2. ~CutLast(w)
    BY <2>1 DEF CutLast
  <2> QED
    BY <1>0, <1>1, <2>1, <2>2 DEF Queued, Taken, HasTask
<1>2. CASE CutLast(w)
  <2>1. /\ live' = live /\ wpc' = [wpc EXCEPT ![w] = "set_tail"] /\ task' = [task EXCEPT ![w] = next[tmp[w]]]
        /\ wpc[w] = "cut"
    BY <1>2 DEF CutLast, futureVars
  <2>2. ~TakeOnly(w)
    BY <2>1 DEF TakeOnly
  <2> QED
    BY <1>0, <1>2, <2>1, <2>2 DEF Queued, Taken, HasTask
<1>3. ASSUME live' = live, task' = task,
             \E l \in WorkerLabels : wpc' = [wpc EXCEPT ![w] = l] /\ (l \in HasTask <=> wpc[w] \in HasTask)
      PROVE Queued(k)' <=> Queued(k)
  BY <1>0, <1>3 DEF Queued, Taken
<1>4. ASSUME live' = live \ {task[w]}, task' = task, wpc[w] \in HasTask,
             \E l \in WorkerLabels \ HasTask : wpc' = [wpc EXCEPT ![w] = l]
      PROVE Queued(k)' <=> Queued(k)
  BY <1>0, <1>4 DEF Queued, Taken
<1>5. \/ TakeOnly(w) \/ CutLast(w)
      \/ /\ live' = live /\ task' = task
         /\ \E l \in WorkerLabels : wpc' = [wpc EXCEPT ![w] = l] /\ (l \in HasTask <=> wpc[w] \in HasTask)
      \/ /\ live' = live \ {task[w]} /\ task' = task /\ wpc[w] \in HasTask
         /\ \E l \in WorkerLabels \ HasTask : wpc' = [wpc EXCEPT ![w] = l]
  <2>1. CASE SpuriousWakeup(w) \/ LockQueue(w) \/ TestCancel(w) \/ CheckNonempty(w) \/ CancelBlocked(w)
    BY <2>1 DEF SpuriousWakeup, LockQueue, TestCancel, CheckNonempty, CancelBlocked, WorkerLabels, HasTask, futureVars
  <2>2. CASE LoadEnd(w) \/ Compare(w) \/ WalkFirst(w)
    BY <2>2 DEF LoadEnd, Compare, WalkFirst, WorkerLabels, HasTask, futureVars
  <2>3. CASE Walk(w)
    <3>1. live' = live /\ task' = task /\ (wpc' = wpc \/ wpc' = [wpc EXCEPT ![w] = "cut"]) /\ wpc[w] = "walk"
      BY <2>3 DEF Walk, futureVars
    <3>2. wpc' = [wpc EXCEPT ![w] = "walk"] \/ wpc' = [wpc EXCEPT ![w] = "cut"]
      BY <1>0, <3>1
    <3> QED
      BY <3>1, <3>2 DEF HasTask, WorkerLabels
  <2>4. CASE ClearTail(w) \/ ClearHead(w) \/ SetTail(w) \/ UnlockQueue(w)
    BY <2>4 DEF ClearTail, ClearHead, SetTail, UnlockQueue, WorkerLabels, HasTask, futureVars
  <2>5. CASE StartPoison(w) \/ Start(w) \/ Run(w) \/ Finish(w)
    BY <2>5 DEF StartPoison, Start, Run, Finish, Free, WorkerLabels, HasTask, futureVars
  <2> QED
    BY <2>1, <2>2, <2>3, <2>4, <2>5 DEF WorkerStep, TakeTask, Execute
<1> QED
  BY <1>1, <1>2, <1>3, <1>4, <1>5

\* Nobody takes a task that another has.
LEMMA NextTakenOnce ==
  ASSUME IInv, [Next]_vars PROVE TakenOnce'
<1> USE DEF Goto
<1>0. /\ wpc \in [Workers -> WorkerLabels] /\ task \in [Workers -> Pointers]
      /\ \A v \in Workers : wpc[v] \in HasTask => task[v] \in live
      /\ \A u, v \in Workers : wpc[u] \in HasTask /\ wpc[v] \in HasTask /\ task[u] = task[v] => u = v
  BY DEF IInv, TypeOK, TakenOnce
<1>1. ASSUME NEW w \in Workers, WorkerStep(w) \/ SpuriousWakeup(w) PROVE TakenOnce'
  <2>1. ASSUME NEW k, Queued(k), live' = live, task' = [task EXCEPT ![w] = k],
               \E l \in HasTask : wpc' = [wpc EXCEPT ![w] = l]
        PROVE TakenOnce'
    BY <1>0, <2>1 DEF TakenOnce, Queued, Taken
  <2>2. CASE TakeOnly(w)
    <3>1. wpc[w] = "only" /\ live' = live /\ task' = [task EXCEPT ![w] = tail] /\ wpc' = [wpc EXCEPT ![w] = "clear"]
      BY <2>2 DEF TakeOnly, futureVars
    <3> QED
      BY <2>1, <3>1, TakesQueued DEF HasTask
  <2>3. CASE CutLast(w)
    <3>1. /\ wpc[w] = "cut" /\ live' = live /\ task' = [task EXCEPT ![w] = next[tmp[w]]]
          /\ wpc' = [wpc EXCEPT ![w] = "set_tail"]
      BY <2>3 DEF CutLast, futureVars
    <3> QED
      BY <2>1, <3>1, TakesQueued DEF HasTask
  <2>4. CASE ~TakeOnly(w) /\ ~CutLast(w)
    <3>1. task' = task
      BY <1>1, <2>4 DEF WorkerStep, TakeTask, Execute, LockQueue, TestCancel, CheckNonempty, CancelBlocked,
         LoadEnd, Compare, ClearTail, ClearHead, WalkFirst, Walk, SetTail, UnlockQueue,
         StartPoison, Start, Run, Finish, SpuriousWakeup
    <3>2. \E l \in WorkerLabels : wpc' = [wpc EXCEPT ![w] = l] /\ (l \in HasTask => wpc[w] \in HasTask)
      <4>1. CASE wpc[w] \in HasTask
        BY <1>1, <4>1, WorkerMoves DEF IInv
      <4>2. CASE wpc[w] \notin HasTask
        <5>1. \E l \in WorkerLabels \ HasTask : wpc' = [wpc EXCEPT ![w] = l]
          <6>1. CASE Walk(w)
            <7>1. wpc[w] = "walk" /\ (wpc' = wpc \/ wpc' = [wpc EXCEPT ![w] = "cut"])
              BY <6>1 DEF Walk
            <7>2. wpc' = [wpc EXCEPT ![w] = "walk"] \/ wpc' = [wpc EXCEPT ![w] = "cut"]
              BY <1>0, <7>1
            <7> QED
              BY <7>2 DEF HasTask, WorkerLabels
          <6>2. CASE ~Walk(w)
            BY <1>1, <2>4, <4>2, <6>2 DEF WorkerStep, TakeTask, Execute, LockQueue, TestCancel, CheckNonempty, CancelBlocked,
             LoadEnd, Compare, ClearTail, ClearHead, WalkFirst, SetTail, UnlockQueue,
             StartPoison, Start, Run, Finish, SpuriousWakeup, HasTask, WorkerLabels
          <6> QED
            BY <6>1, <6>2
        <5> QED
          BY <5>1
      <4> QED
        BY <4>1, <4>2
    <3>3. live' = live \/ (live' = live \ {task[w]} /\ wpc[w] \in HasTask /\ \E l \in WorkerLabels \ HasTask : wpc' = [wpc EXCEPT ![w] = l])
      <4>1. CASE StartPoison(w) \/ Start(w) \/ Finish(w)
        BY <4>1 DEF StartPoison, Start, Finish, Free, HasTask, WorkerLabels
      <4>2. CASE ~(StartPoison(w) \/ Start(w) \/ Finish(w))
        BY <1>1, <4>2 DEF WorkerStep, TakeTask, Execute, LockQueue, TestCancel, CheckNonempty, CancelBlocked,
         LoadEnd, Compare, TakeOnly, ClearTail, ClearHead, WalkFirst, Walk, CutLast, SetTail, UnlockQueue,
         Run, SpuriousWakeup, futureVars
      <4> QED
        BY <4>1, <4>2
    <3>4. \A v \in Workers : wpc'[v] \in HasTask => wpc[v] \in HasTask
      BY <1>0, <3>2
    <3>5. \A v \in Workers : wpc'[v] \in HasTask => task[v] \in live'
      BY <1>0, <3>3, <3>4
    <3> QED
      BY <1>0, <3>1, <3>4, <3>5 DEF TakenOnce
  <2> QED
    BY <2>2, <2>3, <2>4
<1>2. ASSUME task' = task, \A v \in Workers : wpc'[v] \in HasTask => wpc[v] \in HasTask, live \subseteq live'
      PROVE TakenOnce'
  BY <1>0, <1>2 DEF TakenOnce
<1>3. ASSUME CreateWorker PROVE TakenOnce'
  <2>1. wpc' = [wpc EXCEPT ![created + 1] = "lock"] /\ task' = task /\ live' = live
    BY <1>3 DEF CreateWorker, futureVars
  <2> QED
    BY <1>0, <1>2, <2>1 DEF HasTask
<1>4. CASE Drain
  <2>1. task' = task /\ wpc' = wpc /\ cpc = "drain"
    BY <1>4 DEF Drain, workerVars
  <2>2. \A v \in Workers : wpc'[v] \notin HasTask
    BY <2>1 DEF IInv, Client, HasTask
  <2> QED
    BY <2>2 DEF TakenOnce
<1>5. ASSUME CreateFails \/ JoinCancelled \/ ApplyAllocate \/ Apply \/ GetCheck \/ GetTimeout \/ JoinCall
             \/ JoinWorkers \/ DrainDone \/ (\E k \in Tasks : GetCall(k) \/ DestroyFuture(k)) \/ UNCHANGED vars
      PROVE TakenOnce'
  <2>1. task' = task /\ wpc' = wpc /\ live \subseteq live'
    BY <1>5 DEF CreateFails, JoinCancelled, ApplyAllocate, Apply, ApplyLoadTail, ApplyStoreFirst, ApplyStoreHead, ApplyLink,
       ApplyStoreTail, GetCheck, GetTimeout, JoinCall, JoinWorkers, DrainDone, GetCall, DestroyFuture, vars,
       workerVars, futureVars
  <2> QED
    BY <1>2, <2>1
<1> QED
  BY <1>1, <1>3, <1>4, <1>5 DEF Next, Inside, ClientCall, Create, Join

-----------------------------------------------------------------------------
(* The list *)

\* The parts of the invariant about the list.
List == NewTask /\ Links /\ Ends /\ Queue /\ Walking

\* Inside the part of jobqueue_fetch that looks at the list.
Active == {"ends", "with_tail", "with_head", "only", "clear", "clear_tail", "clear_head",
           "first", "walk", "cut", "set_tail"}

\* A step that does not touch the list or who has what.
ListFrame ==
  /\ UNCHANGED <<head, tail, next, tmp, task, applied, ctail>>
  /\ \A k : Queued(k)' <=> Queued(k)
  /\ \A v \in Workers : wpc[v] \in Active \/ wpc'[v] \in Active => wpc'[v] = wpc[v]
  /\ cpc \in Adding \/ cpc' \in Adding => cpc' = cpc
  /\ cpc' \notin {"drain", "over"} => cpc \notin {"drain", "over"}

\* What the list parts say does not change in such a step.
LEMMA FrameKeepsList ==
  ASSUME List, ListFrame PROVE List'
<1> USE DEF ListFrame
<1>1. /\ UNCHANGED <<head, tail, next, tmp, task, applied, ctail, Added>>
      /\ \A v \in Workers : \A l \in Active : wpc'[v] = l <=> wpc[v] = l
      /\ \A l \in Adding : cpc' = l <=> cpc = l
  BY DEF Added
<1>2. ASSUME NEW k, NEW labels \in SUBSET Active PROVE Clearing(k, labels)' <=> Clearing(k, labels)
  BY <1>1 DEF Clearing
<1>3. /\ {"clear", "clear_tail", "set_tail"} \in SUBSET Active /\ {"clear", "clear_head"} \in SUBSET Active
  BY DEF Active
<1>4. NewTask'
  BY <1>1 DEF List, NewTask, Active, Adding
<1>5. Links'
  BY <1>1 DEF List, Links
<1>6. Ends'
  BY <1>1 DEF List, Ends, Active, Adding
<1>7. Queue'
  <2>1. cpc' \notin {"drain", "over"} /\ tail' # NULL =>
           Queued(tail)' \/ Clearing(tail, {"clear", "clear_tail", "set_tail"})'
    BY <1>1, <1>2, <1>3 DEF List, Queue
  <2>2. head' # NULL => Queued(head)' \/ Clearing(head, {"clear", "clear_head"})'
    BY <1>1, <1>2, <1>3 DEF List, Queue
  <2>3. ASSUME NEW p \in Tasks, head' # NULL, NotNewer(head', p), Queued(p)', next'[p] # NULL
        PROVE Queued(next[p])' \/ Clearing(next[p], {"clear", "clear_head"})'
    BY <1>1, <1>2, <1>3, <2>3 DEF List, Queue
  <2> QED
    BY <2>1, <2>2, <2>3 DEF Queue
<1>8. Walking'
  BY <1>1 DEF List, Walking, Active
<1> QED
  BY <1>4, <1>5, <1>6, <1>7, <1>8 DEF List

\* The steps of a worker before and behind its look at the list.
QuietWorker(w) ==
  \/ LockQueue(w) \/ TestCancel(w) \/ SpuriousWakeup(w) \/ CancelBlocked(w) \/ UnlockQueue(w) \/ Execute(w)
  \/ CheckNonempty(w) /\ tail = NULL

\* Locking, unlocking, waiting and executing leave the list alone.
LEMMA QuietWorkerFrame ==
  ASSUME IInv, NEW w \in Workers, QuietWorker(w), Alive \/ SpuriousWakeup(w) PROVE ListFrame
<1> USE DEF Goto
<1>0. wpc \in [Workers -> WorkerLabels] /\ TypeOK /\ TakenOnce
  BY DEF IInv, TypeOK
<1>1. WorkerStep(w) \/ SpuriousWakeup(w)
  BY DEF QuietWorker, WorkerStep, TakeTask
<1>2. UNCHANGED <<head, tail, next, tmp, task>>
  BY DEF QuietWorker, LockQueue, TestCancel, SpuriousWakeup, CancelBlocked, UnlockQueue, Execute, CheckNonempty,
     StartPoison, Start, Run, Finish, queueVars
<1>3. UNCHANGED <<applied, ctail>> /\ (cpc' = cpc \/ (cpc = "get_wait" /\ cpc' = "get_check"))
  BY <1>0, <1>1, WorkerMoves
<1>4. wpc[w] \notin Active /\ \E l \in WorkerLabels \ Active : wpc' = [wpc EXCEPT ![w] = l]
  BY DEF QuietWorker, LockQueue, TestCancel, SpuriousWakeup, CancelBlocked, UnlockQueue, Execute, CheckNonempty,
     StartPoison, Start, Run, Finish, Active, WorkerLabels
<1>5. ~TakeOnly(w) /\ ~CutLast(w)
  BY <1>4 DEF TakeOnly, CutLast, Active
<1>6. \A k : Queued(k)' <=> Queued(k)
  BY <1>0, <1>1, <1>5, WorkerQueued
<1> QED
  BY <1>0, <1>2, <1>3, <1>4, <1>6 DEF ListFrame, Adding

\* What the client does to who has what.
LEMMA ClientQueued ==
  ASSUME TypeOK, Locking, TakenOnce, wpc' = wpc \/ CreateWorker, task' = task
  PROVE  /\ live' = live => \A k : Queued(k)' <=> Queued(k)
         /\ live' = live \cup {applied + 1} => \A k : Queued(k)' <=> Queued(k) \/ k = applied + 1
         /\ live' = live \ {head} => \A k : Queued(k)' <=> Queued(k) /\ k # head
<1>1. \A k : Taken(k)' <=> Taken(k)
  <2>1. CASE wpc' = wpc
    BY <2>1 DEF Taken
  <2>2. CASE CreateWorker
    <3>1. wpc' = [wpc EXCEPT ![created + 1] = "lock"]
      BY <2>2 DEF CreateWorker, Goto
    <3>2. created + 1 \in Workers => wpc[created + 1] = "none"
      <4>1. created + 1 > created
        BY DEF TypeOK
      <4> QED
        BY <4>1 DEF Locking
    <3>3. \A w \in Workers : wpc'[w] \in HasTask <=> wpc[w] \in HasTask
      BY <3>1, <3>2 DEF TypeOK, HasTask
    <3> QED
      BY <3>3 DEF Taken
  <2> QED
    BY <2>1, <2>2
<1>2. ~Taken(applied + 1)
  <2>1. applied + 1 \notin live
    BY DEF TypeOK
  <2> QED
    BY <2>1 DEF Taken, TakenOnce
<1> QED
  BY <1>1, <1>2 DEF Queued

\* The steps of the client outside tpool_apply and jobqueue_destroy.
QuietClient ==
  \/ Create \/ GetCheck \/ GetTimeout \/ JoinCall \/ JoinWorkers \/ DrainDone
  \/ \E k \in Tasks : GetCall(k) \/ DestroyFuture(k)

\* So do creating, getting, destroying and the calls of tpool_join but one.
LEMMA QuietClientFrame ==
  ASSUME IInv, QuietClient \/ UNCHANGED vars PROVE ListFrame
<1> USE DEF Goto, ClientGoto
<1>0. wpc \in [Workers -> WorkerLabels] /\ TypeOK /\ TakenOnce /\ Locking
  BY DEF IInv, TypeOK
<1>1. /\ UNCHANGED <<head, tail, next, tmp, task, live, applied, ctail>>
      /\ wpc' = wpc \/ CreateWorker
  BY DEF QuietClient, Create, CreateWorker, CreateFails, JoinCancelled, GetCheck, GetTimeout, JoinCall, JoinWorkers,
     DrainDone, GetCall, DestroyFuture, vars, queueVars, workerVars, clientVars, futureVars
<1>2. \A k : Queued(k)' <=> Queued(k)
  BY <1>0, <1>1, ClientQueued
<1>3. \A v \in Workers : wpc[v] \in Active \/ wpc'[v] \in Active => wpc'[v] = wpc[v]
  <2>1. CASE CreateWorker
    <3>1. /\ wpc' = [wpc EXCEPT ![created + 1] = "lock"] /\ created + 1 > created
      BY <2>1, <1>0 DEF CreateWorker, TypeOK
    <3>2. created + 1 \in Workers => wpc[created + 1] = "none"
      BY <1>0, <3>1 DEF Locking
    <3> QED
      BY <1>0, <3>1, <3>2 DEF Active
  <2> QED
    BY <1>1, <2>1
<1>4. /\ cpc \in Adding \/ cpc' \in Adding => cpc' = cpc
      /\ cpc' \notin {"drain", "over"} => cpc \notin {"drain", "over"}
  BY DEF QuietClient, Create, CreateWorker, CreateFails, JoinCancelled, GetCheck, GetTimeout, JoinCall, JoinWorkers,
     DrainDone, GetCall, DestroyFuture, vars, clientVars, Adding
<1> QED
  BY <1>1, <1>2, <1>3, <1>4 DEF ListFrame

\* The types the list is made of.
LEMMA ListTypes ==
  ASSUME IInv
  PROVE  /\ wpc \in [Workers -> WorkerLabels] /\ task \in [Workers -> Pointers] /\ tmp \in [Workers -> Pointers]
         /\ next \in [Tasks -> Pointers] /\ {head, tail, ctail} \subseteq Pointers /\ Pointers = Tasks \cup {NULL}
         /\ NULL \notin Tasks /\ Added \subseteq Tasks
         /\ \A k : Queued(k) => k \in Added
         /\ cpc \in Adding => applied \in Added
         /\ \A p \in Added : NotNewer(p, applied)
<1>1. TypeOK /\ NewTask /\ Links
  BY DEF IInv
<1>2. live \subseteq Added
  BY <1>1 DEF TypeOK, Added
<1>3. \A k : Queued(k) => k \in Added
  BY <1>2 DEF Queued
<1> QED
  BY <1>1, <1>3, Numbers, AddedTasks DEF TypeOK, NewTask

\* The task taken is the last one; if it is the first one too, head is cleared next.
LEMMA TakeOnlyList ==
  ASSUME IInv, NEW w \in Workers, TakeOnly(w), WorkerStep(w) PROVE List'
<1> USE ListTypes
<1>0. TypeOK /\ Locking /\ TakenOnce /\ NewTask /\ Links /\ Ends /\ Queue /\ Walking /\ Client
  BY DEF IInv
<1>1. /\ wpc[w] = "only" /\ wpc' = [wpc EXCEPT ![w] = "clear"] /\ task' = [task EXCEPT ![w] = tail]
      /\ UNCHANGED <<head, tail, next, tmp, applied, ctail, cpc, Added>>
  BY DEF TakeOnly, Goto, queueVars, clientVars, Added
<1>2. tail \in Tasks /\ Queued(tail) /\ cpc \notin {"store_first", "store_head"}
  BY <1>0, <1>1, TakesQueued DEF Ends
<1>3. \A k : Queued(k)' <=> Queued(k) /\ k # tail
  <2>1. ~CutLast(w)
    BY <1>1 DEF CutLast
  <2> QED
    BY <1>0, <2>1, WorkerQueued
<1>4. \A v \in Workers \ {w} : wpc[v] \notin Locked /\ wpc'[v] = wpc[v]
  BY <1>0, <1>1, Alone DEF Locked
<1>5. wpc'[w] = "clear" /\ task'[w] = tail
  BY <1>1
<1>6. NewTask'
  <2>1. cpc \in Adding => applied # tail
    BY <1>0, <1>2 DEF NewTask, Adding
  <2> QED
    BY <1>0, <1>1, <1>3, <1>4, <1>5, <2>1 DEF NewTask, Locked
<1>7. Links'
  BY <1>0, <1>1 DEF Links
<1>8. Ends'
  BY <1>0, <1>1, <1>2, <1>4, <1>5 DEF Ends, Locked
<1>9. Queue'
  <2>1. \A k : Clearing(k, {"clear", "clear_tail", "set_tail"})' <=> k = tail
    BY <1>4, <1>5 DEF Clearing, Locked
  <2>2. \A k : Clearing(k, {"clear", "clear_head"})' <=> k = tail
    BY <1>4, <1>5 DEF Clearing, Locked
  <2>3. \A k : ~Clearing(k, {"clear", "clear_head"})
    BY <1>1, <1>4 DEF Clearing, Locked
  <2>4. cpc' \notin {"drain", "over"} /\ tail' # NULL =>
           Queued(tail)' \/ Clearing(tail, {"clear", "clear_tail", "set_tail"})'
    BY <1>1, <2>1
  <2>5. head' # NULL => Queued(head)' \/ Clearing(head, {"clear", "clear_head"})'
    BY <1>0, <1>1, <1>3, <2>2, <2>3 DEF Queue
  <2>6. ASSUME NEW p \in Tasks, head' # NULL, NotNewer(head', p), Queued(p)', next'[p] # NULL
        PROVE Queued(next[p])' \/ Clearing(next[p], {"clear", "clear_head"})'
    BY <1>0, <1>1, <1>3, <2>2, <2>3, <2>6 DEF Queue
  <2> QED
    BY <2>4, <2>5, <2>6 DEF Queue
<1>10. Walking'
  BY <1>0, <1>1, <1>4, <1>5 DEF Walking, Locked
<1> QED
  BY <1>6, <1>7, <1>8, <1>9, <1>10 DEF List

\* The task cut off was behind one other task only, so it is found no more.
LEMMA CutLastList ==
  ASSUME IInv, NEW w \in Workers, CutLast(w), WorkerStep(w) PROVE List'
<1> USE ListTypes
<1>0. TypeOK /\ Locking /\ TakenOnce /\ NewTask /\ Links /\ Ends /\ Queue /\ Walking /\ Client
  BY DEF IInv
<1> DEFINE p == tmp[w]
           k == next[p]
<1>1. /\ wpc[w] = "cut" /\ wpc' = [wpc EXCEPT ![w] = "set_tail"] /\ task' = [task EXCEPT ![w] = k]
      /\ next' = [next EXCEPT ![p] = NULL]
      /\ UNCHANGED <<head, tail, tmp, applied, ctail, cpc, Added>>
  BY DEF CutLast, Goto, clientVars, Added
<1>2. p \in Tasks /\ k \in Tasks /\ Queued(p) /\ Queued(k) /\ head # NULL /\ NotNewer(head, p)
  BY <1>0, <1>1, TakesQueued DEF Walking
<1>3. \A o : Queued(o)' <=> Queued(o) /\ o # k
  <2>1. ~TakeOnly(w)
    BY <1>1 DEF TakeOnly
  <2> QED
    BY <1>0, <2>1, WorkerQueued
<1>4. \A v \in Workers \ {w} : wpc[v] \notin Locked /\ wpc'[v] = wpc[v]
  BY <1>0, <1>1, Alone DEF Locked
<1>5. wpc'[w] = "set_tail" /\ task'[w] = k /\ tmp'[w] = p
  BY <1>1
<1>6. k # p /\ k # head /\ NotNewer(p, k)
  <2>1. NotNewer(p, k) /\ p # k
    BY <1>0, <1>2, Numbers DEF Links
  <2>2. head \in Tasks
    BY <1>2
  <2> QED
    BY <1>2, <2>1, <2>2, Order
<1>7. /\ next'[p] = NULL /\ \A o \in Tasks \ {p} : next'[o] = next[o] /\ next'[o] # k
      /\ next' \in [Tasks -> Pointers]
  BY <1>0, <1>1, <1>2, Numbers DEF Links
<1> HIDE DEF p, k
<1>8. NewTask'
  <2>1. cpc \in Adding => applied # k /\ applied # p
    BY <1>0, <1>1 DEF NewTask, p, k
  <2>2. \A o \in Tasks : next'[o] = next[o] \/ next'[o] = NULL
    BY <1>7
  <2>3. cpc \in Adding => Queued(applied)' /\ next'[applied] = NULL
    BY <1>0, <1>1, <1>3, <2>1, <2>2 DEF NewTask
  <2>4. cpc \in {"load_tail", "store_first", "link", "store_head"} => \A o \in Tasks : next'[o] # applied
    BY <1>0, <2>2 DEF NewTask, Adding
  <2>5. cpc \in Adding => \A v \in Workers :
          /\ wpc'[v] \in {"cut", "set_tail"} => tmp[v] # applied
          /\ wpc'[v] # "cut"
          /\ wpc'[v] \notin {"with_tail", "walk"}
    BY <1>4, <1>5, <2>1, <1>1 DEF Locked
  <2> QED
    BY <1>0, <1>1, <2>3, <2>4, <2>5 DEF NewTask
<1>9. Links'
  BY <1>0, <1>1, <1>2, <1>7 DEF Links
<1>10. Ends'
  BY <1>0, <1>1, <1>2, <1>4, <1>5 DEF Ends, Locked
<1>11. Queue'
  <2>1. \A o : Clearing(o, {"clear", "clear_tail", "set_tail"})' <=> o = k
    BY <1>4, <1>5 DEF Clearing, Locked
  <2>2. \A o : ~Clearing(o, {"clear", "clear_head"}) /\ ~Clearing(o, {"clear", "clear_tail", "set_tail"})
    BY <1>1, <1>4 DEF Clearing, Locked
  <2>4. cpc' \notin {"drain", "over"} /\ tail' # NULL =>
           Queued(tail)' \/ Clearing(tail, {"clear", "clear_tail", "set_tail"})'
    BY <1>0, <1>1, <1>3, <2>1, <2>2 DEF Queue
  <2>5. head' # NULL => Queued(head)' \/ Clearing(head, {"clear", "clear_head"})'
    BY <1>0, <1>1, <1>3, <1>6, <2>2 DEF Queue
  <2>6. ASSUME NEW o \in Tasks, head' # NULL, NotNewer(head', o), Queued(o)', next'[o] # NULL
        PROVE Queued(next[o])' \/ Clearing(next[o], {"clear", "clear_head"})'
    BY <1>0, <1>1, <1>3, <1>7, <2>2, <2>6 DEF Queue
  <2> QED
    BY <2>4, <2>5, <2>6 DEF Queue
<1>12. Walking'
  BY <1>0, <1>1, <1>2, <1>3, <1>4, <1>5, <1>6 DEF Walking, Locked
<1> QED
  BY <1>8, <1>9, <1>10, <1>11, <1>12 DEF List

\* Once tail is cleared nobody has it, or somebody adds a task of its own.
LEMMA ClearTailList ==
  ASSUME IInv, NEW w \in Workers, ClearTail(w), WorkerStep(w) PROVE List'
<1> USE ListTypes
<1>0. TypeOK /\ Locking /\ TakenOnce /\ NewTask /\ Links /\ Ends /\ Queue /\ Walking /\ Client
  BY DEF IInv
<1>1. /\ \/ wpc[w] = "clear" /\ wpc' = [wpc EXCEPT ![w] = "clear_head"]
         \/ wpc[w] = "clear_tail" /\ wpc' = [wpc EXCEPT ![w] = "unlock"]
      /\ tail' = NULL
      /\ UNCHANGED <<head, task, next, tmp, applied, ctail, cpc, Added>>
  BY DEF ClearTail, Goto, clientVars, Added
<1>2. cpc \notin {"store_first", "store_head"}
  BY <1>0, <1>1 DEF Ends
<1>3. \A k : Queued(k)' <=> Queued(k)
  BY <1>0, <1>1, WorkerQueued DEF TakeOnly, CutLast
<1>4. \A v \in Workers \ {w} : wpc[v] \notin Locked /\ wpc'[v] = wpc[v]
  BY <1>0, <1>1, Alone DEF Locked
<1>5. wpc'[w] = IF wpc[w] = "clear" THEN "clear_head" ELSE "unlock"
  BY <1>1
<1>6. NewTask'
  BY <1>0, <1>1, <1>2, <1>3, <1>4, <1>5 DEF NewTask, Locked, Adding
<1>7. Links'
  BY <1>0, <1>1 DEF Links
<1>8. Ends'
  BY <1>0, <1>1, <1>2, <1>4, <1>5 DEF Ends, Locked
<1>9. Queue'
  <2>1. wpc[w] = "clear_tail" => head = NULL
    BY <1>0 DEF Ends
  <2>2. \A k : wpc[w] = "clear" => (Clearing(k, {"clear", "clear_head"})' <=> Clearing(k, {"clear", "clear_head"}))
    BY <1>1, <1>4, <1>5 DEF Clearing, Locked
  <2>3. head' # NULL => Queued(head)' \/ Clearing(head, {"clear", "clear_head"})'
    BY <1>0, <1>1, <1>3, <2>1, <2>2 DEF Queue
  <2>4. ASSUME NEW p \in Tasks, head' # NULL, NotNewer(head', p), Queued(p)', next'[p] # NULL
        PROVE Queued(next[p])' \/ Clearing(next[p], {"clear", "clear_head"})'
    BY <1>0, <1>1, <1>3, <2>1, <2>2, <2>4 DEF Queue
  <2> QED
    BY <1>1, <2>3, <2>4 DEF Queue
<1>10. Walking'
  BY <1>0, <1>1, <1>4, <1>5 DEF Walking, Locked
<1> QED
  BY <1>6, <1>7, <1>8, <1>9, <1>10 DEF List

\* Without a head nothing is found.
LEMMA ClearHeadList ==
  ASSUME IInv, NEW w \in Workers, ClearHead(w), WorkerStep(w) PROVE List'
<1> USE ListTypes
<1>0. TypeOK /\ Locking /\ TakenOnce /\ NewTask /\ Links /\ Ends /\ Queue /\ Walking /\ Client
  BY DEF IInv
<1>1. /\ \/ wpc[w] = "clear" /\ wpc' = [wpc EXCEPT ![w] = "clear_tail"]
         \/ wpc[w] = "clear_head" /\ wpc' = [wpc EXCEPT ![w] = "unlock"]
      /\ head' = NULL
      /\ UNCHANGED <<tail, task, next, tmp, applied, ctail, cpc, Added>>
  BY DEF ClearHead, Goto, clientVars, Added
<1>3. \A k : Queued(k)' <=> Queued(k)
  BY <1>0, <1>1, WorkerQueued DEF TakeOnly, CutLast
<1>4. \A v \in Workers \ {w} : wpc[v] \notin Locked /\ wpc'[v] = wpc[v]
  BY <1>0, <1>1, Alone DEF Locked
<1>5. wpc'[w] = IF wpc[w] = "clear" THEN "clear_tail" ELSE "unlock"
  BY <1>1
<1>6. NewTask'
  BY <1>0, <1>1, <1>3, <1>4, <1>5 DEF NewTask, Locked, Adding
<1>7. Links'
  BY <1>0, <1>1 DEF Links
<1>8. Ends'
  BY <1>0, <1>1, <1>4, <1>5 DEF Ends, Locked
<1>9. Queue'
  <2>1. \A k : Clearing(k, {"clear", "clear_tail", "set_tail"}) => Clearing(k, {"clear", "clear_tail", "set_tail"})'
    BY <1>1, <1>4, <1>5 DEF Clearing, Locked
  <2> QED
    BY <1>0, <1>1, <1>3, <2>1 DEF Queue
<1>10. Walking'
  BY <1>0, <1>1, <1>4, <1>5 DEF Walking, Locked
<1> QED
  BY <1>6, <1>7, <1>8, <1>9, <1>10 DEF List

\* The task before the one cut off is the last one.
LEMMA SetTailList ==
  ASSUME IInv, NEW w \in Workers, SetTail(w), WorkerStep(w) PROVE List'
<1> USE ListTypes
<1>0. TypeOK /\ Locking /\ TakenOnce /\ NewTask /\ Links /\ Ends /\ Queue /\ Walking /\ Client
  BY DEF IInv
<1>1. /\ wpc[w] = "set_tail" /\ wpc' = [wpc EXCEPT ![w] = "unlock"]
      /\ tail' = tmp[w]
      /\ UNCHANGED <<head, task, next, tmp, applied, ctail, cpc, Added>>
  BY DEF SetTail, Goto, clientVars, Added
<1>3. \A k : Queued(k)' <=> Queued(k)
  BY <1>0, <1>1, WorkerQueued DEF TakeOnly, CutLast
<1>4. \A v \in Workers \ {w} : wpc[v] \notin Locked /\ wpc'[v] = wpc[v]
  BY <1>0, <1>1, Alone DEF Locked
<1>5. wpc'[w] = "unlock"
  BY <1>1
<1>6. /\ Queued(tmp[w]) /\ tmp[w] \in Added /\ tmp[w] # NULL /\ head # NULL
      /\ cpc \in Adding => tmp[w] # applied
  <2>1. cpc \in Adding => tmp[w] # applied
    BY <1>0, <1>1 DEF NewTask
  <2> QED
    BY <1>0, <1>1, <2>1 DEF Walking
<1>7. cpc \notin {"store_first", "store_head"}
  BY <1>0, <1>1, <1>4, <1>6 DEF Ends, Locked
<1>8. NewTask'
  BY <1>0, <1>1, <1>3, <1>4, <1>5, <1>6, <1>7 DEF NewTask, Locked, Adding
<1>9. Links'
  BY <1>0, <1>1, <1>6 DEF Links
<1>10. Ends'
  BY <1>0, <1>1, <1>4, <1>5, <1>6, <1>7 DEF Ends, Locked
<1>11. Queue'
  <2>1. \A k : ~Clearing(k, {"clear", "clear_head"})
    BY <1>1, <1>4 DEF Clearing, Locked
  <2> QED
    BY <1>0, <1>1, <1>3, <1>6, <2>1 DEF Queue
<1>12. Walking'
  BY <1>0, <1>1, <1>4, <1>5 DEF Walking, Locked
<1> QED
  BY <1>8, <1>9, <1>10, <1>11, <1>12 DEF List

\* The steps that find the way to the last task but one.
Looks(w) == LoadEnd(w) \/ Compare(w) \/ WalkFirst(w) \/ Walk(w) \/ (CheckNonempty(w) /\ tail # NULL)

\* What the walk reads is on the list and not the task being added.
LEMMA LooksList ==
  ASSUME IInv, NEW w \in Workers, Looks(w), WorkerStep(w) PROVE List'
<1> USE ListTypes
<1>0. TypeOK /\ Locking /\ TakenOnce /\ NewTask /\ Links /\ Ends /\ Queue /\ Walking /\ Client
  BY DEF IInv
<1> DEFINE Steps == \/ wpc[w] = "nonempty" /\ wpc'[w] = "ends" /\ tail # NULL /\ tmp'[w] = tmp[w]
                    \/ wpc[w] = "ends" /\ wpc'[w] = "with_tail" /\ tmp'[w] = head
                    \/ wpc[w] = "ends" /\ wpc'[w] = "with_head" /\ tmp'[w] = tail
                    \/ wpc[w] = "with_tail" /\ wpc'[w] = "only" /\ tmp[w] = tail /\ tmp'[w] = tmp[w]
                    \/ wpc[w] = "with_head" /\ wpc'[w] = "only" /\ tmp[w] = head /\ tmp'[w] = tmp[w]
                    \/ wpc[w] \in {"with_tail", "with_head"} /\ wpc'[w] = "first" /\ tmp'[w] = tmp[w]
                    \/ wpc[w] = "first" /\ wpc'[w] = "walk" /\ tmp'[w] = head
                    \/ wpc[w] = "walk" /\ wpc'[w] = "walk" /\ tmp[w] = NULL /\ tmp'[w] = NULL
                    \/ wpc[w] = "walk" /\ wpc'[w] = "walk" /\ tmp[w] # NULL /\ tmp'[w] = next[tmp[w]]
                    \/ wpc[w] = "walk" /\ wpc'[w] = "cut" /\ tmp[w] # NULL /\ tmp'[w] = tmp[w] /\ next[tmp[w]] = tail
<1>1. /\ Steps
      /\ \A v \in Workers \ {w} : wpc'[v] = wpc[v] /\ tmp'[v] = tmp[v]
      /\ UNCHANGED <<head, tail, task, next, applied, ctail, cpc, Added>>
  <2>1. CASE CheckNonempty(w) /\ tail # NULL
    BY <2>1 DEF CheckNonempty, Goto, queueVars, clientVars, Added
  <2>2. CASE LoadEnd(w)
    BY <2>2 DEF LoadEnd, Goto, queueVars, clientVars, Added
  <2>3. CASE Compare(w)
    BY <2>3 DEF Compare, Goto, queueVars, clientVars, Added
  <2>4. CASE WalkFirst(w)
    BY <2>4 DEF WalkFirst, Goto, queueVars, clientVars, Added
  <2>5. CASE Walk(w)
    BY <2>5 DEF Walk, Goto, queueVars, clientVars, Added
  <2> QED
    BY <2>1, <2>2, <2>3, <2>4, <2>5 DEF Looks
<1>2. wpc[w] \in Locked
  BY <1>1 DEF Locked
<1>3. \A k : Queued(k)' <=> Queued(k)
  BY <1>0, <1>1, WorkerQueued DEF TakeOnly, CutLast
<1>4. \A v \in Workers \ {w} : wpc[v] \notin Locked /\ wpc'[v] = wpc[v]
  BY <1>0, <1>1, <1>2, Alone
<1>5. tail # NULL
  BY <1>0, <1>1 DEF Ends
<1>6. \A k : \A labels \in SUBSET {"clear", "clear_tail", "clear_head", "set_tail"} :
         ~Clearing(k, labels) /\ ~Clearing(k, labels)'
  BY <1>1, <1>4 DEF Clearing, Locked
<1>7. cpc = "store_head" => head = NULL
  BY <1>0, <1>1, <1>4 DEF Ends, Locked
<1>8. cpc # "store_first"
  BY <1>0, <1>5 DEF Ends
<1>9. wpc[w] = "walk" /\ tmp[w] # NULL => /\ head \in Tasks /\ NotNewer(head, tmp[w]) /\ Queued(tmp[w]) /\ tmp[w] \in Tasks
  BY <1>0 DEF Walking
<1>10. NewTask'
  <2>1. cpc \in Adding => \A v \in Workers : wpc'[v] \in {"cut", "set_tail"} => tmp'[v] # applied
    BY <1>0, <1>1, <1>4, <1>5 DEF NewTask, Locked
  <2>2. cpc \in Adding => \A v \in Workers : wpc'[v] = "cut" => next[tmp'[v]] # applied
    <3>1. SUFFICES ASSUME cpc \in Adding, wpc'[w] = "cut" PROVE next[tmp'[w]] # applied
      BY <1>4 DEF Locked
    <3>2. next[tmp'[w]] = tail /\ tmp'[w] \in Tasks
      BY <1>1, <1>9, <3>1
    <3>3. CASE cpc = "store_head"
      BY <1>0, <3>2, <3>3 DEF NewTask
    <3>4. CASE cpc # "store_head"
      BY <1>0, <3>1, <3>2, <3>4 DEF NewTask, Adding
    <3> QED
      BY <3>3, <3>4
  <2>3. cpc = "store_head" => \A v \in Workers : wpc'[v] \in {"with_tail", "walk"} => tmp'[v] # applied
    <3>1. SUFFICES ASSUME cpc = "store_head", wpc'[w] \in {"with_tail", "walk"} PROVE tmp'[w] # applied
      BY <1>4 DEF Locked
    <3>2. tmp'[w] = head \/ tmp'[w] = NULL \/ (tmp[w] \in Tasks /\ tmp'[w] = next[tmp[w]])
      BY <1>1, <1>9, <3>1
    <3>3. applied \in Tasks
      BY <3>1 DEF Adding
    <3> QED
      BY <1>0, <1>7, <3>1, <3>2, <3>3 DEF NewTask
  <2> HIDE DEF Steps
  <2> QED
    BY <1>0, <1>1, <1>3, <2>1, <2>2, <2>3 DEF NewTask, Adding
<1>11. Links'
  BY <1>0, <1>1 DEF Links
<1>12. Ends'
  <2>1. \A v \in Workers : wpc'[v] = "with_head" => tmp'[v] # NULL
    BY <1>1, <1>4, <1>5 DEF Locked
  <2>2. \A v \in Workers : wpc'[v] \notin {"clear", "clear_tail"}
    BY <1>1, <1>4 DEF Locked
  <2>3. wpc'[w] = "only" => cpc # "store_head"
    <3> SUFFICES ASSUME wpc'[w] = "only", cpc = "store_head" PROVE FALSE
      OBVIOUS
    <3>1. CASE wpc[w] = "with_tail"
      BY <1>0, <1>1, <3>1 DEF Ends, NewTask, Adding
    <3>2. CASE wpc[w] = "with_head"
      BY <1>0, <1>1, <1>7, <3>2 DEF Ends
    <3> QED
      BY <1>1, <3>1, <3>2
  <2>4. \A v \in Workers : wpc'[v] = "only" => cpc \notin {"store_first", "store_head"}
    BY <1>4, <1>8, <2>3 DEF Locked
  <2>5. cpc = "store_head" => tail = applied /\ head = NULL
    BY <1>0, <1>7 DEF Ends
  <2> HIDE DEF Steps
  <2> QED
    BY <1>1, <1>5, <1>8, <2>1, <2>2, <2>4, <2>5 DEF Ends
<1>13. Queue'
  <2>1. /\ \A k : ~Clearing(k, {"clear", "clear_tail", "set_tail"})
        /\ \A k : ~Clearing(k, {"clear", "clear_head"})
    BY <1>6
  <2> HIDE DEF Steps
  <2> QED
    BY <1>0, <1>1, <1>3, <2>1 DEF Queue
<1>14. Walking'
  <2>1. head # NULL => Queued(head) /\ NotNewer(head, head) /\ head \in Tasks
    BY <1>0, <1>6, Order DEF Queue
  <2>2. wpc[w] = "walk" /\ tmp[w] # NULL /\ next[tmp[w]] # NULL =>
           Queued(next[tmp[w]]) /\ NotNewer(head, next[tmp[w]])
    <3> SUFFICES ASSUME wpc[w] = "walk", tmp[w] # NULL, next[tmp[w]] # NULL
                 PROVE Queued(next[tmp[w]]) /\ NotNewer(head, next[tmp[w]])
      OBVIOUS
    <3>1. Queued(next[tmp[w]])
      BY <1>0, <1>6, <1>9 DEF Queue
    <3>2. NotNewer(tmp[w], next[tmp[w]]) /\ next[tmp[w]] \in Tasks
      BY <1>0, <1>9 DEF Links
    <3> QED
      BY <1>9, <3>1, <3>2, Order
  <2>3. (wpc'[w] = "walk" /\ tmp'[w] # NULL) \/ wpc'[w] \in {"cut", "set_tail"} =>
           head # NULL /\ NotNewer(head, tmp'[w]) /\ Queued(tmp'[w])
    BY <1>1, <1>9, <2>1, <2>2
  <2>4. wpc'[w] = "cut" => next[tmp'[w]] # NULL
    BY <1>1, <1>5
  <2>5. \A v \in Workers \ {w} : wpc'[v] \notin {"walk", "cut", "set_tail"}
    BY <1>4 DEF Locked
  <2> HIDE DEF Steps
  <2> QED
    BY <1>1, <1>3, <2>3, <2>4, <2>5 DEF Walking
<1> QED
  BY <1>10, <1>11, <1>12, <1>13, <1>14 DEF List

\* While the client steps inside tpool_apply, the workers stand still.
LEMMA ApplyFrame ==
  ASSUME IInv, Apply
  PROVE  /\ UNCHANGED <<wpc, task, tmp, applied, Added>> /\ cpc \in Adding
         /\ \A k : Queued(k)' <=> Queued(k)
         /\ \A k, labels : Clearing(k, labels)' <=> Clearing(k, labels)
<1>1. UNCHANGED <<wpc, task, tmp, applied, live>> /\ cpc \in Adding
  BY DEF Apply, ApplyLoadTail, ApplyStoreFirst, ApplyStoreHead, ApplyLink, ApplyStoreTail, futureVars, workerVars, Adding
<1>2. \A k : Queued(k)' <=> Queued(k)
  BY <1>1, ClientQueued DEF IInv
<1> QED
  BY <1>1, <1>2 DEF Clearing, Added

\* The tail that tpool_apply found is not its own task; without one no worker takes a task.
LEMMA ApplyLoadTailList ==
  ASSUME IInv, ApplyLoadTail PROVE List'
<1> USE ListTypes
<1>0. NewTask /\ Links /\ Ends /\ Queue /\ Walking
  BY DEF IInv
<1>1. /\ cpc = "load_tail" /\ ctail' = tail /\ cpc' = (IF tail = NULL THEN "store_first" ELSE "link")
      /\ UNCHANGED <<head, tail, next>>
  BY DEF ApplyLoadTail, ClientGoto, queueVars
<1>2. /\ UNCHANGED <<wpc, task, tmp, applied, Added>>
      /\ \A k : Queued(k)' <=> Queued(k)
      /\ \A k, labels : Clearing(k, labels)' <=> Clearing(k, labels)
  BY ApplyFrame DEF Apply
<1>3. NewTask'
  <2>1. Queued(applied) /\ tail # applied /\ head # applied /\ next[applied] = NULL
    BY <1>0, <1>1 DEF NewTask, Adding
  <2>2. tail # NULL => tail \in Added \ {applied}
    BY <1>0, <2>1 DEF Links
  <2> QED
    BY <1>0, <1>1, <1>2, <2>1, <2>2 DEF NewTask, Adding
<1>4. Links'
  BY <1>0, <1>1, <1>2 DEF Links
<1>5. Ends'
  BY <1>0, <1>1, <1>2 DEF Ends
<1>6. Queue'
  BY <1>0, <1>1, <1>2 DEF Queue
<1>7. Walking'
  BY <1>0, <1>1, <1>2 DEF Walking
<1> QED
  BY <1>3, <1>4, <1>5, <1>6, <1>7 DEF List

\* The first task becomes tail while no worker looks at the list.
LEMMA ApplyStoreFirstList ==
  ASSUME IInv, ApplyStoreFirst PROVE List'
<1> USE ListTypes
<1>0. NewTask /\ Links /\ Ends /\ Queue /\ Walking
  BY DEF IInv
<1>1. cpc = "store_first" /\ tail' = applied /\ cpc' = "store_head" /\ UNCHANGED <<head, next, ctail>>
  BY DEF ApplyStoreFirst, ClientGoto
<1>2. /\ UNCHANGED <<wpc, task, tmp, applied, Added>>
      /\ \A k : Queued(k)' <=> Queued(k)
      /\ \A k, labels : Clearing(k, labels)' <=> Clearing(k, labels)
  BY ApplyFrame DEF Apply
<1>3. /\ tail = NULL
      /\ \A w \in Workers : wpc[w] \notin {"ends", "with_tail", "with_head", "only", "clear", "clear_tail",
                                           "first", "walk", "cut", "set_tail"}
  BY <1>0, <1>1 DEF Ends
<1>4. applied \in Added /\ applied # NULL
  BY <1>1 DEF Adding
<1>5. NewTask'
  BY <1>0, <1>1, <1>2, <1>3 DEF NewTask, Adding
<1>6. Links'
  BY <1>0, <1>1, <1>2, <1>4 DEF Links
<1>7. Ends'
  BY <1>0, <1>1, <1>2, <1>3, <1>4 DEF Ends
<1>8. Queue'
  <2>1. Queued(applied)
    BY <1>0, <1>1 DEF NewTask, Adding
  <2> QED
    BY <1>0, <1>1, <1>2, <2>1 DEF Queue
<1>9. Walking'
  BY <1>0, <1>1, <1>2 DEF Walking
<1> QED
  BY <1>5, <1>6, <1>7, <1>8, <1>9 DEF List

\* The first task becomes head, with nothing behind it yet.
LEMMA ApplyStoreHeadList ==
  ASSUME IInv, ApplyStoreHead PROVE List'
<1> USE ListTypes
<1>0. NewTask /\ Links /\ Ends /\ Queue /\ Walking /\ Locking
  BY DEF IInv
<1>1. cpc = "store_head" /\ head' = applied /\ cpc' \in {"rest", "poison", "join"} /\ UNCHANGED <<tail, next, ctail>>
  BY DEF ApplyStoreHead, AfterApply, ClientGoto
<1>2. /\ UNCHANGED <<wpc, task, tmp, applied, Added>>
      /\ \A k : Queued(k)' <=> Queued(k)
      /\ \A k, labels : Clearing(k, labels)' <=> Clearing(k, labels)
  BY ApplyFrame DEF Apply
<1>3. /\ applied \in Added /\ applied \in Tasks /\ applied # NULL /\ tail = applied /\ Queued(applied)
      /\ next[applied] = NULL
  BY <1>0, <1>1 DEF NewTask, Ends, Adding
<1>4. \A w \in Workers : wpc[w] \notin {"cut", "set_tail", "only", "clear", "clear_tail"}
                         /\ ~(wpc[w] = "walk" /\ tmp[w] # NULL)
  <2>1. \A w \in Workers : wpc[w] \notin {"only", "clear", "clear_tail"}
    BY <1>0, <1>1 DEF Ends
  <2>2. ASSUME NEW w \in Workers, wpc[w] \in {"cut", "set_tail"} \/ (wpc[w] = "walk" /\ tmp[w] # NULL)
        PROVE FALSE
    <3>1. head # NULL
      BY <1>0, <2>2 DEF Walking
    <3>2. PICK v \in Workers : wpc[v] = "clear_head"
      BY <1>0, <1>1, <3>1 DEF Ends
    <3> QED
      BY <1>0, <2>2, <3>2, Alone DEF Locked
  <2> QED
    BY <2>1, <2>2
<1>5. NewTask'
  BY <1>1 DEF NewTask, Adding
<1>6. Links'
  BY <1>0, <1>1, <1>2, <1>3 DEF Links
<1>7. Ends'
  BY <1>0, <1>1, <1>2, <1>3, <1>4 DEF Ends
<1>8. Queue'
  <2>1. \A p \in Tasks : NotNewer(applied, p) /\ Queued(p) => p = applied
    BY <1>3, Order
  <2> QED
    BY <1>0, <1>1, <1>2, <1>3, <2>1 DEF Queue
<1>9. Walking'
  BY <1>1, <1>2, <1>4 DEF Walking
<1> QED
  BY <1>5, <1>6, <1>7, <1>8, <1>9 DEF List

\* The task is linked behind one with nothing behind it, wherever that one now is.
LEMMA ApplyLinkList ==
  ASSUME IInv, ApplyLink PROVE List'
<1> USE ListTypes
<1>0. NewTask /\ Links /\ Ends /\ Queue /\ Walking
  BY DEF IInv
<1>1. /\ cpc = "link" /\ UNCHANGED <<head, tail, ctail>>
      /\ \/ next[ctail] = NULL /\ next' = [next EXCEPT ![ctail] = applied] /\ cpc' = "store_tail"
         \/ next' = next /\ cpc' = "load_tail"
  BY DEF ApplyLink, ClientGoto
<1>2. /\ UNCHANGED <<wpc, task, tmp, applied, Added>>
      /\ \A k : Queued(k)' <=> Queued(k)
      /\ \A k, labels : Clearing(k, labels)' <=> Clearing(k, labels)
  BY ApplyFrame DEF Apply
<1>3. /\ applied \in Added /\ applied \in Tasks /\ applied # NULL /\ Queued(applied) /\ next[applied] = NULL
      /\ tail # applied /\ head # applied /\ ctail \in Added \ {applied} /\ ctail \in Tasks
      /\ \A p \in Tasks : next[p] # applied
  BY <1>0, <1>1 DEF NewTask, Adding
<1>4. CASE next' = next /\ cpc' = "load_tail"
  <2>1. NewTask'
    BY <1>0, <1>1, <1>2, <1>3, <1>4 DEF NewTask, Adding
  <2>2. Links' /\ Ends'
    BY <1>0, <1>1, <1>2, <1>4 DEF Links, Ends
  <2>3. Queue'
    BY <1>0, <1>1, <1>2, <1>4 DEF Queue
  <2>4. Walking'
    BY <1>0, <1>1, <1>2, <1>4 DEF Walking
  <2> QED
    BY <2>1, <2>2, <2>3, <2>4 DEF List
<1>5. CASE next[ctail] = NULL /\ next' = [next EXCEPT ![ctail] = applied] /\ cpc' = "store_tail"
  <2>1. next'[ctail] = applied /\ \A p \in Tasks \ {ctail} : next'[p] = next[p]
    BY <1>3, <1>5
  <2>2. \A w \in Workers : wpc[w] = "cut" => tmp[w] \in Tasks \ {ctail}
    BY <1>0, <1>5 DEF Walking
  <2>3. NewTask'
    <3>1. next'[applied] = NULL
      BY <1>3, <2>1
    <3>2. \A w \in Workers : /\ wpc[w] \in {"cut", "set_tail"} => tmp[w] # applied
                             /\ wpc[w] = "cut" => next'[tmp[w]] # applied
      BY <1>0, <1>1, <1>3, <2>1, <2>2 DEF NewTask, Adding
    <3> QED
      BY <1>1, <1>2, <1>3, <1>5, <3>1, <3>2 DEF NewTask
  <2>4. Links'
    BY <1>0, <1>1, <1>2, <1>3, <2>1 DEF Links
  <2>5. Ends'
    BY <1>0, <1>1, <1>2, <1>5 DEF Ends
  <2>6. Queue'
    <3>1. cpc' \notin {"drain", "over"} /\ tail' # NULL =>
             Queued(tail)' \/ Clearing(tail, {"clear", "clear_tail", "set_tail"})'
      BY <1>0, <1>1, <1>2 DEF Queue
    <3>2. head' # NULL => Queued(head)' \/ Clearing(head, {"clear", "clear_head"})'
      BY <1>0, <1>1, <1>2 DEF Queue
    <3>3. ASSUME NEW p \in Tasks, head' # NULL, NotNewer(head', p), Queued(p)', next'[p] # NULL
          PROVE Queued(next[p])' \/ Clearing(next[p], {"clear", "clear_head"})'
      BY <1>0, <1>1, <1>2, <1>3, <2>1, <3>3 DEF Queue
    <3> QED
      BY <3>1, <3>2, <3>3 DEF Queue
  <2>7. Walking'
    BY <1>0, <1>1, <1>2, <2>1, <2>2 DEF Walking
  <2> QED
    BY <2>3, <2>4, <2>5, <2>6, <2>7 DEF List
<1> QED
  BY <1>1, <1>4, <1>5

\* The new task becomes tail, whatever the worker that holds the lock does to tail.
LEMMA ApplyStoreTailList ==
  ASSUME IInv, ApplyStoreTail PROVE List'
<1> USE ListTypes
<1>0. NewTask /\ Links /\ Ends /\ Queue /\ Walking
  BY DEF IInv
<1>1. cpc = "store_tail" /\ tail' = applied /\ cpc' \in {"rest", "poison", "join"} /\ UNCHANGED <<head, next, ctail>>
  BY DEF ApplyStoreTail, AfterApply, ClientGoto
<1>2. /\ UNCHANGED <<wpc, task, tmp, applied, Added>>
      /\ \A k : Queued(k)' <=> Queued(k)
      /\ \A k, labels : Clearing(k, labels)' <=> Clearing(k, labels)
  BY ApplyFrame DEF Apply
<1>3. applied \in Added /\ applied # NULL /\ Queued(applied)
  BY <1>0, <1>1 DEF NewTask, Adding
<1>4. NewTask'
  BY <1>1 DEF NewTask, Adding
<1>5. Links'
  BY <1>0, <1>1, <1>2, <1>3 DEF Links
<1>6. Ends'
  BY <1>0, <1>1, <1>2, <1>3 DEF Ends
<1>7. Queue'
  BY <1>0, <1>1, <1>2, <1>3 DEF Queue
<1>8. Walking'
  BY <1>0, <1>1, <1>2 DEF Walking
<1> QED
  BY <1>4, <1>5, <1>6, <1>7, <1>8 DEF List

\* A task just allocated is on no list and behind no other.
LEMMA ApplyAllocateList ==
  ASSUME IInv, ApplyAllocate, [Next]_vars PROVE List'
<1> USE ListTypes
<1>0. TypeOK /\ Locking /\ TakenOnce /\ NewTask /\ Links /\ Ends /\ Queue /\ Walking /\ Client
  BY DEF IInv
<1> DEFINE n == applied + 1
<1>1. /\ cpc \in {"rest", "poison"} /\ cpc' = "load_tail" /\ applied' = n /\ live' = live \cup {n}
      /\ UNCHANGED <<head, tail, next, ctail, wpc, task, tmp>>
  BY DEF ApplyAllocate, ClientGoto, queueVars, workerVars
<1>2. n \notin Added /\ 1 .. n = Added \cup {n} /\ n # NULL /\ n \in Tasks
  <2>1. applied \in Nat /\ n \notin Added /\ 1 .. n = Added \cup {n} /\ n # NULL
    BY <1>0, Numbers DEF TypeOK, Added
  <2>2. cpc = "poison" => n \in Tasks
    BY <1>0, <2>1, Numbers, PoolAssumption DEF Client, AppliedAt
  <2>3. cpc = "rest" => applied < NTasks
    BY DEF ApplyAllocate
  <2>4. cpc = "rest" => n \in Tasks
    BY <2>1, <2>3, Numbers, PoolAssumption
  <2> QED
    BY <1>1, <2>1, <2>2, <2>4
<1>3. \A k : Queued(k)' <=> Queued(k) \/ k = n
  BY <1>0, <1>1, ClientQueued
<1>4. \A k, labels : Clearing(k, labels)' <=> Clearing(k, labels)
  BY <1>1 DEF Clearing
<1>5. Added' = Added \cup {n}
  <2>1. Added' = 1 .. n
    BY <1>1 DEF Added
  <2> QED
    BY <1>2, <2>1
<1>6. tail # n /\ head # n /\ next[n] = NULL /\ \A p \in Tasks : next[p] # n
  BY <1>0, <1>2 DEF Links
<1> HIDE DEF n
<1>7. NewTask'
  <2>1. \A w \in Workers : /\ wpc[w] \in {"cut", "set_tail"} => tmp[w] # n
                           /\ wpc[w] = "cut" => next[tmp[w]] # n
    <3>1. \A w \in Workers : wpc[w] \in {"cut", "set_tail"} => tmp[w] \in Added
      BY <1>0 DEF Walking
    <3> QED
      BY <1>2, <1>6, <3>1
  <2> QED
    BY <1>1, <1>3, <1>6, <2>1 DEF NewTask
<1>8. Links'
  BY <1>0, <1>1, <1>5 DEF Links
<1>9. Ends'
  BY <1>0, <1>1 DEF Ends
<1>10. Queue'
  <2>1. cpc' \notin {"drain", "over"} /\ tail' # NULL =>
           Queued(tail)' \/ Clearing(tail, {"clear", "clear_tail", "set_tail"})'
    BY <1>0, <1>1, <1>3, <1>4 DEF Queue
  <2>2. head' # NULL => Queued(head)' \/ Clearing(head, {"clear", "clear_head"})'
    BY <1>0, <1>1, <1>3, <1>4 DEF Queue
  <2>3. ASSUME NEW p \in Tasks, head' # NULL, NotNewer(head', p), Queued(p)', next'[p] # NULL
        PROVE Queued(next[p])' \/ Clearing(next[p], {"clear", "clear_head"})'
    BY <1>0, <1>1, <1>3, <1>4, <1>6, <2>3 DEF Queue
  <2> QED
    BY <2>1, <2>2, <2>3 DEF Queue
<1>11. Walking'
  BY <1>0, <1>1, <1>3 DEF Walking
<1> QED
  BY <1>7, <1>8, <1>9, <1>10, <1>11 DEF List

\* What jobqueue_destroy frees is found no more from the tasks behind it, which are newer.
LEMMA DrainList ==
  ASSUME IInv, Drain PROVE List'
<1> USE ListTypes
<1>0. TypeOK /\ Locking /\ TakenOnce /\ NewTask /\ Links /\ Ends /\ Queue /\ Walking /\ Client
  BY DEF IInv
<1>1. /\ cpc = "drain" /\ head # NULL /\ head' = next[head] /\ live' = live \ {head}
      /\ UNCHANGED <<tail, next, wpc, task, tmp, applied, ctail, cpc, Added>>
  BY DEF Drain, Free, workerVars, clientVars, Added
<1>2. \A w \in Workers : wpc[w] = "exit"
  BY <1>0, <1>1 DEF Client
<1>3. \A k : Queued(k)' <=> Queued(k) /\ k # head
  BY <1>0, <1>1, ClientQueued
<1>4. \A k : ~Clearing(k, {"clear", "clear_head"})
  BY <1>2 DEF Clearing
<1>5. head \in Tasks /\ Queued(head) /\ tail # NULL
  BY <1>0, <1>1, <1>2, <1>4 DEF Queue, Ends
<1>6. next[head] # NULL => next[head] \in Tasks /\ NotNewer(head, next[head]) /\ head # next[head]
  BY <1>0, <1>5 DEF Links
<1>7. NewTask'
  BY <1>1 DEF NewTask, Adding
<1>8. Links'
  BY <1>0, <1>1, <1>5 DEF Links
<1>9. Ends'
  BY <1>1, <1>2, <1>5 DEF Ends
<1>10. Queue'
  <2>1. next[head] # NULL => Queued(next[head])
    BY <1>0, <1>1, <1>4, <1>5, Order DEF Queue
  <2>2. head' # NULL => Queued(head)'
    BY <1>1, <1>3, <1>6, <2>1
  <2>3. ASSUME NEW p \in Tasks, head' # NULL, NotNewer(head', p), Queued(p)', next'[p] # NULL
        PROVE Queued(next[p])'
    <3>1. NotNewer(head, p) /\ p # head
      BY <1>1, <1>3, <1>5, <1>6, <2>3, Order
    <3>2. Queued(next[p])
      BY <1>0, <1>1, <1>3, <1>4, <2>3, <3>1 DEF Queue
    <3>3. next[p] # head
      <4>1. NotNewer(p, next[p]) /\ p # next[p]
        BY <1>0, <1>1, <2>3 DEF Links
      <4> QED
        BY <1>5, <3>1, <4>1, Order
    <3> QED
      BY <1>1, <1>3, <3>2, <3>3
  <2> QED
    BY <1>1, <2>2, <2>3 DEF Queue
<1>11. Walking'
  BY <1>1, <1>2 DEF Walking
<1> QED
  BY <1>7, <1>8, <1>9, <1>10, <1>11 DEF List

\* Every step keeps the list as it must be.
LEMMA NextList ==
  ASSUME IInv, [Next]_vars PROVE List'
<1>1. ASSUME ListFrame PROVE List'
  BY <1>1, FrameKeepsList DEF IInv, List
<1>2. ASSUME NEW w \in Workers, WorkerStep(w) PROVE List'
  <2>1. CASE QuietWorker(w)
    BY <1>1, <1>2, <2>1, QuietWorkerFrame DEF WorkerStep
  <2>2. CASE TakeOnly(w)
    BY <1>2, <2>2, TakeOnlyList
  <2>3. CASE CutLast(w)
    BY <1>2, <2>3, CutLastList
  <2>4. CASE ClearTail(w)
    BY <1>2, <2>4, ClearTailList
  <2>5. CASE ClearHead(w)
    BY <1>2, <2>5, ClearHeadList
  <2>6. CASE SetTail(w)
    BY <1>2, <2>6, SetTailList
  <2>7. CASE Looks(w)
    BY <1>2, <2>7, LooksList
  <2> QED
    BY <1>2, <2>1, <2>2, <2>3, <2>4, <2>5, <2>6, <2>7 DEF WorkerStep, TakeTask, QuietWorker, Looks
<1>3. ASSUME NEW w \in Workers, SpuriousWakeup(w) PROVE List'
  BY <1>1, <1>3, QuietWorkerFrame DEF QuietWorker
<1>4. ASSUME QuietClient \/ UNCHANGED vars PROVE List'
  BY <1>1, <1>4, QuietClientFrame
<1>5. ASSUME Apply PROVE List'
  BY <1>5, ApplyLoadTailList, ApplyStoreFirstList, ApplyStoreHeadList, ApplyLinkList, ApplyStoreTailList DEF Apply
<1>6. ASSUME ApplyAllocate PROVE List'
  BY <1>6, ApplyAllocateList
<1>7. ASSUME Drain PROVE List'
  BY <1>7, DrainList
<1> QED
  BY <1>2, <1>3, <1>4, <1>5, <1>6, <1>7 DEF Next, Inside, ClientCall, QuietClient, Join

-----------------------------------------------------------------------------
(* Flags and counters *)

\* A step that does nothing to task k that its outcome tells.
Unaffected(k) ==
  /\ k \in Added' <=> k \in Added
  /\ k \in live' <=> k \in live
  /\ k \in destroyed' <=> k \in destroyed
  /\ frees'[k] = frees[k] /\ runs'[k] = runs[k]
  /\ \A f \in {"FINISHED", "CANCELLED", "DESTROYED"} : f \in flag'[k] <=> f \in flag[k]
  /\ k \in Added \/ flag'[k] = flag[k]
  /\ Clearing(k, {"finish"})' <=> Clearing(k, {"finish"})

\* Such a step keeps the outcome of k.
LEMMA SameOutcome ==
  ASSUME NEW k, Outcome(k), Unaffected(k) PROVE Outcome(k)'
<1> DEFINE c == Clearing(k, {"finish"})
           d == Clearing(k, {"finish"})'
<1>1. c <=> d
  BY DEF Unaffected
<1>2. k \notin Added' => flag'[k] = {} /\ frees'[k] = 0 /\ runs'[k] = 0
  BY DEF Outcome, Unaffected
<1>3. k \in live' => frees'[k] = 0 /\ "FINISHED" \notin flag'[k] /\ "CANCELLED" \notin flag'[k]
  BY DEF Outcome, Unaffected
<1>4. k \in live' => runs'[k] = IF d THEN 1 ELSE 0
  <2>1. k \in live => runs[k] = IF c THEN 1 ELSE 0
    BY DEF Outcome
  <2> HIDE DEF c, d
  <2> QED
    BY <1>1, <2>1 DEF Unaffected
<1>5. runs'[k] \in {0, 1} /\ frees'[k] \in {0, 1}
  BY DEF Outcome, Unaffected
<1>6. /\ "DESTROYED" \in flag'[k] => k \in destroyed'
      /\ k \in destroyed' => k \in Added' /\ (k \in live' => "DESTROYED" \in flag'[k])
      /\ "FINISHED" \in flag'[k] => runs'[k] = 1
      /\ "CANCELLED" \in flag'[k] => runs'[k] = 0 /\ k \notin live'
  BY DEF Outcome, Unaffected
<1>7. /\ ~IsPoison(k) /\ k \notin destroyed' => frees'[k] = 0
      /\ ~IsPoison(k) /\ k \in Added' /\ k \notin live' =>
           "FINISHED" \in flag'[k] \/ "CANCELLED" \in flag'[k] \/ k \in destroyed'
      /\ k \in destroyed' /\ k \notin live' => frees'[k] = 1
  BY DEF Outcome, Unaffected
<1> QED
  BY <1>2, <1>3, <1>4, <1>5, <1>6, <1>7 DEF Outcome, IsPoison

\* What the types say to the steps below.
LEMMA OutcomeTypes ==
  ASSUME IInv
  PROVE  /\ wpc \in [Workers -> WorkerLabels] /\ task \in [Workers -> Pointers]
         /\ flag \in [Tasks -> SUBSET Flags] /\ frees \in [Tasks -> Nat] /\ runs \in [Tasks -> Nat]
         /\ live \subseteq Added /\ Added \subseteq Tasks /\ \A k \in destroyed : ~IsPoison(k)
         /\ \A w \in Workers : wpc[w] \in HasTask => task[w] \in live
         /\ \A w, v \in Workers : wpc[w] \in HasTask /\ wpc[v] \in HasTask /\ task[w] = task[v] => w = v
         /\ \A k \in Tasks : Outcome(k)
<1>1. TypeOK /\ TakenOnce /\ Outcomes
  BY DEF IInv
<1>2. live \subseteq Added
  BY <1>1 DEF TypeOK, Added
<1>3. \A k \in destroyed : ~IsPoison(k)
  BY <1>1, Numbers DEF TypeOK, IsPoison
<1> QED
  BY <1>1, <1>2, <1>3, AddedTasks DEF TypeOK, TakenOnce, Outcomes

\* The task of tpool_join: its worker frees the future.
LEMMA StartPoisonOutcomes ==
  ASSUME IInv, NEW w \in Workers, StartPoison(w) PROVE Outcomes'
<1> USE OutcomeTypes
<1>0. PICK k : k = task[w]
  OBVIOUS
<1>1. /\ wpc[w] = "start" /\ IsPoison(k) /\ wpc' = [wpc EXCEPT ![w] = "exit"]
      /\ live' = live \ {k} /\ frees' = [frees EXCEPT ![k] = frees[k] + 1]
      /\ UNCHANGED <<flag, runs, task, destroyed, Added>>
  BY <1>0 DEF StartPoison, Goto, Free, FreeFuture, clientVars, Added
<1>2. k \in live /\ k \in Tasks /\ Outcome(k)
  BY <1>0, <1>1 DEF HasTask
<1>3. frees'[k] = 1 /\ \A j \in Tasks \ {k} : frees'[j] = frees[j]
  <2>1. frees[k] + 1 = 1
    BY <1>2 DEF Outcome
  <2> QED
    BY <1>1, <1>2, <2>1
<1>4. \A j : Clearing(j, {"finish"})' <=> Clearing(j, {"finish"})
  BY <1>0, <1>1 DEF Clearing
<1>5. \A j \in Tasks \ {k} : Unaffected(j)
  BY <1>1, <1>3, <1>4 DEF Unaffected
<1>6. Outcome(k)'
  BY <1>1, <1>2, <1>3 DEF Outcome
<1> QED
  BY <1>5, <1>6, SameOutcome DEF Outcomes

\* The function of a task is called by the one worker that has it, once.
LEMMA RunOutcomes ==
  ASSUME IInv, NEW w \in Workers, Run(w) PROVE Outcomes'
<1> USE OutcomeTypes
<1>0. PICK k : k = task[w]
  OBVIOUS
<1>1. /\ wpc[w] = "run" /\ wpc' = [wpc EXCEPT ![w] = "finish"]
      /\ runs' = [runs EXCEPT ![k] = runs[k] + 1]
      /\ UNCHANGED <<flag, frees, live, task, destroyed, Added>>
  BY <1>0 DEF Run, Goto, futureVars, clientVars, Added
<1>2. k \in live /\ k \in Tasks /\ Outcome(k)
  BY <1>0, <1>1 DEF HasTask
<1>3. ~Clearing(k, {"finish"})
  BY <1>0, <1>1 DEF Clearing, HasTask
<1>4. runs'[k] = 1 /\ \A j \in Tasks \ {k} : runs'[j] = runs[j]
  <2>1. runs[k] + 1 = 1
    BY <1>2, <1>3 DEF Outcome
  <2> QED
    BY <1>1, <1>2, <2>1
<1>5. Clearing(k, {"finish"})' /\ \A j : j # k => (Clearing(j, {"finish"})' <=> Clearing(j, {"finish"}))
  BY <1>0, <1>1 DEF Clearing
<1>6. \A j \in Tasks \ {k} : Unaffected(j)
  BY <1>1, <1>4, <1>5 DEF Unaffected
<1>7. Outcome(k)'
  BY <1>1, <1>2, <1>4, <1>5 DEF Outcome
<1> QED
  BY <1>6, <1>7, SameOutcome DEF Outcomes

\* The worker that has run a task publishes its result or frees its future.
LEMMA FinishOutcomes ==
  ASSUME IInv, NEW w \in Workers, Finish(w) PROVE Outcomes'
<1> USE OutcomeTypes
<1>0. PICK k : k = task[w]
  OBVIOUS
<1>1. /\ wpc[w] = "finish" /\ wpc' = [wpc EXCEPT ![w] = "lock"] /\ live' = live \ {k}
      /\ \/ "DESTROYED" \in flag[k] /\ frees' = [frees EXCEPT ![k] = frees[k] + 1] /\ flag' = flag
         \/ "DESTROYED" \notin flag[k] /\ frees' = frees /\ flag' = [flag EXCEPT ![k] = flag[k] \cup {"FINISHED"}]
      /\ UNCHANGED <<runs, task, destroyed, Added>>
  BY <1>0 DEF Finish, Goto, Free, FreeFuture, SetFlag, Added
<1>2. k \in live /\ k \in Tasks /\ Outcome(k) /\ Clearing(k, {"finish"})
  BY <1>0, <1>1 DEF HasTask, Clearing
<1>3. runs[k] = 1 /\ frees[k] = 0
  BY <1>2 DEF Outcome
<1>4. \A j : j # k => (Clearing(j, {"finish"})' <=> Clearing(j, {"finish"}))
  BY <1>0, <1>1 DEF Clearing
<1>5. \A j \in Tasks \ {k} : frees'[j] = frees[j] /\ flag'[j] = flag[j]
  BY <1>1
<1>6. \A j \in Tasks \ {k} : Unaffected(j)
  BY <1>1, <1>4, <1>5 DEF Unaffected
<1>7. /\ "DESTROYED" \in flag[k] => frees'[k] = 1 /\ flag'[k] = flag[k]
      /\ "DESTROYED" \notin flag[k] => frees'[k] = 0 /\ flag'[k] = flag[k] \cup {"FINISHED"}
  <2>1. frees[k] + 1 = 1
    BY <1>3
  <2> QED
    BY <1>1, <1>2, <1>3, <2>1
<1>8. Outcome(k)'
  BY <1>1, <1>2, <1>3, <1>7 DEF Outcome
<1> QED
  BY <1>6, <1>8, SameOutcome DEF Outcomes

\* The steps of a worker that change no outcome.
LEMMA WorkerUnaffected ==
  ASSUME IInv, NEW w \in Workers, (Alive /\ TakeTask(w)) \/ SpuriousWakeup(w) \/ Start(w)
  PROVE  Outcomes'
<1> USE OutcomeTypes
<1>1. /\ UNCHANGED <<live, frees, runs, applied, destroyed, Added>>
      /\ wpc[w] # "finish" /\ \E l \in WorkerLabels \ {"finish"} : wpc' = [wpc EXCEPT ![w] = l]
      /\ \A v \in Workers \ {w} : task'[v] = task[v]
      /\ flag' = flag \/ (Start(w) /\ flag' = [flag EXCEPT ![task[w]] = flag[task[w]] \cup {"RUNNING"}])
  <2>1. CASE Start(w)
    <3>1. wpc[w] = "start" /\ task[w] \in live /\ task[w] \in Tasks
      BY <2>1 DEF Start, HasTask
    <3>2. "CANCELLED" \notin flag[task[w]]
      BY <3>1 DEF Outcome
    <3> QED
      BY <2>1, <3>1, <3>2 DEF Start, SetFlag, Goto, WorkerLabels, clientVars, Added
  <2>2. CASE (Alive /\ TakeTask(w)) \/ SpuriousWakeup(w)
    <3>1. UNCHANGED <<live, frees, runs, flag>> /\ wpc[w] # "finish" /\ wpc'[w] # "finish"
      BY <2>2 DEF TakeTask, LockQueue, TestCancel, CheckNonempty, CancelBlocked,
         LoadEnd, Compare, TakeOnly, ClearTail, ClearHead, WalkFirst, Walk, CutLast, SetTail, UnlockQueue,
         SpuriousWakeup, futureVars, Goto
    <3>2. \A v \in Workers \ {w} : task'[v] = task[v]
      BY <2>2 DEF TakeTask, LockQueue, TestCancel, CheckNonempty, CancelBlocked,
         LoadEnd, Compare, TakeOnly, ClearTail, ClearHead, WalkFirst, Walk, CutLast, SetTail, UnlockQueue,
         SpuriousWakeup
    <3>3. /\ UNCHANGED <<applied, destroyed>>
          /\ \E l \in WorkerLabels \ {"none"} : wpc' = [wpc EXCEPT ![w] = l]
      BY <2>2, WorkerMoves DEF IInv, WorkerStep
    <3> QED
      BY <3>1, <3>2, <3>3 DEF Added
  <2> QED
    BY <2>1, <2>2
<1>2. \A k : Clearing(k, {"finish"})' <=> Clearing(k, {"finish"})
  BY <1>1 DEF Clearing
<1>3. \A k \in Tasks : /\ \A f \in {"FINISHED", "CANCELLED", "DESTROYED"} : f \in flag'[k] <=> f \in flag[k]
                       /\ k \in Added \/ flag'[k] = flag[k]
  <2>1. Start(w) => task[w] \in Added
    BY DEF Start, HasTask
  <2> QED
    BY <1>1, <2>1
<1>4. \A k \in Tasks : Unaffected(k)
  BY <1>1, <1>2, <1>3 DEF Unaffected
<1> QED
  BY <1>4, SameOutcome DEF Outcomes

\* The calls of the client that change no outcome.
LEMMA ClientUnaffected ==
  ASSUME IInv,
         Create \/ Apply \/ GetCheck \/ GetTimeout \/ JoinCall \/ JoinWorkers \/ DrainDone
           \/ (\E k \in Tasks : GetCall(k)) \/ UNCHANGED vars
  PROVE  Outcomes'
<1> USE OutcomeTypes
<1>1. UNCHANGED <<live, frees, runs, task, applied, destroyed, Added>>
  BY DEF Create, CreateWorker, CreateFails, JoinCancelled, Apply, ApplyLoadTail, ApplyStoreFirst, ApplyStoreHead,
     ApplyLink, ApplyStoreTail, GetCheck, GetTimeout, JoinCall, JoinWorkers, DrainDone, GetCall, vars,
     futureVars, workerVars, clientVars, Added
<1>2. \A w \in Workers : wpc'[w] = "finish" <=> wpc[w] = "finish"
  <2>1. CASE CreateWorker
    <3>1. wpc' = [wpc EXCEPT ![created + 1] = "lock"] /\ created + 1 > created
      BY <2>1 DEF CreateWorker, Goto, IInv, TypeOK
    <3>2. created + 1 \in Workers => wpc[created + 1] = "none"
      BY <3>1 DEF IInv, Locking
    <3> QED
      BY <3>1, <3>2
  <2>2. CASE ~CreateWorker
    <3>1. wpc' = wpc
      BY <2>2 DEF Create, CreateFails, JoinCancelled, Apply, ApplyLoadTail, ApplyStoreFirst, ApplyStoreHead,
         ApplyLink, ApplyStoreTail, GetCheck, GetTimeout, JoinCall, JoinWorkers, DrainDone, GetCall, vars,
         workerVars
    <3> QED
      BY <3>1
  <2> QED
    BY <2>1, <2>2
<1>3. \A k : Clearing(k, {"finish"})' <=> Clearing(k, {"finish"})
  BY <1>1, <1>2 DEF Clearing
<1>4. \/ flag' = flag
      \/ \E k \in Usable : flag' = [flag EXCEPT ![k] = flag[k] \ {"TIMEOUT"}]
      \/ \E k \in Usable : flag' = [flag EXCEPT ![k] = flag[k] \cup {"TIMEOUT"}]
  <2>1. cpc = "get_wait" => cfut \in Usable
    BY DEF IInv, Client
  <2> QED
    BY <2>1 DEF Create, CreateWorker, CreateFails, JoinCancelled, Apply, ApplyLoadTail, ApplyStoreFirst, ApplyStoreHead,
     ApplyLink, ApplyStoreTail, GetCheck, GetTimeout, JoinCall, JoinWorkers, DrainDone, GetCall, vars, SetFlag,
     futureVars
<1>5. \A k \in Usable : k \in Added
  BY DEF Usable, Added
<1>6. \A k \in Tasks : /\ \A f \in {"FINISHED", "CANCELLED", "DESTROYED"} : f \in flag'[k] <=> f \in flag[k]
                       /\ k \in Added \/ flag'[k] = flag[k]
  BY <1>4, <1>5
<1>7. \A k \in Tasks : Unaffected(k)
  BY <1>1, <1>3, <1>6 DEF Unaffected
<1> QED
  BY <1>7, SameOutcome DEF Outcomes

\* Nobody has done anything to a task that is allocated now.
LEMMA ApplyAllocateOutcomes ==
  ASSUME IInv, ApplyAllocate PROVE Outcomes'
<1> USE OutcomeTypes
<1>0. PICK n : n = applied + 1
  OBVIOUS
<1>1. /\ applied' = n /\ live' = live \cup {n}
      /\ UNCHANGED <<wpc, task, runs, flag, frees, destroyed>>
  BY <1>0 DEF ApplyAllocate, workerVars
<1>2. n \notin Added /\ Added' = Added \cup {n}
  <2>1. n \notin Added /\ 1 .. n = Added \cup {n}
    BY <1>0 DEF IInv, TypeOK, Added
  <2>2. Added' = 1 .. n
    BY <1>1 DEF Added
  <2> QED
    BY <2>1, <2>2
<1>3. \A k : Clearing(k, {"finish"})' <=> Clearing(k, {"finish"})
  BY <1>1 DEF Clearing
<1>4. \A k \in Tasks \ {n} : Unaffected(k)
  BY <1>1, <1>2, <1>3 DEF Unaffected
<1>5. ASSUME n \in Tasks PROVE Outcome(n)'
  <2>1. ~Clearing(n, {"finish"})
    BY <1>2 DEF Clearing, HasTask
  <2>2. flag[n] = {} /\ frees[n] = 0 /\ runs[n] = 0 /\ n \notin destroyed
    BY <1>2, <1>5 DEF Outcome
  <2> QED
    BY <1>1, <1>2, <1>3, <2>1, <2>2 DEF Outcome
<1> QED
  BY <1>4, <1>5, SameOutcome DEF Outcomes

\* The client gives up a future: it frees it, or leaves that to who has the task.
LEMMA DestroyOutcomes ==
  ASSUME IInv, NEW k \in Tasks, DestroyFuture(k) PROVE Outcomes'
<1> USE OutcomeTypes
<1>1. /\ k \in Usable /\ destroyed' = destroyed \cup {k}
      /\ \/ /\ "FINISHED" \in flag[k] \/ "CANCELLED" \in flag[k]
            /\ frees' = [frees EXCEPT ![k] = frees[k] + 1] /\ flag' = flag
         \/ /\ "FINISHED" \notin flag[k] /\ "CANCELLED" \notin flag[k]
            /\ frees' = frees /\ flag' = [flag EXCEPT ![k] = flag[k] \cup {"DESTROYED"}]
      /\ UNCHANGED <<wpc, task, runs, live, Added>>
  BY DEF DestroyFuture, FreeFuture, SetFlag, workerVars, Added
<1>2. k \in Added /\ k \notin destroyed /\ ~IsPoison(k) /\ Outcome(k)
  BY <1>1, Numbers DEF Usable, Added, IsPoison
<1>3. frees[k] = 0
  BY <1>2 DEF Outcome
<1>4. \A j : Clearing(j, {"finish"})' <=> Clearing(j, {"finish"})
  BY <1>1 DEF Clearing
<1>5. \A j \in Tasks \ {k} : frees'[j] = frees[j] /\ flag'[j] = flag[j]
  BY <1>1
<1>6. \A j \in Tasks \ {k} : Unaffected(j)
  BY <1>1, <1>4, <1>5 DEF Unaffected
<1>7. \/ /\ "FINISHED" \in flag[k] \/ "CANCELLED" \in flag[k]
         /\ frees'[k] = 1 /\ flag'[k] = flag[k]
      \/ /\ "FINISHED" \notin flag[k] /\ "CANCELLED" \notin flag[k]
         /\ frees'[k] = 0 /\ flag'[k] = flag[k] \cup {"DESTROYED"}
  <2>1. frees[k] + 1 = 1
    BY <1>3
  <2> QED
    BY <1>1, <1>3, <2>1
<1>8. Outcome(k)'
  <2>1. k \in live' => runs'[k] = IF Clearing(k, {"finish"})' THEN 1 ELSE 0
    <3> DEFINE c == Clearing(k, {"finish"})
               d == Clearing(k, {"finish"})'
    <3>1. k \in live => runs[k] = IF c THEN 1 ELSE 0
      BY <1>2 DEF Outcome
    <3>2. c <=> d
      BY <1>4
    <3> HIDE DEF c, d
    <3>3. k \in live' => runs'[k] = IF d THEN 1 ELSE 0
      BY <1>1, <3>1, <3>2
    <3> QED
      BY <3>3 DEF d
  <2> QED
    BY <1>1, <1>2, <1>7, <2>1 DEF Outcome
<1> QED
  BY <1>6, <1>8, SameOutcome DEF Outcomes

\* What tpool_join finds on the list nobody has run.
LEMMA DrainOutcomes ==
  ASSUME IInv, Drain PROVE Outcomes'
<1> USE OutcomeTypes
<1>0. PICK k : k = head
  OBVIOUS
<1>1. /\ cpc = "drain" /\ k # NULL /\ live' = live \ {k}
      /\ \/ "DESTROYED" \in flag[k] /\ frees' = [frees EXCEPT ![k] = frees[k] + 1] /\ flag' = flag
         \/ "DESTROYED" \notin flag[k] /\ frees' = frees /\ flag' = [flag EXCEPT ![k] = flag[k] \cup {"CANCELLED"}]
      /\ UNCHANGED <<wpc, task, runs, destroyed, Added>>
  BY <1>0 DEF Drain, Free, FreeFuture, SetFlag, workerVars, clientVars, Added
<1>2. \A j, labels : Clearing(j, labels)' <=> Clearing(j, labels)
  BY <1>1 DEF Clearing
<1>3. ~Clearing(k, {"clear", "clear_head"}) /\ ~Clearing(k, {"finish"})
  BY <1>1 DEF IInv, Client, Clearing
<1>4. k \in live /\ k \in Tasks /\ Outcome(k)
  BY <1>0, <1>1, <1>3 DEF IInv, Queue, Queued
<1>5. runs[k] = 0 /\ frees[k] = 0
  BY <1>3, <1>4 DEF Outcome
<1>6. \A j \in Tasks \ {k} : frees'[j] = frees[j] /\ flag'[j] = flag[j]
  BY <1>1
<1>7. \A j \in Tasks \ {k} : Unaffected(j)
  BY <1>1, <1>2, <1>6 DEF Unaffected
<1>8. /\ "DESTROYED" \in flag[k] => frees'[k] = 1 /\ flag'[k] = flag[k]
      /\ "DESTROYED" \notin flag[k] => frees'[k] = 0 /\ flag'[k] = flag[k] \cup {"CANCELLED"}
  <2>1. frees[k] + 1 = 1
    BY <1>5
  <2> QED
    BY <1>1, <1>4, <1>5, <2>1
<1>9. Outcome(k)'
  BY <1>1, <1>4, <1>5, <1>8 DEF Outcome
<1> QED
  BY <1>7, <1>9, SameOutcome DEF Outcomes

-----------------------------------------------------------------------------
(* The theorems *)

\* Every step keeps what flags and counters say.
LEMMA NextOutcomes ==
  ASSUME IInv, [Next]_vars PROVE Outcomes'
<1>1. ASSUME NEW w \in Workers, WorkerStep(w) \/ SpuriousWakeup(w) PROVE Outcomes'
  BY <1>1, WorkerUnaffected, StartPoisonOutcomes, RunOutcomes, FinishOutcomes DEF WorkerStep, Execute
<1>2. ASSUME NEW k \in Tasks, GetCall(k) \/ DestroyFuture(k) PROVE Outcomes'
  BY <1>2, ClientUnaffected, DestroyOutcomes
<1>3. ASSUME ApplyAllocate \/ Drain PROVE Outcomes'
  BY <1>3, ApplyAllocateOutcomes, DrainOutcomes
<1>4. ASSUME Create \/ Apply \/ GetCheck \/ GetTimeout \/ JoinCall \/ JoinWorkers \/ DrainDone \/ UNCHANGED vars
      PROVE Outcomes'
  BY <1>4, ClientUnaffected
<1> QED
  BY <1>1, <1>2, <1>3, <1>4 DEF Next, Inside, ClientCall, Join

\* The first state has an empty list, no task and one thread, which creates the workers.
LEMMA InitIInv == Init => IInv
<1> SUFFICES ASSUME Init PROVE IInv
  OBVIOUS
<1>1. /\ head = NULL /\ tail = NULL /\ next = [k \in Tasks |-> NULL] /\ rwlock = NULL
      /\ live = {} /\ flag = [k \in Tasks |-> {}] /\ frees = [k \in Tasks |-> 0] /\ runs = [k \in Tasks |-> 0]
      /\ wpc = [w \in Workers |-> "none"] /\ task = [w \in Workers |-> NULL] /\ tmp = [w \in Workers |-> NULL]
      /\ cpc = "create" /\ cfut = NULL /\ ctail = NULL /\ applied = 0 /\ created = 0
      /\ destroyed = {} /\ cancelled = {} /\ fault = "none"
  BY DEF Init
<1>2. TypeOK
  BY <1>1, Numbers DEF TypeOK, WorkerLabels
<1>3. Added = {}
  BY <1>1 DEF Added
<1>4. Locking /\ TakenOnce
  BY <1>1, Numbers DEF Locking, TakenOnce, Locked, HasTask
<1>5. Client
  <2>1. AppliedAt("create", 0)
    BY DEF AppliedAt, Adding
  <2> QED
    BY <1>1, <2>1 DEF Client, Labels
<1>6. NewTask /\ Links /\ Ends /\ Queue /\ Walking
  BY <1>1, Numbers DEF NewTask, Links, Ends, Queue, Walking, Adding
<1>7. Outcomes
  BY <1>1, <1>3, Numbers DEF Outcomes, Outcome
<1> QED
  BY <1>2, <1>4, <1>5, <1>6, <1>7 DEF IInv

\* Every step keeps the invariant.
LEMMA NextIInv == IInv /\ [Next]_vars => IInv'
<1> SUFFICES ASSUME IInv, [Next]_vars PROVE IInv'
  OBVIOUS
<1>1. TypeOK' /\ Locking' /\ Client'
  BY NextTypeOK, NextLocking, NextClient DEF IInv
<1>2. TakenOnce' /\ List' /\ Outcomes'
  BY NextTakenOnce, NextList, NextOutcomes
<1> QED
  BY <1>1, <1>2 DEF IInv, List

\* The invariant holds in every state of the pool.
THEOREM SpecIInv == Spec => []IInv
BY InitIInv, NextIInv, PTL DEF Spec

\* Lines 163, 224-257: the types, and the lock is free when a failed tpool_create destroys it.
THEOREM SpecPoolInv == Spec => []PoolInv
<1>1. IInv => PoolInv
  <2> SUFFICES ASSUME IInv PROVE PoolInv
    OBVIOUS
  <2>1. ASSUME cpc = "failed" PROVE rwlock = NULL
    <3>1. \A w \in 1 .. created : wpc[w] = "exit"
      BY <2>1 DEF IInv, Client
    <3>2. \A w \in Workers : w \in 1 .. created \/ w > created
      BY Numbers DEF IInv, TypeOK
    <3>3. \A w \in Workers : wpc[w] \notin Locked
      BY <3>1, <3>2 DEF IInv, Locking, Locked
    <3> QED
      BY <3>3 DEF IInv, Locking, TypeOK
  <2> QED
    BY <2>1 DEF PoolInv, CancelUnlocks, IInv
<1> QED
  BY <1>1, SpecIInv, PTL

\* Lines 58-74, 120-134 and 199-213: of client, worker and jobqueue_destroy one frees a
\* future, once, and nobody who may still use it finds it freed.
THEOREM SpecFuturesFreed == Spec => []FuturesFreed
<1>1. IInv => FuturesFreed
  <2> SUFFICES ASSUME IInv PROVE FuturesFreed
    OBVIOUS
  <2> USE OutcomeTypes
  <2>1. \A k \in Tasks : frees[k] <= 1
    BY DEF Outcome
  <2>2. \A k \in Usable : frees[k] = 0
    <3> SUFFICES ASSUME NEW k \in Usable PROVE frees[k] = 0
      OBVIOUS
    <3>1. k \in Added /\ ~IsPoison(k) /\ k \notin destroyed
      <4>1. k \in Added /\ k \notin destroyed
        BY DEF Usable, Added
      <4>2. k \in Tasks /\ k \notin NTasks + 1 .. NTasks + NWorkers
        BY <4>1 DEF Usable
      <4> QED
        BY <4>1, <4>2, Numbers DEF IsPoison
    <3> QED
      BY <3>1 DEF Outcome
  <2>3. \A w \in Workers : wpc[w] \in {"start", "run", "finish"} => task[w] \in live /\ frees[task[w]] = 0
    BY DEF HasTask, Outcome
  <2>4. \A k \in destroyed : k \notin live => frees[k] = 1
    <3>1. destroyed \subseteq Tasks
      BY Numbers DEF IInv, TypeOK
    <3> QED
      BY <3>1 DEF Outcome
  <2> QED
    BY <2>1, <2>2, <2>3, <2>4 DEF FuturesFreed, FutureFreedOnce, FreedByTheLast
<1> QED
  BY <1>1, SpecIInv, PTL

\* bbp.h:14: however the workers race for the list, none executes a task that another has.
THEOREM SpecExecutedAtMostOnce == Spec => []ExecutedAtMostOnce
<1>1. IInv => ExecutedAtMostOnce
  BY OutcomeTypes DEF ExecutedAtMostOnce, Outcome
<1> QED
  BY <1>1, SpecIInv, PTL

\* Lines 205-206: what a future says of its task is what became of the task.
THEOREM SpecFlagsTellOutcome == Spec => []FlagsTellOutcome
<1>1. IInv => FlagsTellOutcome
  BY OutcomeTypes DEF FlagsTellOutcome, Outcome
<1> QED
  BY <1>1, SpecIInv, PTL
=============================================================================
