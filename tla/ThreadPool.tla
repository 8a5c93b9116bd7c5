----------------------------- MODULE ThreadPool -----------------------------
(***************************************************************************)
(* The thread pool of 2021q1_quiz4/bbp.c: worker threads that take tasks   *)
(* from a linked list, futures that the client waits for and destroys, and *)
(* a client thread that uses the pool as bbp.h allows.                     *)
(*                                                                         *)
(* The list is modelled pointer by pointer, since tpool_apply links a task *)
(* in without the lock that jobqueue_fetch holds: each load and store of   *)
(* head, tail and next is a step.  A critical section of a future's mutex  *)
(* has no blocking step inside and is one step.  Task k and future k are   *)
(* allocated together by the k-th call of tpool_apply; 0 is NULL.          *)
(***************************************************************************)
EXTENDS Naturals, FiniteSets

CONSTANTS NWorkers,             \* pool->count
          NTasks                \* tasks the client applies before tpool_join

ASSUME PoolAssumption == NWorkers \in Nat \ {0} /\ NTasks \in Nat

Workers == 1 .. NWorkers
Tasks == 1 .. NTasks + NWorkers
IsPoison(k) == k > NTasks       \* applied by tpool_join with func NULL
NULL == 0
Pointers == Tasks \cup {NULL}

VARIABLES
  head, tail, next,             \* jobqueue_t, and threadtask_t.next
  rwlock,                       \* the worker that holds it, or NULL
  live,                         \* tasks allocated and not yet freed
  flag, frees,                  \* futures: flag bits; times freed
  wpc, task, tmp,               \* workers: label and locals of the fetch
  runs,                         \* times the function of a task was called
  cpc, cfut, ctail,             \* client: label, its future, local tail
  applied, created, destroyed,  \* calls the client has made so far
  cancelled,                    \* workers sent pthread_cancel
  fault                         \* "null": a NULL pointer was dereferenced;
                                \* "freed": memory of a freed task was used

queueVars == <<head, tail, next>>
futureVars == <<live, flag, frees>>
workerVars == <<wpc, task, tmp, runs>>
clientVars == <<cpc, cfut, ctail, applied, created, destroyed, cancelled>>
vars == <<queueVars, rwlock, futureVars, workerVars, clientVars, fault>>

Flags == {"RUNNING", "FINISHED", "TIMEOUT", "CANCELLED", "DESTROYED"}

Goto(w, l) == wpc' = [wpc EXCEPT ![w] = l]
ClientGoto(l) == cpc' = l

Init ==
  /\ head = NULL /\ tail = NULL /\ next = [k \in Tasks |-> NULL]
  /\ rwlock = NULL
  /\ live = {} /\ flag = [k \in Tasks |-> {}] /\ frees = [k \in Tasks |-> 0]
  /\ wpc = [w \in Workers |-> "none"]
  /\ task = [w \in Workers |-> NULL] /\ tmp = [w \in Workers |-> NULL]
  /\ runs = [k \in Tasks |-> 0]
  /\ cpc = "create" /\ cfut = NULL /\ ctail = NULL
  /\ applied = 0 /\ created = 0 /\ destroyed = {} /\ cancelled = {}
  /\ fault = "none"

\* A program whose process died takes no more steps.
Alive == fault # "null"

\* Dereferencing a pointer: NULL ends the process; memory of a freed task is
\* used as it was left.
Touch(p) == fault' = IF p = NULL THEN "null"
                     ELSE IF p \notin live THEN "freed" ELSE fault

-----------------------------------------------------------------------------
(* jobqueue_fetch: taking a task, rwlock held *)

LockQueue(w) ==
  /\ wpc[w] = "lock" /\ rwlock = NULL
  /\ rwlock' = w /\ Goto(w, "test")
  /\ UNCHANGED <<queueVars, futureVars, task, tmp, runs, clientVars, fault>>

TestCancelKeepsLock(w) ==
  /\ wpc[w] = "test"
  /\ Goto(w, IF w \in cancelled THEN "exit" ELSE "nonempty")
  /\ UNCHANGED <<queueVars, rwlock, futureVars, task, tmp, runs, clientVars, fault>>

\* pthread_testcancel, whose cleanup handler unlocks.
TestCancel(w) ==
  /\ wpc[w] = "test"
  /\ IF w \in cancelled THEN rwlock' = NULL /\ Goto(w, "exit")
                        ELSE Goto(w, "nonempty") /\ UNCHANGED rwlock
  /\ UNCHANGED <<queueVars, futureVars, task, tmp, runs, clientVars, fault>>

\* while (!tail) pthread_cond_wait: nothing in bbp.c signals cond_nonempty.
CheckNonempty(w) ==
  /\ wpc[w] = "nonempty"
  /\ IF tail = NULL THEN rwlock' = NULL /\ Goto(w, "blocked")
                    ELSE Goto(w, "ends") /\ UNCHANGED rwlock
  /\ UNCHANGED <<queueVars, futureVars, task, tmp, runs, clientVars, fault>>

\* pthread_cond_wait may return without a signal.
SpuriousWakeup(w) ==
  /\ wpc[w] = "blocked" /\ rwlock = NULL
  /\ rwlock' = w /\ Goto(w, "nonempty")
  /\ UNCHANGED <<queueVars, futureVars, task, tmp, runs, clientVars, fault>>

\* Cancelled inside pthread_cond_wait: relock, then the cleanup handler.
CancelBlocked(w) ==
  /\ wpc[w] = "blocked" /\ w \in cancelled /\ rwlock = NULL
  /\ Goto(w, "exit")
  /\ UNCHANGED <<queueVars, rwlock, futureVars, task, tmp, runs, clientVars, fault>>

\* head == tail: two plain loads, in the order the compiler chooses.
LoadEnd(w) ==
  /\ wpc[w] = "ends"
  /\ \/ tmp' = [tmp EXCEPT ![w] = head] /\ Goto(w, "with_tail")
     \/ tmp' = [tmp EXCEPT ![w] = tail] /\ Goto(w, "with_head")
  /\ UNCHANGED <<queueVars, rwlock, futureVars, task, runs, clientVars, fault>>

Compare(w) ==
  /\ \/ wpc[w] = "with_tail" /\ Goto(w, IF tmp[w] = tail THEN "only" ELSE "first")
     \/ wpc[w] = "with_head" /\ Goto(w, IF tmp[w] = head THEN "only" ELSE "first")
  /\ UNCHANGED <<queueVars, rwlock, futureVars, task, tmp, runs, clientVars, fault>>

TakeOnly(w) ==
  /\ wpc[w] = "only" /\ task' = [task EXCEPT ![w] = tail] /\ Goto(w, "clear")
  /\ UNCHANGED <<queueVars, rwlock, futureVars, tmp, runs, clientVars, fault>>

ClearNothing(w) ==
  /\ wpc[w] = "clear" /\ Goto(w, "unlock")
  /\ UNCHANGED <<queueVars, rwlock, futureVars, task, tmp, runs, clientVars, fault>>

\* head = tail = NULL: two plain stores, in either order.
ClearTail(w) ==
  /\ \/ wpc[w] = "clear" /\ Goto(w, "clear_head")
     \/ wpc[w] = "clear_tail" /\ Goto(w, "unlock")
  /\ tail' = NULL
  /\ UNCHANGED <<head, next, rwlock, futureVars, task, tmp, runs, clientVars, fault>>

ClearHead(w) ==
  /\ \/ wpc[w] = "clear" /\ Goto(w, "clear_tail")
     \/ wpc[w] = "clear_head" /\ Goto(w, "unlock")
  /\ head' = NULL
  /\ UNCHANGED <<tail, next, rwlock, futureVars, task, tmp, runs, clientVars, fault>>

WalkFirst(w) ==
  /\ wpc[w] = "first" /\ tmp' = [tmp EXCEPT ![w] = head] /\ Goto(w, "walk")
  /\ UNCHANGED <<queueVars, rwlock, futureVars, task, runs, clientVars, fault>>

\* One iteration of the loop that looks for the task before the last.
Walk(w) ==
  LET p == tmp[w] IN
  /\ wpc[w] = "walk" /\ Touch(p)
  /\ \/ p = NULL /\ UNCHANGED <<wpc, tmp>>
     \/ p # NULL /\ next[p] = tail /\ Goto(w, "cut") /\ UNCHANGED tmp
     \/ p # NULL /\ next[p] # tail /\ tmp' = [tmp EXCEPT ![w] = next[p]]
        /\ UNCHANGED wpc
  /\ UNCHANGED <<queueVars, rwlock, futureVars, task, runs, clientVars>>

CutLast(w) ==
  /\ wpc[w] = "cut"
  /\ task' = [task EXCEPT ![w] = next[tmp[w]]]
  /\ next' = [next EXCEPT ![tmp[w]] = NULL]
  /\ Goto(w, "set_tail")
  /\ UNCHANGED <<head, tail, rwlock, futureVars, tmp, runs, clientVars, fault>>

SetTail(w) ==
  /\ wpc[w] = "set_tail" /\ tail' = tmp[w] /\ Goto(w, "unlock")
  /\ UNCHANGED <<head, next, rwlock, futureVars, task, tmp, runs, clientVars, fault>>

UnlockQueue(w) ==
  /\ wpc[w] = "unlock" /\ rwlock' = NULL /\ Goto(w, "start")
  /\ UNCHANGED <<queueVars, futureVars, task, tmp, runs, clientVars, fault>>

TakeTask(w) == \/ LockQueue(w) \/ TestCancel(w) \/ CheckNonempty(w)
               \/ CancelBlocked(w) \/ LoadEnd(w) \/ Compare(w)
               \/ TakeOnly(w) \/ ClearTail(w)
               \/ ClearHead(w) \/ WalkFirst(w) \/ Walk(w) \/ CutLast(w)
               \/ SetTail(w) \/ UnlockQueue(w)

-----------------------------------------------------------------------------
(* jobqueue_fetch: executing the task *)

Free(k) == live' = live \ {k}
FreeFuture(k) == frees' = [frees EXCEPT ![k] = @ + 1]
SetFlag(k, f) == flag' = [flag EXCEPT ![k] = @ \cup {f}]

\* The task of tpool_join ends the worker, which frees its future unseen.
StartPoison(w) ==
  LET k == task[w] IN
  /\ wpc[w] = "start" /\ IsPoison(k)
  /\ FreeFuture(k) /\ Free(k) /\ Goto(w, "exit")
  /\ UNCHANGED <<queueVars, rwlock, flag, task, tmp, runs, clientVars, fault>>

\* A cancelled task is dropped, any other one is marked as running.
Start(w) ==
  LET k == task[w] IN
  /\ wpc[w] = "start" /\ ~IsPoison(k)
  /\ IF "CANCELLED" \in flag[k]
     THEN Free(k) /\ Goto(w, "lock") /\ UNCHANGED flag
     ELSE SetFlag(k, "RUNNING") /\ Goto(w, "run") /\ UNCHANGED live
  /\ UNCHANGED <<queueVars, rwlock, frees, task, tmp, runs, clientVars, fault>>

Run(w) ==
  /\ wpc[w] = "run" /\ runs' = [runs EXCEPT ![task[w]] = @ + 1]
  /\ Goto(w, "finish")
  /\ UNCHANGED <<queueVars, rwlock, futureVars, task, tmp, clientVars, fault>>

FinishNoBroadcast(w) ==
  LET k == task[w] IN
  /\ wpc[w] = "finish"
  /\ \/ "DESTROYED" \in flag[k] /\ FreeFuture(k) /\ UNCHANGED flag
     \/ "DESTROYED" \notin flag[k] /\ SetFlag(k, "FINISHED") /\ UNCHANGED frees
  /\ Free(k) /\ Goto(w, "lock")
  /\ UNCHANGED <<queueVars, rwlock, task, tmp, runs, clientVars, fault>>

\* Publish the result and broadcast, or free what the client has given up.
Finish(w) ==
  LET k == task[w] IN
  /\ wpc[w] = "finish"
  /\ \/ /\ "DESTROYED" \in flag[k]
        /\ FreeFuture(k) /\ UNCHANGED <<flag, cpc>>
     \/ /\ "DESTROYED" \notin flag[k]
        /\ SetFlag(k, "FINISHED") /\ UNCHANGED frees
        /\ cpc' = IF cpc = "get_wait" /\ cfut = k THEN "get_check" ELSE cpc
  /\ Free(k) /\ Goto(w, "lock")
  /\ UNCHANGED <<queueVars, rwlock, task, tmp, runs,
                 cfut, ctail, applied, created, destroyed, cancelled, fault>>

Execute(w) == StartPoison(w) \/ Start(w) \/ Run(w) \/ Finish(w)

WorkerStep(w) == Alive /\ (TakeTask(w) \/ Execute(w))

-----------------------------------------------------------------------------
(* tpool_create *)

PoolReady == created = NWorkers

CreateWorker ==
  /\ cpc = "create" /\ ~PoolReady
  /\ created' = created + 1
  /\ Goto(created + 1, "lock")
  /\ ClientGoto(IF created + 1 = NWorkers THEN "rest" ELSE "create")
  /\ UNCHANGED <<queueVars, rwlock, futureVars, task, tmp, runs,
                 cfut, ctail, applied, destroyed, cancelled, fault>>

\* pthread_create fails: cancel the workers there are, join them, free all.
CreateFails ==
  /\ cpc = "create" /\ ~PoolReady
  /\ cancelled' = 1 .. created
  /\ ClientGoto("join_cancelled")
  /\ UNCHANGED <<queueVars, rwlock, futureVars, workerVars,
                 cfut, ctail, applied, created, destroyed, fault>>

JoinCancelled ==
  /\ cpc = "join_cancelled" /\ \A w \in cancelled : wpc[w] = "exit"
  /\ ClientGoto("failed")
  /\ UNCHANGED <<queueVars, rwlock, futureVars, workerVars,
                 cfut, ctail, applied, created, destroyed, cancelled, fault>>

Create == CreateWorker \/ CreateFails \/ JoinCancelled

-----------------------------------------------------------------------------
(* tpool_apply, by the client or inside tpool_join *)

\* The label to go back to when tpool_apply returns.
AfterApply(k) == ClientGoto(IF ~IsPoison(k) THEN "rest"
                            ELSE IF k < NTasks + NWorkers THEN "poison" ELSE "join")

\* The client applies its tasks, then calls tpool_join.
ApplyAllocate ==
  /\ \/ cpc = "rest" /\ applied < NTasks
     \/ cpc = "poison"
  /\ applied' = applied + 1
  /\ live' = live \cup {applied + 1}
  /\ ClientGoto("load_tail")
  /\ UNCHANGED <<queueVars, rwlock, flag, frees, workerVars,
                 cfut, ctail, created, destroyed, cancelled, fault>>

\* The cas of line 310 is on this local copy of tail, not on the queue's.
ApplyLoadTail ==
  /\ cpc = "load_tail"
  /\ ctail' = tail
  /\ ClientGoto(IF tail = NULL THEN "store_first" ELSE "link")
  /\ UNCHANGED <<queueVars, rwlock, futureVars, workerVars,
                 cfut, applied, created, destroyed, cancelled, fault>>

ApplyStoreFirst ==
  /\ cpc = "store_first" /\ tail' = applied /\ ClientGoto("store_head")
  /\ UNCHANGED <<head, next, rwlock, futureVars, workerVars,
                 cfut, ctail, applied, created, destroyed, cancelled, fault>>

ApplyStoreHead ==
  /\ cpc = "store_head" /\ head' = applied /\ AfterApply(applied)
  /\ UNCHANGED <<tail, next, rwlock, futureVars, workerVars,
                 cfut, ctail, applied, created, destroyed, cancelled, fault>>

\* The cas on next of the task that was last when tail was loaded.
ApplyLink ==
  /\ cpc = "link" /\ Touch(ctail)
  /\ IF next[ctail] = NULL
     THEN next' = [next EXCEPT ![ctail] = applied] /\ ClientGoto("store_tail")
     ELSE ClientGoto("load_tail") /\ UNCHANGED next
  /\ UNCHANGED <<head, tail, rwlock, futureVars, workerVars,
                 cfut, ctail, applied, created, destroyed, cancelled>>

ApplyStoreTail ==
  /\ cpc = "store_tail" /\ tail' = applied /\ AfterApply(applied)
  /\ UNCHANGED <<head, next, rwlock, futureVars, workerVars,
                 cfut, ctail, applied, created, destroyed, cancelled, fault>>

Apply == ApplyLoadTail \/ ApplyStoreFirst \/ ApplyStoreHead
            \/ ApplyLink \/ ApplyStoreTail

-----------------------------------------------------------------------------
(* tpool_future_get and tpool_future_destroy *)

Usable == (1 .. applied) \ (destroyed \cup NTasks + 1 .. NTasks + NWorkers)

\* A call clears the timeout bit, then looks at the flag with the mutex held.
GetCall(k) ==
  /\ cpc = "rest" /\ k \in Usable
  /\ flag' = [flag EXCEPT ![k] = @ \ {"TIMEOUT"}]
  /\ cfut' = k
  /\ ClientGoto(IF "FINISHED" \in flag[k] THEN "rest" ELSE "get_wait")
  /\ UNCHANGED <<queueVars, rwlock, live, frees, workerVars,
                 ctail, applied, created, destroyed, cancelled, fault>>

\* Back from pthread_cond_wait with the mutex held.
GetCheck ==
  /\ cpc = "get_check"
  /\ ClientGoto(IF "FINISHED" \in flag[cfut] THEN "rest" ELSE "get_wait")
  /\ UNCHANGED <<queueVars, rwlock, futureVars, workerVars,
                 cfut, ctail, applied, created, destroyed, cancelled, fault>>

\* With a timeout the call may give up and return NULL.
GetTimeout ==
  /\ cpc = "get_wait"
  /\ SetFlag(cfut, "TIMEOUT") /\ ClientGoto("rest")
  /\ UNCHANGED <<queueVars, rwlock, live, frees, workerVars,
                 cfut, ctail, applied, created, destroyed, cancelled, fault>>

DestroyNoCheck(k) ==
  /\ cpc \in {"rest", "over"} /\ k \in Usable
  /\ destroyed' = destroyed \cup {k} /\ FreeFuture(k) /\ UNCHANGED flag
  /\ UNCHANGED <<queueVars, rwlock, live, workerVars,
                 cpc, cfut, ctail, applied, created, cancelled, fault>>

DestroyFuture(k) ==
  /\ cpc \in {"rest", "over"} /\ k \in Usable
  /\ destroyed' = destroyed \cup {k}
  /\ IF flag[k] \cap {"FINISHED", "CANCELLED"} # {}
     THEN FreeFuture(k) /\ UNCHANGED flag
     ELSE SetFlag(k, "DESTROYED") /\ UNCHANGED frees
  /\ UNCHANGED <<queueVars, rwlock, live, workerVars,
                 cpc, cfut, ctail, applied, created, cancelled, fault>>

-----------------------------------------------------------------------------
(* tpool_join and jobqueue_destroy *)

JoinCall ==
  /\ cpc = "rest" /\ applied = NTasks /\ ClientGoto("poison")
  /\ UNCHANGED <<queueVars, rwlock, futureVars, workerVars,
                 cfut, ctail, applied, created, destroyed, cancelled, fault>>

JoinWorkers ==
  /\ cpc = "join" /\ \A w \in Workers : wpc[w] = "exit"
  /\ ClientGoto("drain")
  /\ UNCHANGED <<queueVars, rwlock, futureVars, workerVars,
                 cfut, ctail, applied, created, destroyed, cancelled, fault>>

DrainKeepsTask ==
  /\ cpc = "drain" /\ head # NULL
  /\ head' = next[head]
  /\ IF "DESTROYED" \in flag[head] THEN FreeFuture(head) /\ UNCHANGED flag
                                   ELSE SetFlag(head, "CANCELLED") /\ UNCHANGED frees
  /\ Touch(head)
  /\ UNCHANGED <<tail, next, rwlock, live, workerVars, clientVars>>

\* One iteration of the loop of jobqueue_destroy.
Drain ==
  /\ cpc = "drain" /\ head # NULL
  /\ head' = next[head]
  /\ IF "DESTROYED" \in flag[head] THEN FreeFuture(head) /\ UNCHANGED flag
                                   ELSE SetFlag(head, "CANCELLED") /\ UNCHANGED frees
  /\ Free(head) /\ Touch(head)
  /\ UNCHANGED <<tail, next, rwlock, workerVars, clientVars>>

DrainDone ==
  /\ cpc = "drain" /\ head = NULL /\ ClientGoto("over")
  /\ UNCHANGED <<queueVars, rwlock, futureVars, workerVars,
                 cfut, ctail, applied, created, destroyed, cancelled, fault>>

Join == JoinWorkers \/ Drain \/ DrainDone

-----------------------------------------------------------------------------
\* Steps of a call the client is in; the rest is up to the client.
Inside == Alive /\ (Create \/ Apply \/ GetCheck \/ Join
                      \/ (cpc = "poison" /\ ApplyAllocate))

ClientCall == /\ Alive
              /\ \/ cpc = "rest" /\ ApplyAllocate
                 \/ \E k \in Tasks : GetCall(k) \/ DestroyFuture(k)
                 \/ GetTimeout
                 \/ JoinCall

Next == \/ \E w \in Workers : WorkerStep(w) \/ (Alive /\ SpuriousWakeup(w))
        \/ Inside
        \/ ClientCall

Spec == Init /\ [][Next]_vars

\* Workers and the client inside a call of the pool run on.
FairSpec == Spec /\ WF_vars(Inside) /\ \A w \in Workers : WF_vars(WorkerStep(w))

-----------------------------------------------------------------------------
(* Properties *)

WorkerLabels == {"none", "lock", "test", "nonempty", "blocked", "ends", "with_tail", "with_head",
                 "only", "clear", "clear_tail", "clear_head", "first", "walk", "cut",
                 "set_tail", "unlock", "start", "run", "finish", "exit"}

TypeOK ==
  /\ {head, tail, ctail, cfut} \subseteq Pointers
  /\ next \in [Tasks -> Pointers]
  /\ rwlock \in Workers \cup {NULL}
  /\ live \subseteq 1 .. applied
  /\ flag \in [Tasks -> SUBSET Flags] /\ frees \in [Tasks -> Nat]
  /\ wpc \in [Workers -> WorkerLabels]
  /\ task \in [Workers -> Pointers] /\ tmp \in [Workers -> Pointers]
  /\ runs \in [Tasks -> Nat]
  /\ applied \in 0 .. NTasks + NWorkers /\ created \in 0 .. NWorkers
  /\ destroyed \subseteq 1 .. NTasks /\ cancelled \subseteq Workers
  /\ fault \in {"none", "null", "freed"}

\* Lines 199, 62 and 123 free a future in three places: whatever the order of
\* the client's destroy, the worker's finish and jobqueue_destroy, it is freed
\* at most once, not while the client may still use it, and neither it nor its
\* task is freed while a worker that took the task still has to use them.
FutureFreedOnce ==
  /\ \A k \in Tasks : frees[k] <= 1
  /\ \A k \in Usable : frees[k] = 0
  /\ \A w \in Workers : wpc[w] \in {"start", "run", "finish"} =>
                            task[w] \in live /\ frees[task[w]] = 0

\* The last of task and client frees the future: when the client has destroyed
\* it and its task is gone, so is the future.
FreedByTheLast ==
  \A k \in destroyed : k \notin live => frees[k] = 1

\* Lines 58-74, 120-134 and 199-213: of the three who may free a future exactly
\* one does, in time for nobody to miss it.
FuturesFreed == FutureFreedOnce /\ FreedByTheLast

\* bbp.h:14, with workers that race for the list: no task is executed twice.
ExecutedAtMostOnce == \A k \in Tasks : runs[k] <= 1

\* Line 205-206: only a task that has been executed is FINISHED, and a
\* CANCELLED one never has been, nor will be by a worker that still has it.
FlagsTellOutcome ==
  \A k \in Tasks : /\ "FINISHED" \in flag[k] => runs[k] = 1
                   /\ "CANCELLED" \in flag[k] => /\ runs[k] = 0
                                                  /\ k \notin live

\* Lines 163, 241-244: when the workers created so far have been cancelled and
\* joined, the mutex that jobqueue_destroy destroys is unlocked.
CancelUnlocks == cpc = "failed" => rwlock = NULL

\* What holds between any two steps of workers and client, a failed
\* tpool_create (lines 224-257) included.
PoolInv == TypeOK /\ CancelUnlocks

\* bbp.h:26: a client that waits for a task which finishes is woken.
GetReturns ==
  \A k \in Tasks :
     (cpc \in {"get_wait", "get_check"} /\ cfut = k /\ "FINISHED" \in flag[k])
        ~> (cpc = "rest" \/ ~Alive)

\* bbp.h:14, "schedules the specific function to be executed": taking tasks
\* and adding one never follows a pointer that is NULL or freed.
SafeDereference == fault = "none"

\* bbp.h:21, "Wait for all pending tasks to complete before destroying the thread
\* pool": jobqueue_destroy finds no task of the client left in the list to cancel.
JoinWaitsForPending == \A k \in 1 .. NTasks : "CANCELLED" \notin flag[k]

\* bbp.h:26, "Return the result when it becomes available": the client that
\* waits for the result of a task it has applied gets it.
ResultBecomesAvailable == cpc = "get_wait" ~> (cpc # "get_wait" \/ ~Alive)
=============================================================================
