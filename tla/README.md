# Verification of linuxkernel_internals

This repository is a collection of small systems programs: a futex mutex and
a channel built on it, a thread pool, a queue with its test console, copy-on-write
strings, three character device drivers, an expression calculator, and sorting of
linked lists. This directory holds TLA+ models of them, the TLC configurations that
check the models on small instances, and proofs for the checks that matter for
every size. `src/` below is the root of the repository.

## 1. Inventory

Each component is given with its state, its operations, what it shares with others,
what is hard about it, and what makes it correct. The hazards of `PROJECT.json`
are the same list, line by line.

| Component | State | Operations | Shares | Hard | Correct when |
|---|---|---|---|---|---|
| futex mutex, `2021q1_croutine/futex.c` | one word, 0/1/2 | `mutex_lock`, `mutex_unlock` | the word, the kernel's wait queue | interleaving of cas, wait, wake | one owner; no sleeper without a waker; a wanted lock is taken again |
| unbuffered channel, `chan.c` | `datap`, two futexes, two mutexes, `closed` | `chan_send_unbuf`, `chan_recv_unbuf`, `chan_close` | pointers to local variables of other threads | the futexes are counted up and down by two threads in either order, and reused | sends and receives meet in pairs; no pointer outlives its call; everybody gets through |
| buffered channel, `chan.c` | ring of items with laps, `head`, `tail`, credit futexes, waiter counts | `chan_send_buf`, `chan_recv_buf`, `chan_close` | the ring | stale cursors, reuse of slots, credits and sleepers | a bounded queue, first in first out; no message lost or seen twice |
| channel test, `main.c` | `msg_count`, threads | `test_chan`, `writer`, `reader` | a channel | all of the above | every message is counted once |
| thread pool, `2021q1_quiz4/bbp.c` | list of tasks, futures, workers | `tpool_create`, `tpool_apply`, `tpool_future_get`, `tpool_future_destroy`, `tpool_join` | the list (workers lock it, `tpool_apply` does not), futures between client, worker and pool | who frees what; cancellation; waits with and without time limit | a future is freed once, by the last who uses it; a task runs at most once; a waiter is woken |
| lab queue, `2021q1_lab0-c/queue.c` | list with `head`, `last`, `q_size` | `q_new` ... `q_sort` | elements on the heap | sequences of calls, failing allocations | the list is the queue of strings; nothing leaks |
| harness and tester, `harness.c`, `qtest.c` | list of allocated blocks, modes, jump buffer, time limit | `test_malloc`, `test_free`, `exception_setup` ..., one command per queue operation | the queue; the SIGALRM handler | the handler jumps out of any instruction | modes, jump and alarm are off between commands; the count of blocks is right |
| console, `console.c`, `report.c` | stack of input files, command list, error count | commands, `source`, `quit`, helpers | everything the commands touch | nested files, errors while quitting | every line of every file is interpreted once, in order; quit frees once |
| strings, `2021q1_quiz3/xs.h` | short, medium, large strings, reference counts | `xs_new`, `xs_grow`, `xs_concat`, `xs_trim`, `xs_cow_copy`, `xs_free` | buffers of large strings | sequences of calls across the limits 15 and 255 | a buffer holds its string and is freed with its last user |
| drivers: `charater_device_driver/echo.c`, `2021q1_fibdrv/fibdrv.c`, `2021q1_kcalc/main.c` | kernel registrations, message buffers, `fib_mutex` | init, exit, open, read, write, seek, release | global buffers between all files | a failure at each step of init; several processes | init undoes what it did; one user of fibdrv; an answer belongs to its question |
| 128-bit addition, `2021q1_fibdrv/apa.h` | pure | adder | | carries at the word's limit | equals integer addition |
| expressions, `2021q1_kcalc/expression.c` | pure, with a list of variables | fixed-point arithmetic, parser, evaluator | | rounding, limits, precedence | equals the reference arithmetic |
| lists and sorts: `2021q1_linuxlist`, `2021q1_quiz1/list.c` | circular and linear lists | list operations, insertion sort, quicksort, merge sort | | links, depth of the explicit stack | a sorted permutation on a well-formed list |
| not for TLC: `dudect/`, `linenoise.c`, `2021q1_quiz1/ASLR`, plots, scripts, hooks | | | | | statistics of cycle counts, a vendored line editor, measurement data, build |

How they interact: the unbuffered channel uses the futex mutex; both channels are
driven by the threads of `main.c`; the queue is called by `qtest.c` inside the
harness, which the console calls; the calculator driver calls the expression code;
the other components stand alone. The models follow these lines: `ChanUnbuf` locks the
abstract lock that `Mutex` implements; `QTest` runs on `Harness` and knows of the
queue what `LabQueue` shows, its lengths; `DeviceFiles` takes the evaluation of what clients write as a
parameter, which is `Expression` in `MCDevices`.

## 2. Modules

| Module | Models | Compared with |
|---|---|---|
| `Mutex` | `futex.c` | `AbstractLock` (refinement) |
| `MutexProofs` | theorems about `Mutex` | |
| `TestThreads` | threads and messages of `main.c` | |
| `TestThreadsProofs` | lemmas about the batches of `TestThreads` | |
| `ChanUnbuf` | unbuffered half of `chan.c`, `main.c` | `Rendezvous` (refinement) |
| `ChanUnbufProofs` | theorems about `ChanUnbuf`, the refinement among them | |
| `ChanBuf` | buffered half of `chan.c`, `main.c` | `BoundedFifo` (refinement) |
| `ChanBufProofs` | theorems about `ChanBuf`, the refinement among them | |
| `ThreadPool` | `bbp.c` with a client that follows `bbp.h` | |
| `ThreadPoolProofs` | theorems about `ThreadPool` | |
| `LabQueue` | `queue.c` | `StringQueue` (refinement) |
| `Harness`, `QTest` | `harness.c`, the queue commands of `qtest.c` | |
| `QTestProofs` | theorems about `QTest` | |
| `Console`, `MCConsole` | `console.c` under `main` of `qtest.c` | |
| `CharDevices` | init and exit of `echo.c`, `fibdrv.c`, kcalc's `main.c` | |
| `DeviceFiles`, `MCDevices` | their file operations | |
| `DriverProofs` | theorems about `CharDevices` and `DeviceFiles` | |
| `Expression` | `expression.c` | `ExpressionText` (reference) |
| `LinuxList` | linuxlist's `list.h` and `sorting.h` | `TwoLists` (refinement) |
| `QuickSort` | `quicksort_iterative` of `2021q1_quiz1/list.c` | a sorted permutation |
| `SequentialProofs` | theorems about `LabQueue`, `QuickSort` and `Console`, the refinement of `StringQueue` among them | |
| `MCLists` | `LabQueue`, `LinuxList` and `QuickSort` for TLC | |

Every module has one type invariant. Where a type invariant would be a check of its own it
is a conjunct of the invariant about the state it types: `ChannelInv` (`TypeOK`,
`NoDanglingPointer`, `NoLostWakeup`), `RingInv` (`TypeOK`, `ExactlyOnce`,
`NoSleepOnCredit`), `PoolInv` (`TypeOK`, `CancelUnlocks`), `FuturesFreed`
(`FutureFreedOnce`, `FreedByTheLast`), `ConsoleInv` (`ConsoleTypeOK`, `ExitTells`), `QueueInv`
(`TypeOK`, `LastIsLast`), `TesterInv` (`TypeOK`, `AlarmFindsRegion`).

### Mutex

`val` is the word, `pc` the place of each thread in `mutex_lock` or `mutex_unlock`.
Each cas, the decrement, the store and each of the two system calls is an action; a
thread labelled "asleep" is on the kernel's queue of the word. `FUTEX_WAIT` compares
and queues in one step, as the kernel does under the bucket's lock, and may return
for no reason the program sees (`SpuriousWakeup`). An idle thread may call
`mutex_lock` at any time, and a thread in its critical section calls `mutex_unlock`.

### ChanUnbuf

`chan_send_unbuf` and `chan_recv_unbuf` are one protocol with the two sides exchanged,
so every step is one action of a thread and `Side(t)` chooses the mutex and the futex.
The side mutexes are the abstract lock (`owner`); `Mutex` is shown to implement it.
`cell[t]` is the local variable whose address the thread leaves in `datap`, and
`exchanged[t]` remembers whether the data of its current call has been moved.
The main thread joins, starts the next repetition on the same channel, and closes it;
with `EarlyClose` it may close at any moment, as `chan_close` allows.
`datap`, `closed` and the futexes are accessed atomically in the code, so each access
is a step. The increment reads `ftx[s]` and decides in one step, as
`atomic_fetch_add` does.

### ChanBuf

`cursor["send"]` is `tail` and `cursor["recv"]` is `head`, records of the two 32-bit halves.
A thread loads its cursor, loads the lap of the slot, claims the slot by a cas on the
cursor, moves the data and publishes the slot by adding one to its lap. Otherwise it
takes a credit from its side's futex or sleeps on it. `Modulus` stands for 2^32 in
the credit words. The laps would wrap after 2^32 passes and are not reduced; `Total`
bounds them.

### ThreadPool

The task list is modelled pointer by pointer, because `tpool_apply` links a task in
without the lock that `jobqueue_fetch` holds: each load and store of `head`, `tail` and
`next` is a step, plain accesses whose order C leaves open (lines 172 and 174) in either order.
`fault` records the use of a NULL pointer or of a freed task: a NULL pointer ends the
process, freed memory is read as it was left. Critical sections of a future's
mutex are single steps. The client creates the pool (creation may fail at any worker),
applies its tasks, gets and destroys futures in any order `bbp.h` permits, and joins.

### LabQueue

A sequential module: one call is one step, on a heap of elements with explicit `next`,
so freed elements stay readable until they are allocated again. An insertion may find
no memory for the element, or for the string when the element has been allocated, which it then
frees (`NoMemory`). `queueCall` is the call made last, with the string it was given or gave back: the
refinement of `StringQueue` compares it, so each call has to do what its own name promises. `AvoidStale` keeps the caller
from using the `last` that `q_remove_head` leaves behind in an emptied queue.

### Console

One line is read and interpreted in one step. `buf_stack` holds the open files with the
place of the next line in each; a line is the effect it has on the console: it succeeds,
fails, sources a file or one that cannot be opened, lowers the error limit (and may then fail on an
unknown parameter), or quits, some of them under `time`, which records a failure a second
time. `mode` is how qtest was started: with `-f` the loop is `cmd_select` until `cmd_done`; without it,
the loop takes lines from `linenoise` and looks at nothing but its result. quit closes
standard input, so that a terminal gives no line after it, while a pipe still gives
what stdio has buffered. `queue_quit` may or may not find a leak. In the code `finish_cmd` is
called only if no error was counted.

Two consequences are in the model and not in a property: a file sourced at the prompt is pushed
and never read (the command's help says "Read commands from source file"), and the
error limit ("Number of errors until exit") leaves the prompt running, with every line dropped.

### Harness and QTest

`Harness` has the list of blocks as its length, `allocated_count`, the two modes, the error
flag and the three variables of the time limit; its operations are given store by
store, because the alarm may be delivered between any two. `QTest` runs the queue commands
one after another: `stack` holds the functions of `qtest.c` under way (`do_new` calls
`do_free`; many commands call `show_queue`), `pc` the place of the innermost one, `todo` what
the running call of `queue.c` has still to store. The queue is its lengths: elements
reachable, `q_size`, and the tester's `qcnt`, a `size_t` modulo `Modulus`. The queue code may stop
taking steps at any point; a call of `test_malloc` may fail; an allocation under
`noallocate_mode` ends the process (`status = "exited"`).

`exception_setup` calls `sigsetjmp` and returns, so the jump of `trigger_exception` goes to a
frame that is gone. That is undefined; `Lands` has what the build of qtest's Makefile (`gcc
-O1`) produces. The slot of that frame's return address is the one every later call of the
same function wrote, so the jump acts as a return of 0 from the last call the command
made, or from `exception_setup` if it made none, after the error branch of `exception_setup` has
given up the jump and the limit. Locals have the value they had at the setup or a later one. A
timed-out `rh` may then free what its registers held and be ended by `sigsegvhandler`.

Some behaviours of the code are in the model and excepted by a property, which says so:

* A command that was timed out at verbosity 3 or more returns true: `show_queue` takes the error flag first
  (`TimeoutFails` speaks of lower levels), and insertions never ask for it.
* `rh` with a count, at verbosity 3 or more, goes on without a limit after its first repetition,
  because `show_queue` cancelled it (`LimitCancelled` in `CommandReturns`).
* `do_remove_head` returns out of its region when it has no memory for its buffers (`noBuffer`); the alarm then
  jumps to a command that has returned. A session ends there in the model.

### CharDevices and DeviceFiles

`CharDevices` is one of the three modules (`driver`), loaded and unloaded. `registered` is what the
kernel holds for it, `leaked` what it still holds of modules that are gone, and each call of
the init function may fail. In the code:

* `class_create` and `device_create` return an error in the pointer; echo and fib compare it with NULL, so the
  labels `failed_class` and `failed_device` are never reached. The module is loaded without a class or
  a device, and `rmmod` then oopses.
* `cdev_init` after `cdev_alloc` replaces the function that would free the cdev, so its memory stays when
  `cdev_add` fails and after every unload of echo and fib; `echo_exit` does not give the region back either.
* `calc_exit` unregisters its class twice, which may oops.
* The operations of echo and of the calculator name no owner: the module may go while a file is open, and
  the next operation on that file oopses (`UseAfterUnload`).

An oops ends a behaviour. `DeviceFiles` adds the files. Echo and the calculator keep one message for all files
without a lock, so a handler is split where another may get in between: between the two halves of a copied
message, between the copy and the size, between the copy and the reset of the size. The clients
use a file as the programs in the repository do (`user.c`, `scripts/test.sh`). Overlapping clients do get each
other's messages, mixtures of them, or an answer whose digits were taken for an expression.

`overlap` says that one of the files open now has been open beside another, or beside one that was; it ends
when the last of them is closed. The properties promise something whenever it is false, so also to a client
that comes after others have overlapped, or died between two calls, and have gone. `EchoesOwn` promises it its own message. What overlapping files
left in the calculator is known only in part. `dev_read` copies the answer and then puts the bytes at `msg_ptr` over the start of
the copy, and `msg_ptr` stays where it is when another file replaces the message (`"stale"`): a reader
may then get `Mixture`, bytes that are no answer, or see end of file at once. `written` follows what was written
without overlap and is `Unknown` after one. `ReadsTheAnswer` promises a lone file an answer or end of file in any case, and the
value of the last expression as soon as one has been written without overlap.

What `expression.c` makes of a text is a parameter: `IsExpression`, `ResultOf`, `ResultOfDigits` and
`IsExactly` are constants, which `MCDevices.cfg` binds to the operators of `Expression` and
`ExpressionText`, as it binds `Cases` to the expressions clients write. So the drivers can be proved about
for whatever the calculator computes.

### Expression and ExpressionText

`Expression` is the tokenizer's grammar, the precedence parser with its two stacks, and the evaluation
in fixed point, where a number is `n * 10^d` packed into an `int`. A text is a sequence of tokens: how
characters group into them is left out. `ExpressionText` is the reference, written from the meaning
and not from the code: a tree is printed with as few parentheses as C's precedences (and a power that
groups to the right) allow, and its value is an exact number. `ReadsTheAnswer` says that what the driver
answers to the text of a tree stands for the tree's exact value.

`ValueOf` marks as not exact the expressions the code does not evaluate as written, and `MCDevices` leaves
them out: `0/5` never leaves the loop of `divid`, a negative dividend wraps below it, `10**1` is 100 and
`20**2` is 4000 (the exponent of the base is added once too often), `30%7` is 0, `5%10` is a divide error,
`!(10-10)` is 10, and quotients without an end are rounded. In the model, but only in texts with an
error: a blank after a unary operator is taken for the operator, so `- 2` is a syntax error, and a syntax error leaves the previous answer.

### LinuxList

`list.h` pointer by pointer: `lists` has `next` and `prev` of every node and the values of items. The
sorts of `sorting.h` keep heads on their stacks (`LocalHeads`, one pair for each depth), which are
nodes as well, so a link left pointing into a finished call would be seen. One call of a client is one
step, and `listCall` is the last one with its heads, the position of the item and its value, which `TwoLists`
compares: `list_add` has to put the value first, `list_move_tail` to take the very item to the very end, a sort to sort. `list_merge` copies every item it merges and drops the original without freeing it; nothing points to
those, and the model uses them again. A head that was spliced away must be
initialised before it is used (`stale`), as the comment of `list_splice` asks.

### QuickSort

`quicksort_iterative`, one step for each turn of each loop: `beg` and `end` are the two arrays, `level` is
`i`, a node is its position. `main` passes a count it has counted down to -1, so the early return
for `i == count - 1` is never taken. `tr = tr->prev` may never go below the first node, whose `prev` is not
initialised; that holds because the left range keeps its pivot as its end, which `StaysInside` states. `MAX_LEVELS` need only be
as large as the list.

### MCLists

The three sequential list programs share nothing. A behaviour is of one of them (`part`); a product would
only multiply states. The calls recorded in `queueCall` and `listCall` would multiply them too, and no guard
reads them, so `VIEW WithoutCall` identifies states that differ in nothing else. The invariants do not
mention the call, the abstract steps read only the next one, and TLC compares each step it generates with the refinements, those to
states it has seen included. What the view gives up is one case in many: a call that wrongly changes nothing passes for a stutter in a state
that TLC happened to reach by the very same call with the same arguments; from its other states TLC still refutes it.

## 3. Runs

| Run | Instance | States | Shows |
|---|---|---|---|
| `mutex` | 3 threads, forever | 527 | mutual exclusion, no lost wakeup, progress, refinement of the lock |
| `unbuf` | 2 writers, 2 readers, 3 messages, 2 repetitions | 148k | every message once, no dangling pointer, channel left as initialised, termination, refinement of the rendezvous |
| `unbuf_close` | 1 + 1, early close | | **violation**: a served waiter sleeps forever |
| `buf` | 2 writers, 1 reader, 3 messages, 2 slots | 75k | exclusive slots, no credit slept on, termination, refinement of the bounded queue |
| `buf_two_readers` | 1 writer, 2 readers, 2 messages, 2 slots | | **violation**: a reader sleeps with a message in the ring |
| `pool` | 2 workers, 1 task | 41k | futures freed once and by the last user, tasks run at most once, flags, cancellation, wakeup of clients |
| `pool_signal` | 1 worker, 1 task | | **violation**: nobody wakes a worker that waits for tasks |
| `labqueue` | queue of 2 values, 4 elements; lists of 5 items, at most 4 linked, 2 numbers; arrays of 5 values from 4 | 53k | each call does to the queue of strings what it promises, no leak; the lists stay linked both ways and each call does to the lists of numbers what it promises, sorts included; quicksort stays inside its ranges and sorts |
| `labqueue_stale` | 1 value, 3 elements | | **violation**: a freed element becomes the head of the empty queue |
| `console` | 3 scripts of 2, 1 and 1 lines, or 3 lines typed; limit 2 | 438k | order of nested files, nothing after quit, exit status, end of every script |
| `tester` | 2 elements, 2 repetitions, 2 time-outs, levels 1 and 4 | 567k | modes and limits are given back, the alarm finds a region, the accounts of the queue agree, a timed-out command fails, every command ends |
| `devices` | 2 clients, 2 loads, 937 expressions and 8 texts with an error | 1.3M | an unloaded module is unreachable, fib is exclusive, echo and answer belong to a client that nobody overlaps, also after some that did |

Why the bounds are enough. Three threads give the mutex a holder, a sleeper and a
thread between the two; a fourth adds no new label. Two threads a side with three
messages give each channel a thread that waits for its own side, one that waits for
the other, a second use of every futex and, with two slots, a ring that wraps.
Two repetitions show that the channel is left reusable. In the pool one task of the client
and the two that end the workers make a list of up to three, so that both branches of the fetch,
a race for the last task and a task left for `jobqueue_destroy` occur. Four elements make
merge sort recurse twice on both sides.

Two lines in the first script leave a line to return to
after a sourced file, three scripts nest two deep with each file ending with and without a newline,
and an error limit of 2 is reached by two failures or by one under `time`.

In `tester`, a queue of two elements has a first and a last one and an interior link; two
repetitions leave a region in the middle of its loop; two time-outs let the second meet what
the first left behind; `BigQueue` 1 and `FailLimit` 2 are on either side of what a
session reaches; level 4 shows the queue inside and after commands, level 1 does not. In
`labqueue`, four linked items give each splice, cut and merge two items on both sides and the sorts
a second level of recursion; the fifth is the copy of `list_merge`. Five values from four include
every order of a list with and without equal values. In `devices` two clients overlap in every way
the handlers allow; a second load meets what the first left. The cases are every
unary operator and one binary operator of each precedence and grouping on either side of
another, every binary operator modelled, and assignments used afterwards. A case of a text with an error
opens up to four files: one writes the expression, one the bad text, one reads, or two overlap and
a third and a fourth come alone after them.

Deadlock is checked in all passing runs but `pool`, `tester`, `devices` and `labqueue`. The client of the pool and
whoever types commands may stop at any time; processes may die, a kernel may oops, a memory may be full, and
quicksort ends. A finished channel test stutters (`Finished`), so a deadlock there is a real one.

### Fairness

`Mutex`: a thread inside `mutex_lock`, `mutex_unlock` or its critical section keeps
running; nothing obliges an idle thread to ask for the lock. Weak fairness per thread
is what a preemptive scheduler gives. A sleeping thread has no fair action: only a wakeup
makes it run. `ChanUnbuf` and `ChanBuf`: weak fairness per thread and of the main
thread's steps. `ThreadPool`: weak fairness of each worker and of the client while
it is inside a call; whether the client makes another call, or a time limit expires, is not
fair. `Console`: reading a file always goes on; nobody has to type. Spurious wakeups are never assumed.
`QTest`: the tester's own code runs, and a timer that was set ends. The queue code under its
limit has no fairness at all, which is what `CommandReturns` is about; only code that the jump has landed in goes on
(`cut /\ QueueStep`). The devices and the lists need none: they state no liveness.

### Findings

* `unbuf_close`: `chan_close` stores 3 in the futexes; a partner between its exchange and
  its decrement turns it into 2, `CHAN_WAITING`, and does not wake. The waiter
  sleeps again. The comment at `chan.c:31` says the decrement indicates "that data
  exchange is done".
* `buf_two_readers`: two readers found the ring empty, and each consumes one of the credits of the two messages. One of
  them retries and loses the race for the first message to the other: its credit has bought nothing, the message
  that is left has none, and the reader sleeps. The assertion at `main.c:167` is never reached. The call of `test_chan` with 100 readers on a
  buffered channel is commented out (`main.c:199`).
* `pool_signal`: the broadcast on `cond_nonempty` is commented out, so a worker that waits is never
  woken and `tpool_future_get` never returns (`bbp.h:26`).
* `labqueue_stale`: `q_remove_head` does not reset `last` when it frees the only element. `q_reverse`, which should have no
  effect on an empty queue (`queue.h:86`), then makes that freed element the head, while `q_size` is 0 (`queue.h:32`). A
  `q_insert_tail` would link the new element behind the freed one instead.

`ThreadPool` also states two properties that the code violates and no run lists. `SafeDereference`: `tpool_apply` stores `tail` before
`head`, and a worker may find one without the other. `JoinWaitsForPending`: workers take the newest task first, which is the one
`tpool_join` applied to end them, and `jobqueue_destroy` cancels the client's task that is pending, although `bbp.h:21` says `tpool_join`
waits for it. `ChanUnbuf` states
`OkMeansExchanged`, which an early `chan_close` breaks: a call past its closed check that finds
the futex at 3 returns 0 without an exchange.

Not modelled, but met while reading: `apa.h:79` carries already when the low words add up to
exactly 2^64 - 1, and `report.c:81` closes the log file and keeps the pointer.

## 4. Proofs

Each component's proof has an inductive invariant (`IInv`; `QueueIInv` and `ConsoleIInv` where one module
holds the proofs of three components), which TLC checks on the instance of its
component's run before anything is proved: `Init => IInv`, `IInv /\ [Next]_vars => IInv'`, and
one step from `IInv` to each property. Lemmas state how one conjunct survives each action; the
temporal steps are one line.

| Module | Proved for | Theorems |
|---|---|---|
| `MutexProofs` | any set of threads | `TypeOK`, `MutualExclusion`, `NoLostWakeup`; implements `AbstractLock` |
| `TestThreadsProofs` | any numbers of threads and messages | the batches of the threads of one side are disjoint intervals that make up all messages |
| `ChanUnbufProofs` | any numbers of threads, messages and repetitions, `~EarlyClose` | `ChannelInv`, `OkMeansExchanged`, `LeftAsInitialised`, `ExactlyOnce`; implements `Rendezvous` |
| `ChanBufProofs` | any numbers of threads, messages and slots, any `EarlyClose` | `RingInv`, `SlotExclusive`, `ClaimNotStale`, `CursorsWithinCap`; implements `BoundedFifo` |
| `QTestProofs` | queues of any length, any numbers of repetitions and time-outs | `TesterInv`, `ModesReset`, `CountsAgree`, `TimeoutFails` |
| `ThreadPoolProofs` | any numbers of workers and tasks | `PoolInv`, `FuturesFreed`, `ExecutedAtMostOnce`, `FlagsTellOutcome` |
| `SequentialProofs` | queues of any number of elements and values, `AvoidStale` | `QueueInv`, `NoLeak`, `ListHasSizeElements`; implements `StringQueue` |
| | lists of any length and values | `SortTypeOK`, `StaysInside`, `SortsInPlace` |
| | scripts of any number and length that source later scripts, any number of lines typed, any error limit | `ConsoleInv`, `NothingAfterQuit`, `ScriptOrder` |
| `DriverProofs` | any numbers of clients, loads, opens and cases | `TypeOK`, `NothingReachable`, `FibExclusive`, `EchoesOwn`; with `ExpressionsRight`, `ReadsTheAnswer` |

**Mutex.** The invariant is the type, mutual exclusion, `WordTellsHolder` and no lost wakeup.
`MutualExclusion` alone is not inductive: a cas from 0 preserves it only if 0 means that
nobody holds the lock, which is `WordTellsHolder`. That in turn needs mutual exclusion at the store of
`mutex_unlock`, where the only holder leaves. `NoLostWakeup` needs both: the decrement
from 1 must not leave a sleeper behind, and it does not, because with a sleeper and no thread
under way the word is 2. The refinement maps each
cas that takes the lock to `Acquire`, the decrement from 1 and the store to `Release`, and the rest to
stuttering.

**Unbuffered channel.** `datap` is a pointer into another thread's stack; that it does not dangle depends on
where that other thread may be, which no property of the run says. `Ownership` leaves one thread of a side in
the protocol. `Service` says that while a partner copies, clears and decrements, the thread whose cell it uses
is still waiting. `FtxCounts` gives the value of a futex: `NOT_READY`, plus one while a partner owes the
decrement, minus one before the side's own increment, in whatever order the two come. `Exchange` ties the three together: a
thread gets past its futex only when nothing is owed, and by then its data has moved. `CloseAfterJoin`
is the order of `main.c`. The theorems assume `~EarlyClose`, since the run
`unbuf_close` shows that an early close really breaks the channel. For the refinement an exchange is the copy; everything before
is the call waiting, everything after the call returning. `ExactlyOnce` needs a second
invariant (`CountInv`): a message that has left its writer has been counted or is in one reader's hand. The batches of
`TestThreadsProofs` make the writers' messages different ones.

**Buffered channel.** `SlotExclusive` holds although the lap of a slot is loaded at one moment and the cursor compared at
another. The invariant relates lap, cursor and owner: a slot nobody owns has the lap at which one of
the sides claims it next, an owned one still has its owner's (`SlotInv`). Since cursors only move forward, a cursor that is
still what a thread loaded proves that the lap it loaded is the slot's (`ClaimFresh`). From that, a message is in one
place at a time (`MessageInv`), and claims counted per side keep the cursors within the capacity (`CountInv`). `CreditInv` counts credits
and the threads on their way to a sleeper together. The refinement's queue is the slots from
the receivers' to the senders' cursor. The laps are not reduced modulo 2^32 in the model, as section 2 says.

**Thread pool.** `tpool_apply` changes the list without the lock, and the list does break: tasks are lost behind a
head that is gone, and a worker may walk off its end (the process dies, which `SafeDereference` would forbid). That
no task is taken twice is therefore not a property of an intact list. The invariant says what is left of it: along `next` tasks get newer, and no
task is behind two others (`Links`), so the task a worker cuts off is behind no other; a task taken because it was both first
and last is only found from older tasks than every later head (`Queue`); the walk is at a task that nobody has
(`Walking`), and never at the one being added (`NewTask`). `Ends` relates the two stores of an addition to the two of the clearing, in every
order: `store_first` is reached only while `tail` is NULL, when no worker is past its check of `tail` but one that has just cleared it. What `head` and
`tail` lead to is then queued, or the holder of the lock is about to clear it, so a worker has its task for itself
(`TakenOnce`). From that each task's flags and counters follow step by step (`Outcome`): while it is allocated
only its worker runs and finishes it, and the client's destroy leaves the future to whoever frees the task.

**Queue tester.** The alarm may strike between any two stores, so the properties, which speak of the time
between commands, have to be carried through the middle of every command. `TodoInv` says that what the queue code has still to do is the rest of
a plan that is known from the function and the number of steps left; so "what is there plus what is still due"
can be written down for the blocks (`BlocksInv`) and for `qcnt`, `q_size` and the list (`AccountsInv`),
and a jump drops what is due. The other parts say where commands nest (`StackInv`), when a mode is on (`ControlInv`),
when the jump is ready and where it lands (`JumpInv`, `LandInv`), and what a command that was timed out
still knows of it (`CutShows`). The assumption `MaxLen < Modulus` is that a `size_t` can count every list that fits into memory.

**Console.** `interpret_cmd` has one test, of `quit_flag`, between a line and the command list that quit frees, and nothing in the loop
looks at the limit. `Limits` says that the test is enough: while the flag is down nothing has been freed and fewer errors than
the limit the console starts with have been counted. A lowered limit only sets the flag earlier; a command and the `time` before it
can pass the limit by one. `Status` carries
what the quit helper found, as an error counted, from the line that quit to the exit status, and says that `finish_cmd` frees only what
nobody has freed. `Nested` keeps the stack of inputs a descent through later and later scripts.
For `ScriptOrder`, each line of a script stands for itself and, when it sources, for all the lines of another (`Blocks`). A script only
sources later ones, so by recursion over how many come after it there is one sequence of lines each stands for (`Flat`), and what
is due of the open files is the rest of the innermost followed by the rest of the others (`Due`). `Order` says that what has been
executed, followed by what is due, is the flattened main script: a line moves from what is due to what is executed, a `source` replaces the
block of its line by the file it opens, and the end of a file removes nothing. Only `quit`, or too many errors, leaves something due. This holds also for a last line without a
newline, whose file is closed before the line is interpreted.

**Quicksort.** A partition keeps its pivot outside the list, so the list alone has lost a value. The invariant
speaks of the list with the pivot put back into the hole (`Whole`): every step
leaves it alone or exchanges two of its values, which keeps how often each value occurs (the exchange is a bijection between
the nodes that have it). The ranges on the arrays follow one another, each but the last ends with a value in
its place, and what is behind the last is sorted. The end of a range is therefore
at least as large as all of it: `tr` leaves it before a partition can end there, the right half is never empty unless it starts behind the tail,
and the number of ranges is at most the number of nodes, which is why
the arrays suffice.

**Lab queue.** The model's `head` and `next` are pointers, the properties and `StringQueue` speak of sequences. `QueueIInv` says that
there is a sequence `s` of elements without repetition that the links spell out (`ListIs`), that it is exactly what is allocated, that `q_size`
is its length and `last` its last element unless it is empty (`Holds`). Each call is then shown to make a
known sequence of `s`: the element in front, the tail, the reversal, the sorted one, and with it the step of `StringQueue` of the same
name. `AvoidStale` is a hypothesis of every
theorem, because `labqueue_stale` shows that a caller that uses the stale `last` breaks the list.

The sort is recursive: `merge` and `mergeSort` are recursive functions on sequences, and what they
compute for every list needs induction over the lists. The library's induction rules take an operator as
a parameter, which the provers cannot instantiate, so the proof goes through sets. `RecursionDefines` is about any body, as a
function on functions, whose calls are on arguments that are smaller in a measure: it has a fixed point, by the well-foundedness of `<` on `Nat`. So `merge` and
`mergeSort` satisfy their equations. Where something about a recursion is wrong there is an argument with
the least measure where it is (`FirstBad`), and the equation refutes it there. That gives `Merges` and `Sorts`: the result has
the elements of the arguments, each once, in ascending order.

**Drivers.** Loading keeps `registered` within what the calls made so far have registered, in order, so
that a failure at any call undoes what leads back into the module (`Begun`); the two leaks that remain are memory and a region.
`FibInv` ties the lock of `fib_open` to the one open file, and to the module, which the file's owner keeps loaded. For echo and the
calculator `Sole` says that without an overlap one file at most is open; `EchoInv` follows that file from half to half of the message. `overlap` ends when the last file is closed, so `EchoInv` has to hold again for the next
one from nothing but its own steps. `CalcInv` says what a file that opens finds, whoever was there before (`Settled`): the result of the last expression, and a message that is empty
exactly if nothing or an empty text was written last, each as far as it is known after an overlap. `CalcPlace` says where the read pointer of a file that is alone
is: at the start when it opens, and at the end of the answer it has read. `ReadsTheAnswer` is proved from `ExpressionsRight`: each
expression in `Cases` is evaluated to what stands for its value, and the text with an error is refused. The code does not do that for all
expressions (section 2); for those of `MCDevices` TLC evaluates it.

The proof found two places where the model said less than it seemed to: in `AtEnd` of `DeviceFiles` and twice in the
expressions the arms of a `CASE` overlapped. TLC takes the first arm that is true, but
TLA+ leaves open which; they are nested conditions or disjoint arms now.

**Only model-checked.** Liveness and everything under fairness (`DeadlockFree`, `Termination`, `GetReturns`,
`CommandReturns`, the ends of scripts), which is out of the proof system's reach. The evaluation of expressions and the sorts of
`sorting.h` (`WellLinked`, `ImplementsLists`): their operators are declared `RECURSIVE`, and the
provers cannot see into modules that declare them. Of the pool,
that a task is executed at all cannot be promised: `pool_signal` shows a worker that sleeps for ever.

## 5. Not modelled

Memory order: all models are sequentially consistent, also for the accesses marked
`memory_order_relaxed`. Time stamps in `main.c` and formatting everywhere.
Allocation failures of `tpool_apply`; the pi program, whose tasks are floating point. Scripts that source
themselves or each other, which push files until descriptors run out, or for ever when the last line has no
newline. Completion, history and log files of the console; simulation mode and the syntax of arguments in
`qtest.c`; the contents of blocks and their magic numbers in `harness.c`. Macros, functions, the bitwise operators and `>>`
of the calculator (`8>>3` is not 1, and `|` is masked). The recursive quicksort of quiz1, whose
call is commented out.

`xs.h`: a copy of a large string shares its buffer at an offset, is not marked large, and is freed or
written as if it were its own. No client that frees or writes a copy keeps any promise of the
header, so a model would have nothing to check. `apa.h` is straight-line arithmetic. `report.c` counts and prints; no
modelled decision reads what it keeps. `dudect`, `linenoise.c`, the ASLR samples, scripts and plots.

## 6. Plan

Written in this order: `Mutex` with its proofs, the two channels, the pool, the queue, the console,
then the tester on its harness, the drivers with the expressions, and the lists and sorts; then the proofs about both channels,
the tester, quicksort, the pool, the console, the drivers and the queue. What would come next:

* `LinuxList` with recursive functions instead of `RECURSIVE` operators, and its `WellLinked` and `ImplementsLists` by the
  argument of the queue's sort.
* `Expression` likewise, so that `ExpressionsRight` can be proved for expressions of one shape at a time.
