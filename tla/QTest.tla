-------------------------------- MODULE QTest --------------------------------
(***************************************************************************)
(* The commands of qtest.c, run one after another under the harness, on a  *)
(* queue of which only the lengths are kept.  The queue code may run for   *)
(* ever: the alarm of exception_setup is what ends it.                     *)
(*                                                                         *)
(* exception_setup calls sigsetjmp and returns, so a jump goes to a frame  *)
(* that is gone.  What the build (gcc -O1, qtest's Makefile) produces: the *)
(* return address of that frame lies where every later call of the same    *)
(* function left its own, so the jump returns 0 from the last call the     *)
(* command made, or from exception_setup if there was none.  Locals have   *)
(* the values they had at the setup or later ones.                         *)
(***************************************************************************)
EXTENDS Harness, SequencesExt

CONSTANTS
  MaxLen,        \* bound: elements in the queue
  MaxReps,       \* bound: repetitions a command asks for
  MaxCuts,       \* bound: a session ends after this many time-outs
  BigQueue,      \* big_queue_size
  FailLimit,     \* fail_limit
  Modulus,       \* qcnt is a size_t: 2^64 there, small here, but no queue is longer
  VerbLevels     \* the values of -v considered

ASSUME QTestAssumption ==
  /\ {MaxLen, MaxReps, MaxCuts, FailLimit, Modulus} \subseteq Nat \ {0}
  /\ BigQueue \in Nat /\ MaxLen < Modulus
  /\ VerbLevels \subseteq Nat

VARIABLES
  q, len, qSize,  \* the queue: not NULL, elements reachable from head, q_size
  broken,         \* a time-out left last somewhere else
  stack,          \* functions of qtest.c being run, innermost first
  pc,             \* where the innermost one is
  reps, rep,      \* repetitions asked for, r
  ok, rval,       \* the locals of that name
  lastCall,       \* the last call made since exception_setup
  todo,           \* what the running call of queue.c has still to do
  qcnt, failCount, verblevel,
  status,         \* of the process
  cut,            \* this command was timed out
  cuts,           \* time-outs so far
  noBuffer,       \* do_remove_head returned early, out of its region
  result          \* of the last command

queueVars == <<q, len, qSize, broken>>
callVars == <<stack, pc, reps, rep, ok, rval, lastCall, todo>>
sessionVars == <<qcnt, failCount, verblevel, status, cut, cuts, noBuffer, result>>
vars == <<heapVars, modeVars, errorOccurred, jumpVars, queueVars, callVars,
          sessionVars>>

Inserts == {"ih", "it"}
Repeats == Inserts \cup {"rh", "size"}
Commands == Repeats \cup {"new", "free", "rhq", "reverse", "sort", "show", "quit"}
fn == Head(stack)

TypeOK ==
  /\ HarnessTypeOK
  /\ {q, broken, ok, rval, cut, noBuffer} \subseteq BOOLEAN
  /\ len \in 0..(MaxLen + MaxReps) /\ qSize \in Int /\ qcnt \in 0..(Modulus - 1)
  /\ Range(stack) \subseteq Commands /\ Len(stack) <= 3
  /\ pc \in {"idle", "setup", "arm", "limit", "region", "call", "check",
             "cancel", "clear", "after", "return"}
  /\ reps \in 1..MaxReps /\ rep \in 0..MaxReps
  /\ lastCall \in {"none", "queue", "other"}
  /\ failCount \in 0..FailLimit /\ verblevel \in VerbLevels
  /\ status \in {"running", "finished", "aborted", "exited", "lost"}

NoResult == [command |-> "none", ok |-> TRUE, cut |-> FALSE]

Init ==
  /\ HarnessInit
  /\ q = FALSE /\ len = 0 /\ qSize = 0 /\ broken = FALSE
  /\ stack = <<>> /\ pc = "idle" /\ reps = 1 /\ rep = 0
  /\ ok = TRUE /\ rval = FALSE /\ lastCall = "none" /\ todo = <<>>
  /\ qcnt = 0 /\ failCount = 0 /\ verblevel \in VerbLevels
  /\ status = "running" /\ cut = FALSE /\ cuts = 0 /\ noBuffer = FALSE
  /\ result = NoResult

(* A function from its entry to its call of exception_setup.               *)
Enter(frames) ==
  LET f == Head(frames) IN
  /\ stack' = frames /\ pc' = "setup"
  /\ IF f \in {"show", "quit"} THEN UNCHANGED errorOccurred ELSE error_check
  /\ noallocate' = (noallocate \/ f \in {"reverse", "sort"})
  /\ cautious' = (cautious /\ ~(f \in {"free", "quit"} /\ qcnt > BigQueue))

(* show_queue prints nothing below its level and has nothing to walk when  *)
(* there is no queue.                                                      *)
Shows(level, queue) == verblevel >= level /\ queue

do_show == /\ ~Shows(0, q)
           /\ stack' = <<"show">> /\ pc' = "return"
           /\ UNCHANGED <<errorOccurred, modeVars>>

do_new == \/ q /\ Enter(<<"free", "new">>)
          \/ ~q /\ Enter(<<"new">>)

(* The console calls a command.  The tail of a queue emptied by rh is      *)
(* stale (LabQueue shows what happens then), and so is one left by a       *)
(* time-out: the commands that follow the tail are not given then.         *)
Start(c, n) ==
  /\ pc = "idle" /\ status = "running"
  /\ ~torn /\ ~noBuffer /\ cuts < MaxCuts
  /\ c \in Inserts => len + n <= MaxLen
  /\ c \in {"it", "reverse"} => len > 0 /\ ~broken
  /\ c \notin Repeats => n = 1
  /\ CASE c = "new" -> do_new
       [] c = "show" /\ ~Shows(0, q) -> do_show
       [] OTHER -> Enter(<<c>>)
  /\ reps' = n /\ cut' = FALSE
  /\ result' = NoResult
  /\ UNCHANGED <<heapVars, jumpVars, queueVars, rep, ok, rval, lastCall, todo, qcnt,
                 failCount, verblevel, status, cuts, noBuffer>>

(* exception_setup                                                         *)
Goto(from, to) == pc = from /\ pc' = to /\ status = "running"

exception_setup ==
  /\ \/ Goto("setup", "arm") /\ SetReady
     \/ Goto("arm", "limit") /\ StartAlarm
     \/ Goto("limit", "region") /\ SetLimited
  /\ lastCall' = "none"
  /\ UNCHANGED <<heapVars, modeVars, errorOccurred, queueVars, stack, reps, rep,
                 ok, rval, todo, sessionVars>>

\* mutant: the jump is given up before the alarm is stopped
CancelReadyFirst ==
  /\ \/ Goto("cancel", "clear") /\ ClearReady
     \/ Goto("clear", "after") /\ StopAlarm
  /\ UNCHANGED <<heapVars, modeVars, errorOccurred, queueVars, stack, reps, rep,
                 ok, rval, lastCall, todo, sessionVars>>

(* exception_cancel                                                        *)
exception_cancel ==
  /\ \/ Goto("cancel", "clear") /\ StopAlarm
     \/ Goto("clear", "after") /\ ClearReady
  /\ UNCHANGED <<heapVars, modeVars, errorOccurred, queueVars, stack, reps, rep,
                 ok, rval, lastCall, todo, sessionVars>>

-----------------------------------------------------------------------------
(* The protected region: one call of the queue code, or reps of them.      *)

Looping == fn \in Repeats => ok /\ rep < reps

AllocateValue == test_malloc \o <<"link", "grow">>

Pending(f) ==
  CASE f = "new" -> test_malloc
    [] f \in {"free", "quit"} /\ q ->
         [i \in 1..(3 * (2 * len + 1)) |-> test_free[((i - 1) % 3) + 1]]
    [] f \in Inserts /\ q -> test_malloc \o AllocateValue
    [] f \in {"rh", "rhq"} /\ q /\ len > 0 ->
         <<"unlink", "shrink">> \o test_free \o test_free
    [] f \in {"reverse", "sort"} /\ q /\ len > 0 -> <<"relink">>
    [] OTHER -> <<>>

Call ==
  /\ Goto("region", "call") /\ fn # "show" /\ Looping
  /\ lastCall' = "queue"
  /\ todo' = Pending(fn)
  /\ rval' = CASE fn \in Inserts -> q
               [] fn \in {"rh", "rhq"} -> q /\ len > 0
               [] OTHER -> TRUE
  /\ UNCHANGED <<heapVars, modeVars, errorOccurred, jumpVars, queueVars, stack,
                 reps, rep, ok, sessionVars>>

LoopEnds ==
  /\ Goto("region", "cancel") /\ fn # "show" /\ ~Looping
  /\ UNCHANGED <<heapVars, modeVars, errorOccurred, jumpVars, queueVars, stack,
                 reps, rep, ok, rval, lastCall, todo, sessionVars>>

(* No memory for the strings to compare: do_remove_head returns from       *)
(* inside its region, without exception_cancel.                            *)
RemoveHeadNoBuffer ==
  /\ Goto("region", "idle") /\ fn = "rh" /\ Looping
  /\ stack' = <<>> /\ noBuffer' = TRUE
  /\ result' = [command |-> "rh", ok |-> FALSE, cut |-> cut]
  /\ UNCHANGED <<heapVars, modeVars, errorOccurred, jumpVars, queueVars, reps,
                 rep, ok, rval, lastCall, todo, qcnt, failCount, verblevel,
                 status, cut, cuts>>

(* The queue code, store by store.                                         *)
Stores == Range(test_malloc) \cup Range(test_free)

InQueueCode(s) == pc = "call" /\ status = "running" /\ todo # <<>> /\ Head(todo) \in s

\* mutant: an insertion whose string cannot be copied keeps its element
MallocFailsLeaks ==
  /\ InQueueCode({"prev"}) /\ MallocMayFail /\ ~noallocate
  /\ rval' = FALSE /\ todo' = <<>>
  /\ UNCHANGED <<heapVars, modeVars, errorOccurred, jumpVars, queueVars, stack,
                 pc, reps, rep, ok, lastCall, sessionVars>>

MallocFails ==
  /\ InQueueCode({"prev"}) /\ MallocMayFail /\ ~noallocate
  /\ rval' = FALSE
  /\ todo' = IF todo = AllocateValue THEN test_free ELSE <<>>
  /\ UNCHANGED <<heapVars, modeVars, errorOccurred, jumpVars, queueVars, stack,
                 pc, reps, rep, ok, lastCall, sessionVars>>

HeapStep ==
  /\ InQueueCode(Stores)
  /\ Store(Head(todo)) /\ todo' = Tail(todo)
  /\ status' = IF noallocate THEN "exited" ELSE status
  /\ UNCHANGED <<modeVars, errorOccurred, jumpVars, queueVars, stack, pc, reps,
                 rep, ok, rval, lastCall, qcnt, failCount, verblevel, cut, cuts,
                 noBuffer, result>>

ListStep ==
  /\ InQueueCode({"link", "grow", "unlink", "shrink", "relink"})
  /\ todo' = Tail(todo)
  /\ len' = CASE Head(todo) = "link" -> len + 1
              [] Head(todo) = "unlink" -> len - 1
              [] OTHER -> len
  /\ qSize' = CASE Head(todo) = "grow" -> qSize + 1
                [] Head(todo) = "shrink" -> qSize - 1
                [] OTHER -> qSize
  /\ broken' = (broken /\ ~(fn = "sort"))
  /\ UNCHANGED <<heapVars, modeVars, errorOccurred, jumpVars, q, stack, pc, reps,
                 rep, ok, rval, lastCall, sessionVars>>

(* What the command makes of the value returned.                           *)
Returned == pc = "call" /\ todo = <<>> /\ status = "running"

CountFailure == failCount' = IF rval \/ failCount = FailLimit THEN failCount
                                                             ELSE failCount + 1

CountInsertion ==
  /\ Returned /\ fn \in Inserts /\ pc' = "check"
  /\ qcnt' = (qcnt + IF rval THEN 1 ELSE 0) % Modulus
  /\ CountFailure
  /\ ok' = (rval \/ failCount' < FailLimit)
  /\ UNCHANGED <<errorOccurred, modeVars, q, stack, lastCall>>

(* The removed value is compared when reps is 1; then show_queue is called *)
(* inside the region.                                                      *)
CountRemoval ==
  /\ Returned /\ fn = "rh"
  /\ qcnt' = (qcnt - IF rval THEN 1 ELSE 0) % Modulus
  /\ CountFailure
  /\ ok' \in IF rval THEN {TRUE, reps > 1} ELSE {FALSE}
  /\ lastCall' = "other"
  /\ IF Shows(3, q) THEN Enter(<<"show">> \o stack)
     ELSE pc' = "check" /\ UNCHANGED <<errorOccurred, modeVars, stack>>
  /\ UNCHANGED q

KeepValue ==
  /\ Returned /\ fn \notin Inserts \cup {"rh"}
  /\ pc' = IF fn = "size" THEN "check" ELSE "cancel"
  /\ q' = IF fn = "new" THEN rval ELSE q
  /\ UNCHANGED <<errorOccurred, modeVars, stack, ok, lastCall, qcnt, failCount>>

AfterCall ==
  /\ CountInsertion \/ CountRemoval \/ KeepValue
  /\ UNCHANGED <<heapVars, jumpVars, len, qSize, broken, reps, rep, rval, todo,
                 verblevel, status, cut, cuts, noBuffer, result>>

(* The end of one repetition: ok = ok && !error_check(), but not in rh.    *)
Check ==
  /\ Goto("check", "region")
  /\ rep' = rep + 1 /\ lastCall' = "other"
  /\ IF fn = "rh" THEN UNCHANGED <<ok, errorOccurred>>
     ELSE /\ ok' = (ok /\ ~errorOccurred)
          /\ errorOccurred' = (errorOccurred /\ ~ok)
  /\ UNCHANGED <<heapVars, modeVars, jumpVars, queueVars, stack, reps, rval, todo,
                 sessionVars>>

(* The loop of show_queue, which asks error_check at every element.        *)
ShowLoop ==
  /\ Goto("region", "cancel") /\ fn = "show"
  /\ LET walks == len > 0 /\ qcnt > 0 IN
     /\ ok' = IF Len(stack) > 1 THEN ok
              ELSE len <= qcnt /\ ~(walks /\ errorOccurred)
     /\ errorOccurred' = (errorOccurred /\ ~walks)
  /\ lastCall' = "other"
  /\ UNCHANGED <<heapVars, modeVars, jumpVars, queueVars, stack, reps, rep, rval,
                 todo, sessionVars>>

-----------------------------------------------------------------------------
(* From exception_cancel to the return of the function.                    *)

ShowAndReturn(queue) ==
  IF Shows(3, queue) THEN Enter(<<"show">> \o stack)
  ELSE pc' = "return" /\ UNCHANGED <<errorOccurred, modeVars, stack>>

AfterFree ==
  /\ fn \in {"free", "quit"} /\ pc' = "return"
  /\ cautious' = TRUE
  /\ IF fn = "quit" THEN UNCHANGED <<queueVars, qcnt>>
     ELSE /\ q' = FALSE /\ len' = 0 /\ qSize' = 0 /\ broken' = FALSE
          /\ qcnt' = 0
  /\ UNCHANGED <<errorOccurred, noallocate, stack, ok, failCount>>

\* mutant: a reversal that was timed out skips the reset of the mode
AfterRelinkUnlessCut ==
  /\ fn \in {"reverse", "sort"}
  /\ noallocate' = (noallocate /\ cut)
  /\ IF Shows(3, q) THEN stack' = <<"show">> \o stack /\ pc' = "setup"
     ELSE pc' = "return" /\ UNCHANGED stack
  /\ UNCHANGED <<errorOccurred, cautious, queueVars, ok, qcnt, failCount>>

AfterRelink ==
  /\ fn \in {"reverse", "sort"}
  /\ noallocate' = FALSE
  /\ IF Shows(3, q) THEN stack' = <<"show">> \o stack /\ pc' = "setup"
     ELSE pc' = "return" /\ UNCHANGED stack
  /\ UNCHANGED <<errorOccurred, cautious, queueVars, ok, qcnt, failCount>>

AfterQuiet ==
  /\ fn = "rhq"
  /\ qcnt' = (qcnt - IF rval THEN 1 ELSE 0) % Modulus
  /\ CountFailure
  /\ ok' = (rval \/ failCount' < FailLimit)
  /\ ShowAndReturn(q)
  /\ UNCHANGED queueVars

(* cnt is q_size's answer, or whatever a time-out left in it.              *)
AfterSize ==
  /\ fn = "size"
  /\ ok' \in IF cut THEN {FALSE, ok} ELSE {ok /\ qcnt = qSize}
  /\ ShowAndReturn(q)
  /\ UNCHANGED <<queueVars, qcnt, failCount>>

AfterRest ==
  /\ fn \in Inserts \cup {"new", "rh", "show"}
  /\ qcnt' = IF fn = "new" THEN 0 ELSE qcnt
  /\ IF fn \in {"rh", "show"}
     THEN pc' = "return" /\ UNCHANGED <<errorOccurred, modeVars, stack>>
     ELSE ShowAndReturn(q)
  /\ UNCHANGED <<queueVars, ok, failCount>>

After ==
  /\ pc = "after" /\ status = "running"
  /\ AfterFree \/ AfterRelink \/ AfterQuiet \/ AfterSize \/ AfterRest
  /\ UNCHANGED <<heapVars, jumpVars, reps, rep, rval, lastCall, todo, verblevel,
                 status, cut, cuts, noBuffer, result>>

(* allocation_check                                                        *)
NoBlocks == allocatedCount = 0

\* mutant: rhq returns without asking error_check, as the insertions do
ValueQuiet == CASE fn \in Inserts \cup {"show", "rhq"} -> ok
                [] fn = "quit" -> NoBlocks
                [] fn = "free" -> ok /\ NoBlocks /\ ~errorOccurred
                [] fn = "reverse" -> ~errorOccurred
                [] OTHER -> ok /\ ~errorOccurred

(* The value of the function, and whether it evaluates error_check.        *)
Value == CASE fn \in Inserts \cup {"show"} -> ok
           [] fn = "quit" -> NoBlocks
           [] fn = "free" -> ok /\ NoBlocks /\ ~errorOccurred
           [] fn = "reverse" -> ~errorOccurred
           [] OTHER -> ok /\ ~errorOccurred

AsksErrors == CASE fn \in Inserts \cup {"show", "quit"} -> FALSE
                [] fn = "free" -> ok /\ NoBlocks
                [] fn = "reverse" -> TRUE
                [] OTHER -> ok

ReturnToCommand ==
  /\ Goto("return", IF stack[2] = "rh" THEN "check" ELSE "return")
  /\ fn = "show"
  /\ stack' = Tail(stack)
  /\ lastCall' = "other"
  /\ UNCHANGED <<errorOccurred, modeVars, reps, rep, ok, rval, status, result>>

ReturnToNew ==
  /\ pc = "return" /\ fn = "free" /\ status = "running"
  /\ Enter(Tail(stack))
  /\ ok' = Value /\ rval' = FALSE
  /\ UNCHANGED <<reps, rep, lastCall, status, result>>

ReturnToConsole ==
  /\ Goto("return", "idle")
  /\ stack' = <<>>
  /\ errorOccurred' = (errorOccurred /\ ~AsksErrors)
  /\ result' = [command |-> fn, ok |-> Value, cut |-> cut]
  /\ status' = IF fn = "quit" THEN "finished" ELSE status
  /\ reps' = 1 /\ rep' = 0 /\ ok' = TRUE /\ rval' = FALSE /\ lastCall' = "none"
  /\ UNCHANGED modeVars

Return ==
  /\ IF Len(stack) > 1 THEN ReturnToCommand \/ ReturnToNew ELSE ReturnToConsole
  /\ UNCHANGED <<heapVars, jumpVars, queueVars, todo, qcnt, failCount, verblevel,
                 cut, cuts, noBuffer>>

-----------------------------------------------------------------------------
(* sigalrmhandler.  Where the jump lands is explained above; the buffers   *)
(* of rh are then whatever their registers held, and freeing them may end  *)
(* the program (sigsegvhandler aborts).                                    *)

Lands ==
  \/ /\ lastCall = "none" /\ pc' = "cancel"
     /\ UNCHANGED <<rep, ok, rval, todo>>
  \/ /\ lastCall = "queue" /\ pc' = "call"
     /\ todo' = <<>> /\ rval' = FALSE
     /\ UNCHANGED <<rep, ok>>
  \/ /\ lastCall = "other" /\ fn # "show" /\ pc' = "region"
     /\ ok' \in {TRUE, ok} /\ rep' \in 0..reps
     /\ UNCHANGED <<rval, todo>>
  \/ /\ lastCall = "other" /\ fn = "show" /\ pc' \in {"region", "cancel"}
     /\ UNCHANGED <<rep, ok, rval, todo>>
  \/ /\ pc = "cancel" /\ pc' = "after"
     /\ UNCHANGED <<rep, ok, rval, todo>>

(* What the queue code leaves behind.                                      *)
CutShort ==
  IF todo = <<>> THEN UNCHANGED <<torn, len, broken>>
  ELSE /\ torn' = (torn \/ HalfLinked(Head(todo)))
       /\ len' \in IF Head(todo) = "relink" THEN 1..len ELSE {len}
       /\ broken' = (\/ broken \/ Head(todo) = "relink"
                     \/ Head(todo) = "grow" /\ fn = "it")

sigalrmhandler ==
  /\ alarm /\ status = "running"
  /\ cuts' = cuts + 1 /\ cut' = TRUE
  /\ \/ /\ jmpReady /\ pc # "idle"
        /\ JumpBack /\ Lands /\ CutShort
        /\ status' \in {"running"} \cup IF fn = "rh" THEN {"aborted"} ELSE {}
     \/ /\ pc = "idle" \/ ~jmpReady
        /\ alarm' = FALSE
        /\ status' = IF jmpReady THEN "lost" ELSE "exited"
        /\ UNCHANGED <<errorOccurred, jmpReady, timeLimited, torn, len, broken,
                       pc, rep, ok, rval, todo>>
  /\ UNCHANGED <<allocated, allocatedCount, modeVars, q, qSize, stack, reps,
                 lastCall, qcnt, failCount, verblevel, noBuffer, result>>

TesterStep == \/ exception_setup \/ exception_cancel \/ Call \/ LoopEnds
              \/ AfterCall \/ Check \/ ShowLoop \/ After \/ Return
QueueStep == MallocFails \/ HeapStep \/ ListStep

Next == \/ \E c \in Commands, n \in 1..MaxReps : Start(c, n)
        \/ TesterStep
        \/ RemoveHeadNoBuffer
        \/ QueueStep
        \/ sigalrmhandler

(* qtest.c runs, and the timer ends.  Nothing is assumed of the queue code *)
(* under its time limit: it may never take another step.  Code a jump has  *)
(* landed in is the repository's own, which returns.                       *)
Fairness == /\ WF_vars(TesterStep)
            /\ WF_vars(sigalrmhandler)
            /\ WF_vars(cut /\ QueueStep)

Spec == Init /\ [][Next]_vars /\ Fairness

-----------------------------------------------------------------------------
(* Properties *)

(* Every command leaves the modes and the exception state as it found      *)
(* them, wherever the alarm cut it short.  Not after the early returns of  *)
(* do_remove_head (qtest.c 356 and 365).                                   *)
ModesReset ==
  pc = "idle" /\ status = "running" /\ ~noBuffer =>
    cautious /\ ~noallocate /\ ~jmpReady /\ ~timeLimited /\ ~alarm

(* The alarm always finds a region to jump out of: the tester is ended     *)
(* neither by trigger_exception's exit nor by an allocation that a mode    *)
(* left on forbids, and no jump goes to a command that has returned.       *)
AlarmFindsRegion ==
  status # "exited" /\ (status = "lost" => noBuffer)

(* What holds at every point the alarm may strike (qtest.c:349-431,        *)
(* harness.c:227-291).                                                     *)
TesterInv == TypeOK /\ AlarmFindsRegion

(* Between commands the tester's three accounts of the queue agree with    *)
(* it: the list of blocks and its count, qcnt, and q_size.  Time-outs      *)
(* leave blocks behind, but the count never falls below the blocks in use, *)
(* so it cannot wrap when they are freed.                                  *)
Owned == IF q THEN 1 + 2 * len ELSE 0

CountsAgree ==
  pc = "idle" /\ status = "running" =>
    /\ allocatedCount >= Owned /\ allocated >= allocatedCount - cuts
    /\ cuts = 0 => /\ {allocated, allocatedCount} = {Owned}
                   /\ qcnt = len
                   /\ q => qSize = len

(* Below verbosity 3, where the command does not show the queue, a command *)
(* that was timed out fails (insertions do not ask error_check after their *)
(* loop, show prints what it can).  From 3 on show_queue asks error_check  *)
(* first and the command returns true.                                     *)
TimeoutFails ==
  result.cut /\ verblevel < 3 /\ result.command \notin Inserts \cup {"show", "quit"}
    => ~result.ok

(* Every command ends, even if the queue code it calls never returns; but  *)
(* for rh with a count, whose show_queue cancels the limit after the first *)
(* repetition.                                                             *)
LimitCancelled == Contains(stack, "rh") /\ reps > 1 /\ verblevel >= 3

CommandReturns ==
  pc # "idle" /\ ~LimitCancelled ~> pc = "idle" \/ status # "running"
=============================================================================
