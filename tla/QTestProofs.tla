------------------------------ MODULE QTestProofs ------------------------------
(***************************************************************************)
(* The queue tester for queues of any length, any number of repetitions    *)
(* and any number of time-outs, wherever the alarm strikes.                *)
(*                                                                         *)
(* The argument: the commands nest at most once (StackInv), a mode is on   *)
(* only inside the command that set it (ControlInv), and the alarm can     *)
(* strike only where the jump is ready, with a place to land (JumpInv,     *)
(* LandInv).  While the queue code runs, what it has still to do is the    *)
(* rest of a plan known from the function and the number of steps left     *)
(* (TodoInv), so what is there and what is still due can be added up: for  *)
(* the blocks and their count (BlocksInv), and for qcnt, q_size and the    *)
(* list (AccountsInv).  A jump drops what is due; a block is linked before *)
(* it is counted and taken off the list before it is uncounted, so the     *)
(* count stays above the blocks in use, and the list falls behind the      *)
(* count by one block per time-out at most.                                *)
(* CutShows is what a command that was timed out still knows of it.        *)
(***************************************************************************)
EXTENDS QTest, SequenceTheorems, TLAPS

-----------------------------------------------------------------------------
(* Where the tester is *)

Depth == Len(stack)
Frees == {"free", "quit"}

\* Only do_new calls another command, and whatever shows the queue.
StackInv ==
  /\ stack \in Seq(Commands) /\ Depth \in 0 .. 2
  /\ (pc = "idle") <=> (Depth = 0)
  /\ Depth = 2 => \/ fn = "free" /\ stack[2] = "new"
                  \/ fn = "show" /\ stack[2] \notin {"show", "free", "quit"}

\* A mode is on inside the command that turned it on, up to exception_cancel.
ControlInv ==
  /\ noallocate => pc \notin {"idle", "return"} /\ fn \in {"reverse", "sort"}
  /\ ~cautious => pc \notin {"idle", "return"} /\ fn \in Frees
  /\ status = "running" /\ pc = "idle" /\ ~noBuffer => rep = 0
  /\ noBuffer => pc = "idle"

\* The loop of a repeated command is entered with a repetition left.
LoopInv ==
  /\ rep <= reps
  /\ pc \in {"call", "check"} /\ fn \in Repeats => rep < reps
  /\ Depth = 2 /\ stack[2] = "rh" => rep < reps

\* The jump, the limit and the alarm, while exception_setup and
\* exception_cancel change them one by one.
JumpInv ==
  status = "running" =>
    /\ pc = "setup" => jmpReady = alarm /\ timeLimited = alarm
    /\ pc = "arm" => jmpReady /\ timeLimited = alarm
    /\ pc = "limit" => jmpReady /\ alarm
    /\ pc \in {"region", "call", "check", "cancel"} => jmpReady = alarm /\ timeLimited = alarm
    /\ pc = "clear" => ~alarm /\ ~timeLimited
    /\ pc \in {"after", "return"} => ~jmpReady /\ ~timeLimited /\ ~alarm
    /\ pc = "idle" => (alarm => jmpReady) /\ (~noBuffer => ~jmpReady /\ ~timeLimited /\ ~alarm)

\* Where a jump can land.
LandInv ==
  status = "running" =>
    /\ todo # <<>> => pc = "call" /\ lastCall = "queue"
    /\ pc \in {"arm", "limit"} => lastCall = "none"
    /\ pc = "call" => fn # "show" /\ lastCall = "queue"
    /\ pc = "check" => fn \in Repeats
    /\ pc # "idle" /\ alarm =>
         /\ fn = "show" => lastCall # "queue"
         /\ pc = "setup" => fn = "show" /\ lastCall = "other"
         /\ lastCall = "other" => fn \in Repeats \cup {"show"}
         /\ lastCall = "queue" /\ fn \in Repeats => pc \in {"call", "check"}

-----------------------------------------------------------------------------
(* What the running call of queue.c has still to do *)

StepNames == {"prev", "first", "counted", "next", "back", "uncounted",
              "link", "grow", "unlink", "shrink", "relink"}

Left == Len(todo)

\* The steps still to come, the last one first.
NewPlan == <<"counted", "first", "prev">>
InsertPlan == <<"grow", "link", "counted", "first", "prev", "counted", "first", "prev">>
RemovePlan == <<"uncounted", "back", "next", "uncounted", "back", "next", "shrink", "unlink">>
RelinkPlan == <<"relink">>
FreePlan == [j \in Nat \ {0} |-> IF j % 3 = 1 THEN "uncounted" ELSE IF j % 3 = 2 THEN "back" ELSE "next"]

Follows(plan) == \A i \in 1 .. Left : todo[i] = plan[Left - i + 1]

Removes == {"rh", "rhq"}

TodoInv ==
  status = "running" /\ pc = "call" =>
    /\ todo \in Seq(StepNames)
    /\ fn = "new" => Left <= 3 /\ Follows(NewPlan) /\ (Left > 0 => rval)
    /\ fn \in Inserts /\ rval => q /\ Left <= 8 /\ Follows(InsertPlan)
    /\ fn \in Inserts /\ ~rval => Left <= 3 /\ Follows(FreePlan)
    /\ fn \in Removes => Left <= 8 /\ Follows(RemovePlan) /\ (Left > 0 => rval /\ q)
                         /\ (Left = 8 => len > 0)
    /\ fn \in Frees => Follows(FreePlan) /\ (Left > 0 => q)
    /\ fn \in {"reverse", "sort"} => Left <= 1 /\ Follows(RelinkPlan) /\ (Left > 0 => q)
    /\ fn = "size" => Left = 0

-----------------------------------------------------------------------------
(* The blocks *)

One(b) == IF b THEN 1 ELSE 0

\* What the running call will still add to the count and to the list.
CountDue ==
  IF pc # "call" THEN 0
  ELSE CASE fn \in Inserts /\ rval -> One(Left > 2) + One(Left > 5)
         [] fn \in Inserts /\ ~rval -> -One(Left > 0)
         [] fn = "new" -> One(Left > 0)
         [] fn \in Removes -> -(One(Left > 0) + One(Left > 3))
         [] fn \in Frees -> -((Left + 2) \div 3)
         [] OTHER -> 0

ListDue ==
  IF pc # "call" THEN 0
  ELSE CASE fn \in Inserts /\ rval -> One(Left > 3) + One(Left > 6)
         [] fn \in Inserts /\ ~rval -> -One(Left > 2)
         [] fn = "new" -> One(Left > 1)
         [] fn \in Removes -> -(One(Left > 2) + One(Left > 5))
         [] fn \in Frees -> -(Left \div 3)
         [] OTHER -> 0

LinkDue ==
  IF pc # "call" THEN 0
  ELSE CASE fn \in Inserts /\ rval -> One(Left > 1)
         [] fn \in Removes -> -One(Left > 7)
         [] OTHER -> 0

GrowDue ==
  IF pc # "call" THEN 0
  ELSE CASE fn \in Inserts /\ rval -> One(Left > 0)
         [] fn \in Removes -> -One(Left > 6)
         [] OTHER -> 0

\* The blocks the queue holds when the call is done.
Closing == {"cancel", "clear", "after", "return"}

Target ==
  CASE pc \in Closing \cup {"call"} /\ fn \in Frees -> 0
    [] pc = "call" /\ fn = "new" -> One(rval)
    [] pc = "call" /\ fn \notin Frees \cup {"new"} -> Owned + 2 * LinkDue
    [] OTHER -> Owned

\* A count and a list with what is due to them, their target, and the jumps.
Agree(count, list, target, jumps) ==
  /\ count >= target /\ list >= target /\ list >= count - jumps
  /\ jumps = 0 => count = target /\ list = target

\* Until the first time-out both come to the target; after it they exceed it.
BlocksInv ==
  status = "running" => Agree(allocatedCount + CountDue, allocated + ListDue, Target, cuts)

\* No elements without a queue: do_new frees the old one first.
EmptyInv ==
  /\ ~q => len = 0 /\ qSize = 0
  /\ pc = "return" /\ fn = "free" => ~q
  /\ Depth = 1 /\ fn = "new" /\ pc # "return" =>
       len = 0 /\ qSize = 0 /\ (pc \in {"setup", "arm", "limit", "region"} => ~q)

-----------------------------------------------------------------------------
(* The lengths *)

Extra == IF cut THEN reps ELSE 0
LenInv ==
  status = "running" /\ pc # "idle" /\ fn \in Inserts =>
    /\ pc \in {"cancel", "clear", "after"} => len <= MaxLen + Extra
    /\ pc \in {"setup", "arm", "limit", "region"} => len + (reps - rep) <= MaxLen + Extra
    /\ pc \in {"call", "check"} => len + LinkDue + (reps - rep - 1) <= MaxLen + Extra
    /\ (alarm \/ pc \in {"setup", "arm"}) => ~cut

Removed == IF \/ pc = "call" /\ fn \in Removes
              \/ pc \in {"cancel", "clear", "after"} /\ fn = "rhq"
           THEN One(rval) ELSE 0
Inserted == IF pc = "call" /\ fn \in Inserts THEN One(rval) ELSE 0

\* A count and q_size, with what is still to be added to each, and the list.
Accounts(count, in, out, size, grow, list, link, queue) ==
  /\ count + in - out = list + link
  /\ queue => size + grow = list + link
  /\ list <= MaxLen

\* Until the first time-out.
AccountsInv ==
  status = "running" /\ cuts = 0 =>
    Accounts(qcnt, Inserted, Removed, qSize, GrowDue, len, LinkDue, q)

-----------------------------------------------------------------------------
(* Time-outs *)

\* What a command that was timed out still knows of it.
CutShows ==
  /\ Depth = 2 /\ fn = "show" => verblevel >= 3
  /\ status = "running" /\ pc # "idle" /\ cut /\ verblevel < 3 =>
       IF fn \in {"size", "new"} THEN errorOccurred \/ ~ok
       ELSE fn \notin Inserts \cup {"show", "quit"} => errorOccurred

\* The time-outs of the session include the command's own.
CutsInv == cuts \in Nat /\ (cut => cuts > 0)

IInv ==
  /\ TypeOK /\ StackInv /\ ControlInv /\ LoopInv /\ JumpInv /\ LandInv /\ TodoInv
  /\ BlocksInv /\ EmptyInv /\ LenInv /\ AccountsInv /\ CutsInv /\ CutShows
  /\ TimeoutFails /\ AlarmFindsRegion

-----------------------------------------------------------------------------
(* The stack *)

\* Stacks of one frame and of two.
LEMMA OneFrame ==
  \A c : /\ Head(<<c>>) = c /\ Len(<<c>>) = 1 /\ Tail(<<c>>) = <<>>
        /\ c \in Commands => <<c>> \in Seq(Commands)
OBVIOUS

\* The frames of a stack of two.
LEMMA TwoFrames ==
  \A c, d : /\ Head(<<c, d>>) = c /\ <<c, d>>[2] = d /\ Len(<<c, d>>) = 2
           /\ c \in Commands /\ d \in Commands => <<c, d>> \in Seq(Commands)
<1>1. \A c, d : Head(<<c, d>>) = c /\ <<c, d>>[2] = d /\ Len(<<c, d>>) = 2
  OBVIOUS
<1>2. ASSUME NEW c \in Commands, NEW d \in Commands PROVE <<c, d>> \in Seq(Commands)
  OBVIOUS
<1> QED
  BY <1>1, <1>2

\* A return leaves the frame of the caller.
LEMMA PopFrame == \A c, d : Tail(<<c, d>>) = <<d>>
OBVIOUS

\* A call puts its frame before that of the caller.
LEMMA PushFrame == \A c, d : <<c>> \o <<d>> = <<c, d>>
<1> SUFFICES ASSUME NEW c, NEW d PROVE <<c>> \o <<d>> = <<c, d>>
  OBVIOUS
<1> DEFINE S == {c, d} s == <<c>> \o <<d>> t == <<c, d>>
<1>1. <<c>> \in Seq(S) /\ <<d>> \in Seq(S) /\ t \in Seq(S)
  OBVIOUS
<1>2. s \in Seq(S) /\ Len(s) = 2 /\ s[1] = c /\ s[2] = d
  BY <1>1, ConcatProperties
<1>3. Len(t) = 2 /\ t[1] = c /\ t[2] = d
  OBVIOUS
<1> HIDE DEF s, t
<1>4. Len(s) = Len(t) /\ \A i \in 1 .. Len(s) : s[i] = t[i]
  BY <1>2, <1>3
<1>5. s = t
  BY <1>1, <1>2, <1>4, SeqEqual
<1> QED
  BY <1>5 DEF s, t

\* The stack is its one or two frames.
LEMMA FrameOf ==
  ASSUME StackInv
  PROVE  /\ Depth = 0 => stack = <<>>
         /\ Depth = 1 => stack = <<fn>> /\ fn \in Commands
         /\ Depth = 2 => stack = <<fn, stack[2]>> /\ fn \in Commands /\ stack[2] \in Commands
BY DEF StackInv, Depth, fn

\* What a push and a pop leave.
Pushed == Depth = 1 /\ fn \notin {"show", "free", "quit"} /\ stack' = <<"show", fn>>
Popped == Depth = 2 /\ stack' = <<stack[2]>>

\* Showing the queue from inside a command.
LEMMA Push ==
  ASSUME StackInv, Depth = 1, stack' = <<"show">> \o stack PROVE stack' = <<"show", fn>>
BY FrameOf, PushFrame

\* Returning to the command inside which another one ran.
LEMMA Pop ==
  ASSUME StackInv, Depth = 2, stack' = Tail(stack) PROVE Popped
BY FrameOf, PopFrame DEF Popped

\* How an action changes the stack.
StartFrames(c) ==
  /\ Depth = 0
  /\ \/ stack' = <<c>>
     \/ c = "new" /\ q /\ stack' = <<"free", "new">>

\* The actions that change the stack, and how.
LEMMA NextFrames ==
  ASSUME StackInv, LandInv, [Next]_vars
  PROVE  /\ \A c \in Commands, n \in 1..MaxReps : Start(c, n) => StartFrames(c)
         /\ CountRemoval => stack' = stack \/ Pushed
         /\ After => stack' = stack \/ Pushed
         /\ Len(stack) > 1 /\ (ReturnToCommand \/ ReturnToNew) => Popped
         /\ ReturnToConsole => stack' = <<>>
<1> USE DEF Depth, Goto, Frees
<1>1. ASSUME NEW c \in Commands, NEW n, Start(c, n) PROVE StartFrames(c)
  BY <1>1 DEF Start, StartFrames, do_new, do_show, Enter, StackInv
<1>2. ASSUME CountRemoval PROVE stack' = stack \/ Pushed
  BY <1>2, Push DEF CountRemoval, Returned, Pushed, Enter, StackInv
<1>3. ASSUME After PROVE stack' = stack \/ Pushed
  <2>1. /\ pc = "after"
        /\ \/ stack' = stack
           \/ stack' = <<"show">> \o stack /\ fn \notin {"show", "free", "quit"}
    <3> DEFINE G ==
          \/ stack' = stack
          \/ stack' = <<"show">> \o stack /\ fn \notin {"show", "free", "quit"}
    <3>1. AfterFree => G BY DEF AfterFree
    <3>2. AfterRelink => G BY DEF AfterRelink
    <3>3. AfterQuiet => G BY DEF AfterQuiet, ShowAndReturn, Enter
    <3>4. AfterSize => G BY DEF AfterSize, ShowAndReturn, Enter
    <3>5. AfterRest => G
      <4>1. CASE fn \in {"rh", "show"} BY <4>1 DEF AfterRest
      <4>2. CASE fn \notin {"rh", "show"}
        BY <4>2 DEF AfterRest, ShowAndReturn, Enter, Inserts
      <4> QED
        BY <4>1, <4>2
    <3> QED
      BY <1>3, <3>1, <3>2, <3>3, <3>4, <3>5 DEF After
  <2> QED
    BY <2>1, Push DEF Pushed, StackInv
<1>4. ASSUME Len(stack) > 1, ReturnToCommand \/ ReturnToNew PROVE Popped
  BY <1>4, Pop DEF ReturnToCommand, ReturnToNew, Enter, StackInv
<1> QED
  BY <1>1, <1>2, <1>3, <1>4 DEF ReturnToConsole

\* Steps that leave the stack alone.
LEMMA SameFrames ==
  ASSUME exception_setup \/ exception_cancel \/ Call \/ LoopEnds \/ CountInsertion \/ KeepValue
         \/ Check \/ ShowLoop \/ QueueStep \/ sigalrmhandler \/ UNCHANGED vars
  PROVE  stack' = stack
BY DEF exception_setup, exception_cancel, Call, LoopEnds, CountInsertion, KeepValue, Check,
       ShowLoop, QueueStep, MallocFails, HeapStep, ListStep, sigalrmhandler, vars, callVars

\* do_new calls do_free, and commands call do_show: nothing else is nested.
LEMMA NextStackInv ==
  ASSUME StackInv, LandInv, [Next]_vars PROVE StackInv'
<1> USE DEF Goto, Depth, Frees
<1>0. /\ pc = "idle" <=> Depth = 0
      /\ StackInv
  BY DEF StackInv
<1>1. ASSUME NEW c \in Commands, NEW n \in 1..MaxReps, Start(c, n) PROVE StackInv'
  <2>1. StartFrames(c) /\ pc' # "idle"
    BY <1>1, NextFrames DEF Start, do_new, do_show, Enter
  <2>2. CASE stack' = <<c>>
    BY <2>1, <2>2, OneFrame DEF StackInv, fn
  <2>3. CASE stack' = <<"free", "new">>
    <3>1. stack' \in Seq(Commands) /\ Len(stack') = 2 /\ Head(stack') = "free" /\ stack'[2] = "new"
      BY <2>3, TwoFrames DEF Commands
    <3> QED
      BY <2>1, <3>1 DEF StackInv, fn
  <2> QED
    BY <2>1, <2>2, <2>3 DEF StartFrames
<1>2. ASSUME stack' = stack, (pc' = "idle") <=> (pc = "idle") PROVE StackInv'
  BY <1>0, <1>2 DEF StackInv, fn
<1>3. ASSUME Pushed, pc' # "idle" PROVE StackInv'
  BY <1>0, <1>3, TwoFrames, FrameOf DEF Pushed, StackInv, fn, Commands
<1>4. ASSUME Popped, pc' # "idle" PROVE StackInv'
  BY <1>0, <1>4, OneFrame, FrameOf DEF Popped, StackInv, fn, Commands
<1>5. ASSUME stack' = <<>>, pc' = "idle" PROVE StackInv'
  BY <1>0, <1>5 DEF StackInv, fn
<1>6. CASE exception_setup \/ exception_cancel \/ Call \/ LoopEnds \/ Check \/ ShowLoop
  BY <1>6, <1>2, SameFrames DEF exception_setup, exception_cancel, Call, LoopEnds, Check, ShowLoop
<1>7. CASE AfterCall
  <2>1. pc = "call" /\ pc' # "idle"
    BY <1>7 DEF AfterCall, CountInsertion, CountRemoval, KeepValue, Returned, Enter
  <2> QED
    BY <1>7, <2>1, <1>2, <1>3, SameFrames, NextFrames DEF AfterCall
<1>8. CASE After
  <2>1. pc = "after" /\ pc' # "idle"
    BY <1>8 DEF After, AfterFree, AfterRelink, AfterQuiet, AfterSize, AfterRest, ShowAndReturn, Enter
  <2> QED
    BY <1>8, <2>1, <1>2, <1>3, NextFrames
<1>9. CASE Return
  <2>1. CASE Len(stack) > 1
    <3>1. (ReturnToCommand \/ ReturnToNew) /\ pc' # "idle"
      BY <1>9, <2>1 DEF Return, ReturnToCommand, ReturnToNew, Enter
    <3> QED
      BY <2>1, <3>1, <1>4, NextFrames
  <2>2. CASE ~(Len(stack) > 1)
    BY <1>9, <2>2, <1>5, NextFrames DEF Return, ReturnToConsole
  <2> QED
    BY <2>1, <2>2
<1>10. CASE RemoveHeadNoBuffer
  BY <1>10, <1>5 DEF RemoveHeadNoBuffer
<1>11. CASE QueueStep
  BY <1>11, <1>2, SameFrames DEF QueueStep, MallocFails, HeapStep, ListStep, InQueueCode
<1>12. CASE sigalrmhandler
  BY <1>12, <1>2, SameFrames DEF sigalrmhandler, Lands
<1>13. CASE UNCHANGED vars
  BY <1>13, <1>2, SameFrames DEF vars, callVars
<1> QED
  BY <1>1, <1>6, <1>7, <1>8, <1>9, <1>10, <1>11, <1>12, <1>13 DEF Next, TesterStep
\* The functions that run after a call or a return.
LEMMA FunctionAfter ==
  ASSUME StackInv
  PROVE  /\ stack' = stack => fn' = fn /\ Depth' = Depth /\ stack'[2] = stack[2]
         /\ Pushed => Depth = 1 /\ Depth' = 2 /\ fn' = "show" /\ stack'[2] = fn
         /\ Popped => Depth = 2 /\ Depth' = 1 /\ fn' = stack[2]
         /\ \A c \in Commands : StartFrames(c) =>
               /\ Depth = 0
               /\ \/ Depth' = 1 /\ fn' = c
                  \/ Depth' = 2 /\ fn' = "free" /\ stack'[2] = "new" /\ c = "new" /\ q
<1>1. Pushed => Depth = 1 /\ Depth' = 2 /\ fn' = "show" /\ stack'[2] = fn
  BY TwoFrames DEF Pushed, Depth, fn
<1>2. Popped => Depth = 2 /\ Depth' = 1 /\ fn' = stack[2]
  BY OneFrame DEF Popped, Depth, fn
<1>3. ASSUME NEW c \in Commands, StartFrames(c)
      PROVE  \/ Depth' = 1 /\ fn' = c
             \/ Depth' = 2 /\ fn' = "free" /\ stack'[2] = "new" /\ c = "new" /\ q
  BY <1>3, OneFrame, TwoFrames DEF StartFrames, Depth, fn
<1> QED
  BY <1>1, <1>2, <1>3 DEF Depth, fn, StartFrames

-----------------------------------------------------------------------------
(* The alarm *)

\* Where the alarm finds the tester, and where it sends it.
Jumped ==
  /\ pc # "idle" /\ errorOccurred' /\ ~jmpReady' /\ ~timeLimited' /\ ~alarm'
  /\ \/ /\ lastCall = "none" /\ pc' = "cancel" /\ todo = <<>>
        /\ UNCHANGED <<rep, ok, rval, todo>>
     \/ /\ lastCall = "queue" /\ fn # "show" /\ pc' = "call"
        /\ fn \in Repeats => pc \in {"call", "check"}
        /\ todo' = <<>> /\ rval' = FALSE /\ UNCHANGED <<rep, ok>>
     \/ /\ lastCall = "other" /\ fn \in Repeats /\ pc' = "region" /\ todo = <<>>
        /\ ok' \in {TRUE, ok} /\ rep' \in 0..reps /\ UNCHANGED <<rval, todo>>
     \/ /\ lastCall = "other" /\ fn = "show" /\ pc' \in {"region", "cancel"} /\ todo = <<>>
        /\ UNCHANGED <<rep, ok, rval, todo>>
     \/ /\ pc = "cancel" /\ pc' = "after" /\ todo = <<>>
        /\ UNCHANGED <<rep, ok, rval, todo>>

\* sigalrmhandler jumps wherever a command runs, and finds no region only after
\* do_remove_head returned from the middle of its own.
LEMMA AlarmJumps ==
  ASSUME TypeOK, StackInv, JumpInv, LandInv, sigalrmhandler
  PROVE  /\ status = "running" /\ alarm /\ cut' /\ cuts' = cuts + 1
         /\ UNCHANGED <<stack, reps, lastCall, noallocate, cautious, noBuffer, verblevel, q, qSize,
                        qcnt, result, allocated, allocatedCount, failCount>>
         /\ \/ Jumped /\ CutShort /\ status' \in {"running", "aborted"}
            \/ /\ pc = "idle" /\ noBuffer /\ status' = "lost"
               /\ ~alarm'
               /\ UNCHANGED <<errorOccurred, jmpReady, timeLimited, pc, rep, ok, rval, todo, len, broken, torn>>
<1>1. /\ status = "running" /\ alarm /\ cut' /\ cuts' = cuts + 1
      /\ UNCHANGED <<stack, reps, lastCall, noallocate, cautious, noBuffer, verblevel, q, qSize,
                        qcnt, result, allocated, allocatedCount, failCount>>
  BY DEF sigalrmhandler, modeVars
<1>2. CASE jmpReady /\ pc # "idle"
  <2>1. JumpBack /\ Lands /\ CutShort /\ status' \in {"running", "aborted"}
    BY <1>2 DEF sigalrmhandler
  <2>2. /\ alarm => lastCall # "queue" \/ fn # "show"
        /\ alarm /\ lastCall = "other" => fn \in Repeats \cup {"show"}
        /\ alarm /\ lastCall = "queue" /\ fn \in Repeats => pc \in {"call", "check"}
        /\ todo # <<>> => pc = "call" /\ lastCall = "queue"
    BY <1>1, <1>2 DEF LandInv
  <2>3. errorOccurred' /\ ~jmpReady' /\ ~timeLimited' /\ ~alarm'
    BY <2>1 DEF JumpBack
  <2>4. Jumped
    BY <1>1, <1>2, <2>1, <2>2, <2>3 DEF Lands, Jumped, Repeats, Inserts
  <2> QED
    BY <1>1, <2>1, <2>4
<1>3. CASE ~(jmpReady /\ pc # "idle")
  <2>1. pc = "idle" /\ jmpReady /\ noBuffer
    BY <1>1, <1>3 DEF TypeOK, JumpInv, sigalrmhandler
  <2> QED
    BY <1>1, <2>1 DEF sigalrmhandler
<1> QED
  BY <1>2, <1>3
-----------------------------------------------------------------------------
(* The commands' actions, with the functions that run before and after *)

Modes == /\ {noallocate, cautious, errorOccurred} \subseteq BOOLEAN
         /\ {ok, rval, cut, q} \subseteq BOOLEAN

\* Showing, or not, leaves the modes alone: do_show does not clear error_occurred
\* on its way in.
LEMMA ShowEffect ==
  ASSUME StackInv, Modes, Depth = 1, fn \notin {"show", "free", "quit"}, Enter(<<"show">> \o stack)
  PROVE  Pushed /\ pc' = "setup" /\ UNCHANGED <<noallocate, cautious, errorOccurred>>
<1>1. stack' = <<"show", fn>> /\ <<"show">> \o stack = <<"show", fn>>
  BY FrameOf, PushFrame DEF Enter
<1>2. Head(<<"show">> \o stack) = "show"
  BY <1>1, TwoFrames
<1> QED
  BY <1>1, <1>2 DEF Enter, Pushed, Modes

StartEffect(c, n) ==
  /\ pc = "idle" /\ status = "running" /\ ~noBuffer
  /\ c \in Inserts => len + n <= MaxLen
  /\ reps' = n /\ ~cut' /\ result' = NoResult
  /\ UNCHANGED <<allocated, allocatedCount, torn, jmpReady, timeLimited, alarm, q, len, qSize, broken,
                rep, ok, rval, lastCall, todo, qcnt, failCount, verblevel, status, cuts, noBuffer>>
  /\ \/ /\ c = "new" /\ q /\ fn' = "free" /\ Depth' = 2 /\ stack'[2] = "new" /\ pc' = "setup"
        /\ noallocate' = noallocate /\ ~errorOccurred' /\ cautious' \in BOOLEAN
     \/ /\ c = "show" /\ fn' = "show" /\ Depth' = 1 /\ pc' = "return"
        /\ UNCHANGED <<noallocate, cautious, errorOccurred>>
     \/ /\ fn' = c /\ Depth' = 1 /\ pc' = "setup" /\ (c = "new" => ~q)
        /\ noallocate' = (noallocate \/ c \in {"reverse", "sort"})
        /\ IF c \in Frees THEN cautious' \in BOOLEAN ELSE cautious' = cautious
        /\ errorOccurred' = (errorOccurred /\ c \in {"show", "quit"})

\* What the start of a command changes.
LEMMA StartSteps ==
  ASSUME StackInv, Modes, NEW c \in Commands, NEW n \in 1..MaxReps, Start(c, n)
  PROVE  StartEffect(c, n)
<1> DEFINE Rest ==
      /\ pc = "idle" /\ status = "running" /\ ~noBuffer
      /\ c \in Inserts => len + n <= MaxLen
      /\ reps' = n /\ ~cut' /\ result' = NoResult
      /\ UNCHANGED <<allocated, allocatedCount, torn, jmpReady, timeLimited, alarm, q, len, qSize,
                    broken, rep, ok, rval, lastCall, todo, qcnt, failCount, verblevel, status,
                    cuts, noBuffer>>
<1>1. Rest
  BY DEF Start, heapVars, jumpVars, queueVars
<1>2. CASE c = "new" /\ q
  <2>1. Enter(<<"free", "new">>)
    BY <1>2 DEF Start, do_new, Modes
  <2>2. Head(<<"free", "new">>) = "free" /\ <<"free", "new">>[2] = "new" /\ Len(<<"free", "new">>) = 2
    BY TwoFrames
  <2> QED
    BY <1>1, <1>2, <2>1, <2>2 DEF StartEffect, Enter, error_check, fn, Depth, Modes
<1>3. CASE c = "show" /\ ~Shows(0, q)
  BY <1>1, <1>3, OneFrame DEF Start, StartEffect, do_show, fn, Depth, modeVars
<1>4. CASE ~(c = "new" /\ q) /\ ~(c = "show" /\ ~Shows(0, q))
  <2>1. Enter(<<c>>) /\ (c = "new" => ~q)
    BY <1>4 DEF Start, do_new, Modes
  <2>2. Head(<<c>>) = c /\ Len(<<c>>) = 1
    BY OneFrame
  <2>3. stack' = <<c>> /\ fn' = c /\ Depth' = 1 /\ pc' = "setup"
    BY <2>1, <2>2 DEF Enter, fn, Depth
  <2>4. /\ noallocate' = (noallocate \/ c \in {"reverse", "sort"})
        /\ IF c \in Frees THEN cautious' \in BOOLEAN ELSE cautious' = cautious
    BY <2>1, <2>2 DEF Enter, Frees, Modes
  <2>5. errorOccurred' = (errorOccurred /\ c \in {"show", "quit"})
    BY <2>1, <2>2 DEF Enter, error_check, Modes
  <2> QED
    BY <1>1, <2>1, <2>3, <2>4, <2>5 DEF StartEffect
<1> QED
  BY <1>2, <1>3, <1>4

\* Shows the queue, or not.
Maybe(label) == \/ Pushed /\ pc' = "setup"
                \/ UNCHANGED stack /\ pc' = label

RemovalEffect ==
  /\ fn = "rh" /\ pc = "call" /\ todo = <<>> /\ status = "running"
  /\ Maybe("check") /\ lastCall' = "other"
  /\ qcnt' = (qcnt - IF rval THEN 1 ELSE 0) % Modulus
  /\ ok' \in BOOLEAN /\ CountFailure /\ (Pushed => Shows(3, q))
  /\ UNCHANGED <<allocated, allocatedCount, torn, jmpReady, timeLimited, alarm, q, len, qSize, broken, reps,
                rep, rval, todo, verblevel, status, cut, cuts, noBuffer, result,
                noallocate, cautious, errorOccurred>>

\* What do_remove_head does with the result of q_remove_head.
LEMMA RemovalSteps ==
  ASSUME StackInv, Modes, AfterCall, CountRemoval PROVE RemovalEffect
<1>1. Depth = 1
  BY DEF StackInv, CountRemoval, Returned, Depth, Frees
<1>2. Maybe("check") /\ UNCHANGED <<noallocate, cautious, errorOccurred>> /\ (Pushed => Shows(3, q))
  <2>1. CASE Shows(3, q)
    BY <1>1, <2>1, ShowEffect DEF CountRemoval, Maybe
  <2>2. CASE ~Shows(3, q)
    BY <2>2, FunctionAfter DEF CountRemoval, Maybe, modeVars
  <2> QED
    BY <2>1, <2>2
<1>3. ok' \in BOOLEAN
  <2>1. (reps > 1) \in BOOLEAN
    OBVIOUS
  <2>2. ok' = TRUE \/ ok' = (reps > 1) \/ ok' = FALSE
    BY DEF CountRemoval
  <2> QED
    BY ONLY <2>1, <2>2
<1> QED
  BY <1>2, <1>3 DEF AfterCall, CountRemoval, Returned, RemovalEffect, heapVars, jumpVars
\* The rest of a command, up to its return.
AfterEffect ==
  /\ pc = "after" /\ status = "running" /\ Maybe("return")
  /\ UNCHANGED <<allocated, allocatedCount, torn, jmpReady, timeLimited, alarm, reps, rep, rval, lastCall, todo,
                 verblevel, status, cut, cuts, noBuffer, result, errorOccurred>>
  /\ noallocate' = (noallocate /\ fn \notin {"reverse", "sort"})
  /\ cautious' = (cautious \/ fn \in Frees)
  /\ IF fn = "free" THEN q' = FALSE /\ len' = 0 /\ qSize' = 0 /\ broken' = FALSE
                    ELSE UNCHANGED <<q, len, qSize, broken>>
  /\ qcnt' = CASE fn \in {"free", "new"} -> 0
               [] fn = "rhq" -> (qcnt - IF rval THEN 1 ELSE 0) % Modulus
               [] OTHER -> qcnt
  /\ failCount' = failCount \/ CountFailure
  /\ IF fn \in {"rhq", "size"} THEN ok' \in BOOLEAN ELSE ok' = ok
  /\ fn = "size" => ok' \in {FALSE, ok} \/ ~cut
  /\ Pushed => Shows(3, q) /\ fn # "rh"

\* What the commands do between exception_cancel and their return.
LEMMA AfterSteps ==
  ASSUME StackInv, Modes, After PROVE AfterEffect
<1> DEFINE Rest ==
      /\ pc = "after" /\ status = "running"
      /\ UNCHANGED <<allocated, allocatedCount, torn, jmpReady, timeLimited, alarm, reps, rep, rval,
                    lastCall, todo, verblevel, status, cut, cuts, noBuffer, result>>
      /\ noallocate \in BOOLEAN /\ cautious \in BOOLEAN /\ ok \in BOOLEAN /\ rval \in BOOLEAN
<1>1. Rest
  BY DEF After, heapVars, jumpVars, Modes
<1>2. ASSUME fn \notin {"show", "free", "quit"}, ShowAndReturn(q)
      PROVE  /\ Maybe("return") /\ UNCHANGED <<noallocate, cautious, errorOccurred>>
             /\ Pushed => Shows(3, q)
  <2>1. Depth \in {1, 2} /\ (Depth = 2 => fn \in {"show", "free"})
    BY <1>1 DEF StackInv, Frees
  <2>2. CASE Shows(3, q)
    BY <1>2, <2>1, <2>2, ShowEffect DEF ShowAndReturn, Maybe
  <2>3. CASE ~Shows(3, q)
    <3>1. UNCHANGED stack /\ pc' = "return" /\ UNCHANGED <<noallocate, cautious, errorOccurred>>
      BY <1>2, <2>3 DEF ShowAndReturn, modeVars
    <3>2. ~Pushed
      BY <2>1, <3>1, FunctionAfter DEF Pushed
    <3> QED
      BY <3>1, <3>2 DEF Maybe
  <2> QED
    BY <2>2, <2>3
<1>3. ASSUME UNCHANGED stack PROVE ~Pushed
  BY <1>3, FunctionAfter DEF Pushed
<1>4. CASE AfterFree
  BY <1>1, <1>3, <1>4 DEF AfterFree, AfterEffect, Maybe, Frees, queueVars
<1>5. CASE AfterRelink
  <2>1. /\ Maybe("return") /\ (Pushed => Shows(3, q))
    <3>1. Depth = 1
      BY <1>1, <1>5 DEF AfterRelink, StackInv, Frees
    <3>2. CASE Shows(3, q)
      BY <1>5, <3>1, <3>2, Push DEF AfterRelink, Maybe, Pushed
    <3>3. CASE ~Shows(3, q)
      BY <1>3, <1>5, <3>3 DEF AfterRelink, Maybe
    <3> QED
      BY <3>2, <3>3
  <2> QED
    BY <1>1, <1>5, <2>1 DEF AfterRelink, AfterEffect, Frees, queueVars
<1>6. CASE AfterQuiet
  <2>1. fn = "rhq"
    BY <1>6 DEF AfterQuiet
  <2>2. ok' \in BOOLEAN
    <3>1. (failCount' < FailLimit) \in BOOLEAN
      OBVIOUS
    <3>2. ok' = (rval \/ failCount' < FailLimit)
      BY <1>6 DEF AfterQuiet
    <3> QED
      BY ONLY <3>1, <3>2
  <2> QED
    BY <1>1, <1>2, <1>6, <2>1, <2>2 DEF AfterQuiet, AfterEffect, Frees, queueVars
<1>7. CASE AfterSize
  <2>1. fn = "size"
    BY <1>7 DEF AfterSize
  <2>2. ok' \in BOOLEAN /\ (ok' \in {FALSE, ok} \/ ~cut)
    <3>1. (qcnt = qSize) \in BOOLEAN
      OBVIOUS
    <3>2. IF cut THEN ok' \in {FALSE, ok} ELSE ok' = (ok /\ qcnt = qSize)
      BY <1>7 DEF AfterSize
    <3>3. ok \in BOOLEAN
      BY <1>1
    <3> QED
      BY ONLY <3>1, <3>2, <3>3
  <2> QED
    BY <1>1, <1>2, <1>7, <2>1, <2>2 DEF AfterSize, AfterEffect, Frees, queueVars
<1>8. CASE AfterRest
  <2>1. fn \in Inserts \cup {"new", "rh", "show"}
    BY <1>8 DEF AfterRest
  <2>2. /\ Maybe("return") /\ UNCHANGED <<noallocate, cautious, errorOccurred>>
        /\ Pushed => Shows(3, q) /\ fn # "rh"
    <3>1. CASE fn \in {"rh", "show"}
      BY <1>3, <1>8, <3>1 DEF AfterRest, Maybe, modeVars
    <3>2. CASE fn \notin {"rh", "show"}
      BY <1>2, <1>8, <2>1, <3>2 DEF AfterRest, Inserts
    <3> QED
      BY <3>1, <3>2
  <2> QED
    BY <1>1, <1>8, <2>1, <2>2 DEF AfterRest, AfterEffect, Frees, Inserts, queueVars
<1> QED
  BY <1>4, <1>5, <1>6, <1>7, <1>8 DEF After
ReturnEffect ==
  /\ pc = "return" /\ status = "running"
  /\ UNCHANGED <<allocated, allocatedCount, torn, jmpReady, timeLimited, alarm, q, len, qSize, broken, todo, qcnt,
                 failCount, verblevel, cut, cuts, noBuffer, noallocate, cautious>>
  /\ \/ /\ fn = "show" /\ Popped /\ pc' = (IF stack[2] = "rh" THEN "check" ELSE "return")
        /\ lastCall' = "other" /\ UNCHANGED <<errorOccurred, reps, rep, ok, rval, status, result>>
     \/ /\ fn = "free" /\ Popped /\ stack[2] = "new" /\ pc' = "setup"
        /\ ~errorOccurred' /\ ok' = Value /\ ~rval' /\ UNCHANGED <<reps, rep, lastCall, status, result>>
     \/ /\ Depth = 1 /\ stack' = <<>> /\ pc' = "idle"
        /\ errorOccurred' = (errorOccurred /\ ~AsksErrors)
        /\ result' = [command |-> fn, ok |-> Value, cut |-> cut]
        /\ status' = (IF fn = "quit" THEN "finished" ELSE status)
        /\ reps' = 1 /\ rep' = 0 /\ ok' = TRUE /\ rval' = FALSE /\ lastCall' = "none"

\* The three ways a function of qtest.c returns.
LEMMA ReturnSteps ==
  ASSUME StackInv, Modes, Return PROVE ReturnEffect
<1>0. /\ (pc = "idle") <=> (Depth = 0) /\ Depth \in 0 .. 2
      /\ Depth = 2 => \/ fn = "free" /\ stack[2] = "new"
                      \/ fn = "show" /\ stack[2] \notin {"show", "free", "quit"}
  BY DEF StackInv, Frees
<1>1. UNCHANGED <<allocated, allocatedCount, torn, jmpReady, timeLimited, alarm, q, len, qSize, broken, todo, qcnt,
                 failCount, verblevel, cut, cuts, noBuffer>>
  BY DEF Return, heapVars, jumpVars, queueVars
<1>2. CASE Depth = 2
  <2>1. CASE ReturnToCommand
    BY <1>1, <1>2, <2>1, Pop DEF ReturnToCommand, ReturnEffect, Goto, modeVars
  <2>2. CASE ReturnToNew
    <3>1. Popped /\ fn = "free" /\ stack[2] = "new"
      BY <1>0, <1>2, <2>2, Pop DEF ReturnToNew, Enter
    <3>2. Tail(stack) = <<"new">> /\ Head(<<"new">>) = "new"
      <4>1. stack = <<"free", "new">>
        BY <1>2, <3>1, FrameOf
      <4> QED
        BY <4>1, PopFrame, OneFrame
    <3>3. pc' = "setup" /\ errorOccurred' = FALSE /\ UNCHANGED <<noallocate, cautious>>
      BY <2>2, <3>2 DEF ReturnToNew, Enter, error_check, Modes
    <3> QED
      BY <1>1, <2>2, <3>1, <3>3 DEF ReturnToNew, ReturnEffect
  <2> QED
    BY <1>2, <2>1, <2>2 DEF Return, Depth
<1>3. CASE Depth # 2
  <2>0. Depth \in 0 .. 1
    BY <1>3 DEF StackInv
  <2>1. ~(Len(stack) > 1)
    <3>1. ~(Depth > 1)
      BY <2>0
    <3> QED
      BY ONLY <3>1 DEF Depth
  <2>2. ReturnToConsole
    BY <2>1 DEF Return
  <2>3. pc = "return" /\ pc' = "idle" /\ status = "running" /\ UNCHANGED <<noallocate, cautious>>
    BY <2>2 DEF ReturnToConsole, Goto, modeVars
  <2>4. Depth = 1
    BY <2>0, <2>3 DEF StackInv
  <2> QED
    BY <1>1, <2>2, <2>3, <2>4 DEF ReturnToConsole, ReturnEffect
<1> QED
  BY <1>2, <1>3

-----------------------------------------------------------------------------
(* Modes and the end of a command *)

\* A mode is on only while the command that turned it on runs.
LEMMA NextControlInv ==
  ASSUME TypeOK, StackInv, ControlInv, JumpInv, LandInv, [Next]_vars PROVE ControlInv'
<1> USE FunctionAfter DEF Goto
<1>0. /\ (pc = "idle") <=> (Depth = 0)
      /\ Depth = 2 => \/ fn = "free" /\ stack[2] = "new"
                      \/ fn = "show" /\ stack[2] \notin {"show", "free", "quit"}
      /\ Modes
  BY DEF StackInv, TypeOK, HarnessTypeOK, Frees, Modes
<1>1. ASSUME NEW c \in Commands, NEW n \in 1..MaxReps, Start(c, n) PROVE ControlInv'
  BY <1>0, <1>1, StartSteps DEF StartEffect, ControlInv, Frees, Modes
<1>2. CASE exception_setup
  BY <1>0, <1>2 DEF exception_setup, ControlInv, modeVars, sessionVars
<1>3. CASE exception_cancel
  BY <1>0, <1>3 DEF exception_cancel, ControlInv, modeVars, sessionVars
<1>4. CASE Call \/ LoopEnds \/ ShowLoop
  <2>1. /\ pc = "region" /\ pc' \in {"call", "cancel"}
        /\ UNCHANGED <<stack, noallocate, cautious, rep, noBuffer, status>>
    BY <1>4 DEF Call, LoopEnds, ShowLoop, modeVars, sessionVars
  <2> QED
    BY <2>1 DEF ControlInv
<1>5. CASE Check
  BY <1>0, <1>5 DEF Check, ControlInv, modeVars, sessionVars
<1>6. CASE AfterCall
  <2>1. CASE CountInsertion
    BY <1>0, <1>6, <2>1 DEF AfterCall, CountInsertion, Returned, ControlInv, modeVars
  <2>2. CASE CountRemoval
    BY <1>0, <1>6, <2>2, RemovalSteps DEF RemovalEffect, Maybe, ControlInv, Frees
  <2>3. CASE KeepValue
    BY <1>0, <1>6, <2>3 DEF AfterCall, KeepValue, Returned, ControlInv, modeVars
  <2> QED
    BY <1>6, <2>1, <2>2, <2>3 DEF AfterCall
<1>7. CASE After
  <2>1. AfterEffect
    BY <1>0, <1>7, AfterSteps
  <2>2. ~noallocate' /\ cautious'
    BY <1>0, <2>1 DEF AfterEffect, ControlInv, Modes
  <2>3. pc = "after" /\ pc' # "idle" /\ noBuffer' = noBuffer
    BY <2>1 DEF AfterEffect, Maybe
  <2> QED
    BY <2>2, <2>3 DEF ControlInv
<1>8. CASE Return
  <2>1. ReturnEffect
    BY <1>0, <1>8, ReturnSteps
  <2>2. pc = "return" /\ noBuffer' = noBuffer /\ UNCHANGED <<noallocate, cautious>> /\ (pc' = "idle" => rep' = 0)
    BY <2>1 DEF ReturnEffect
  <2> QED
    BY <2>2 DEF ControlInv
<1>9. CASE RemoveHeadNoBuffer
  BY <1>0, <1>9 DEF RemoveHeadNoBuffer, ControlInv, modeVars, Frees
<1>10. CASE QueueStep
  BY <1>0, <1>10 DEF QueueStep, MallocFails, HeapStep, ListStep, InQueueCode, ControlInv, modeVars, sessionVars
<1>11. CASE sigalrmhandler
  <2>1. CASE Jumped
    <3>1. pc # "idle" /\ pc' \in {"cancel", "call", "region", "after"}
      BY <2>1 DEF Jumped
    <3>2. UNCHANGED <<stack, noallocate, cautious, noBuffer>>
      BY <1>11, AlarmJumps
    <3>3. pc # "return"
      BY <1>11, AlarmJumps DEF JumpInv
    <3> QED
      BY <3>1, <3>2, <3>3 DEF ControlInv
  <2>2. CASE ~Jumped
    BY <1>0, <1>11, <2>2, AlarmJumps DEF ControlInv
  <2> QED
    BY <2>1, <2>2
<1>12. CASE UNCHANGED vars
  BY <1>12 DEF vars, ControlInv, modeVars, callVars, sessionVars
<1> QED
  BY <1>1, <1>2, <1>3, <1>4, <1>5, <1>6, <1>7, <1>8, <1>9, <1>10, <1>11, <1>12 DEF Next, TesterStep

\* The parts of the type invariant that the steps need.
LEMMA Typed ==
  ASSUME TypeOK, StackInv
  PROVE  /\ (pc = "idle") <=> (Depth = 0)
         /\ Depth = 2 => \/ fn = "free" /\ stack[2] = "new"
                         \/ fn = "show" /\ stack[2] \notin {"show", "free", "quit"}
         /\ Modes /\ rep \in Nat /\ reps \in Nat
         /\ {jmpReady, timeLimited, alarm} \subseteq BOOLEAN
BY QTestAssumption DEF StackInv, TypeOK, HarnessTypeOK, Frees, Modes

\* No repetition is begun when none is left.
LEMMA NextLoopInv ==
  ASSUME TypeOK, TypeOK', StackInv, ControlInv, LoopInv, JumpInv, LandInv, [Next]_vars PROVE LoopInv'
<1> USE FunctionAfter, Typed DEF Goto
<1>1. ASSUME NEW c \in Commands, NEW n \in 1..MaxReps, Start(c, n) PROVE LoopInv'
  <2>1. StartEffect(c, n)
    BY <1>1, StartSteps
  <2>2. rep' = 0 /\ reps' \in Nat /\ pc' \notin {"call", "check"} /\ (Depth' = 2 => stack'[2] = "new")
    BY <2>1, QTestAssumption DEF StartEffect, ControlInv
  <2> QED
    BY <2>2 DEF LoopInv
<1>2. CASE exception_setup \/ exception_cancel
  <2>1. pc' \notin {"call", "check"} /\ UNCHANGED <<stack, rep, reps>>
    BY <1>2 DEF exception_setup, exception_cancel
  <2> QED
    BY <2>1 DEF LoopInv
<1>3. CASE Call
  <2>1. UNCHANGED <<stack, rep, reps>> /\ (fn \in Repeats => rep < reps)
    BY <1>3 DEF Call, Looping
  <2> QED
    BY <2>1 DEF LoopInv
<1>4. CASE LoopEnds \/ ShowLoop
  <2>1. pc' \notin {"call", "check"} /\ UNCHANGED <<stack, rep, reps>>
    BY <1>4 DEF LoopEnds, ShowLoop
  <2> QED
    BY <2>1 DEF LoopInv
<1>5. CASE Check
  <2>1. /\ pc = "check" /\ pc' = "region" /\ rep' = rep + 1 /\ fn \in Repeats
        /\ UNCHANGED <<stack, reps>> /\ Depth = 1
    BY <1>5 DEF Check, LandInv, StackInv, Frees, Repeats, Inserts
  <2>2. rep < reps
    BY <2>1 DEF LoopInv
  <2> QED
    BY <2>1, <2>2 DEF LoopInv
<1>6. CASE AfterCall
  <2>1. CASE CountInsertion \/ KeepValue
    <3>1. pc = "call" /\ UNCHANGED <<stack, rep, reps>>
      BY <1>6, <2>1 DEF AfterCall, CountInsertion, KeepValue, Returned
    <3> QED
      BY <3>1 DEF LoopInv
  <2>2. CASE CountRemoval
    <3>1. RemovalEffect
      BY <1>6, <2>2, RemovalSteps
    <3>2. rep < reps /\ UNCHANGED <<rep, reps>>
      BY <3>1 DEF RemovalEffect, LoopInv, Repeats
    <3> QED
      BY <3>2 DEF LoopInv
  <2> QED
    BY <1>6, <2>1, <2>2 DEF AfterCall
<1>7. CASE After
  <2>1. AfterEffect
    BY <1>7, AfterSteps
  <2>2. pc' \in {"setup", "return"} /\ UNCHANGED <<rep, reps>>
    BY <2>1 DEF AfterEffect, Maybe
  <2>3. Pushed => fn # "rh"
    BY <2>1 DEF AfterEffect
  <2>4. stack' = stack \/ Pushed
    BY <2>1 DEF AfterEffect, Maybe
  <2> QED
    BY <2>2, <2>3, <2>4 DEF LoopInv
<1>8. CASE Return
  <2>1. ReturnEffect
    BY <1>8, ReturnSteps
  <2>2. CASE Popped
    BY <2>1, <2>2 DEF ReturnEffect, LoopInv
  <2>3. CASE ~Popped
    <3>1. rep' = 0 /\ reps' = 1 /\ pc' = "idle" /\ Depth' = 0
      BY <2>1, <2>3 DEF ReturnEffect, Depth
    <3> QED
      BY <3>1 DEF LoopInv
  <2> QED
    BY <2>2, <2>3
<1>9. CASE RemoveHeadNoBuffer
  <2>1. pc' = "idle" /\ Depth' = 0 /\ UNCHANGED <<rep, reps>>
    BY <1>9 DEF RemoveHeadNoBuffer, Depth
  <2> QED
    BY <2>1 DEF LoopInv
<1>10. CASE QueueStep
  <2>1. UNCHANGED <<stack, pc, rep, reps>>
    BY <1>10 DEF QueueStep, MallocFails, HeapStep, ListStep
  <2> QED
    BY <2>1 DEF LoopInv
<1>11. CASE sigalrmhandler
  <2>0. UNCHANGED <<stack, reps>>
    BY <1>11, AlarmJumps
  <2>1. CASE Jumped
    <3>1. CASE UNCHANGED rep
      BY <2>0, <2>1, <3>1 DEF Jumped, LoopInv
    <3>2. CASE rep' \in 0 .. reps /\ fn \in Repeats /\ pc' = "region"
      <4>1. Depth # 2
        BY <3>2 DEF Repeats, Inserts
      <4> QED
        BY <2>0, <3>2, <4>1 DEF LoopInv
    <3> QED
      BY <2>1, <3>1, <3>2 DEF Jumped
  <2>2. CASE ~Jumped
    BY <1>11, <2>0, <2>2, AlarmJumps DEF LoopInv
  <2> QED
    BY <2>1, <2>2
<1>12. CASE UNCHANGED vars
  BY <1>12 DEF vars, LoopInv, callVars
<1> QED
  BY <1>1, <1>2, <1>3, <1>4, <1>5, <1>6, <1>7, <1>8, <1>9, <1>10, <1>11, <1>12 DEF Next, TesterStep
\* The three stores of exception_setup and the two of exception_cancel.
LEMMA NextJumpInv ==
  ASSUME TypeOK, StackInv, ControlInv, JumpInv, LandInv, [Next]_vars PROVE JumpInv'
<1> USE FunctionAfter, Typed DEF Goto
<1>1. ASSUME NEW c \in Commands, NEW n \in 1..MaxReps, Start(c, n) PROVE JumpInv'
  <2>1. StartEffect(c, n)
    BY <1>1, StartSteps
  <2> QED
    BY <2>1 DEF StartEffect, JumpInv
<1>2. CASE exception_setup
  BY <1>2 DEF exception_setup, SetReady, StartAlarm, SetLimited, JumpInv, sessionVars
<1>3. CASE exception_cancel
  <2>1. CASE pc = "cancel"
    <3>1. pc' = "clear" /\ status = "running" /\ alarm' = (alarm /\ ~timeLimited) /\ ~timeLimited'
      BY <1>3, <2>1 DEF exception_cancel, StopAlarm
    <3>2. timeLimited = alarm
      BY <2>1, <3>1 DEF JumpInv
    <3> QED
      BY <3>1, <3>2 DEF JumpInv
  <2>2. CASE pc = "clear"
    BY <1>3, <2>2 DEF exception_cancel, ClearReady, JumpInv, sessionVars
  <2> QED
    BY <1>3, <2>1, <2>2 DEF exception_cancel
<1>4. CASE Call \/ LoopEnds \/ Check \/ ShowLoop
  <2>1. /\ pc \in {"region", "check"} /\ pc' \in {"region", "call", "cancel"}
        /\ UNCHANGED <<jmpReady, timeLimited, alarm, status>>
    BY <1>4 DEF Call, LoopEnds, Check, ShowLoop, jumpVars, sessionVars
  <2> QED
    BY <2>1 DEF JumpInv
<1>5. CASE AfterCall
  <2>1. /\ pc = "call" /\ pc' \in {"check", "cancel", "setup"}
        /\ UNCHANGED <<jmpReady, timeLimited, alarm, status>>
    BY <1>5 DEF AfterCall, CountInsertion, CountRemoval, KeepValue, Returned, Enter, jumpVars
  <2> QED
    BY <2>1 DEF JumpInv
<1>6. CASE After
  <2>1. /\ pc = "after" /\ pc' \in {"return", "setup"} /\ UNCHANGED <<jmpReady, timeLimited, alarm, status>>
    BY <1>6, AfterSteps DEF AfterEffect, Maybe
  <2> QED
    BY <2>1 DEF JumpInv
<1>7. CASE Return
  <2>1. /\ pc = "return" /\ status = "running" /\ UNCHANGED <<jmpReady, timeLimited, alarm, noBuffer>>
        /\ pc' \in {"check", "return", "setup", "idle"}
    BY <1>7, ReturnSteps DEF ReturnEffect
  <2> QED
    BY <2>1 DEF JumpInv
<1>8. CASE RemoveHeadNoBuffer
  <2>1. /\ pc = "region" /\ status = "running" /\ UNCHANGED <<jmpReady, timeLimited, alarm>>
        /\ pc' = "idle" /\ noBuffer'
    BY <1>8 DEF RemoveHeadNoBuffer, jumpVars
  <2> QED
    BY <2>1 DEF JumpInv
<1>9. CASE QueueStep
  <2>1. /\ pc = "call" /\ status = "running" /\ UNCHANGED <<pc, jmpReady, timeLimited, alarm>>
    BY <1>9 DEF QueueStep, MallocFails, HeapStep, ListStep, InQueueCode, jumpVars
  <2> QED
    BY <2>1 DEF JumpInv
<1>10. CASE sigalrmhandler
  <2>1. CASE Jumped
    <3>1. pc' \in {"cancel", "call", "region", "after"} /\ ~jmpReady' /\ ~timeLimited' /\ ~alarm'
      BY <2>1 DEF Jumped
    <3>2. {jmpReady', timeLimited', alarm'} \subseteq BOOLEAN
      BY <1>10, <2>1 DEF sigalrmhandler, Jumped, JumpBack
    <3> QED
      BY <3>1, <3>2 DEF JumpInv
  <2>2. CASE ~Jumped
    BY <1>10, <2>2, AlarmJumps DEF JumpInv
  <2> QED
    BY <2>1, <2>2
<1>11. CASE UNCHANGED vars
  BY <1>11 DEF vars, JumpInv, callVars, jumpVars, sessionVars
<1> QED
  BY <1>1, <1>2, <1>3, <1>4, <1>5, <1>6, <1>7, <1>8, <1>9, <1>10, <1>11 DEF Next, TesterStep

\* Whatever the alarm interrupts, there is a place to land.
LEMMA NextLandInv ==
  ASSUME TypeOK, StackInv, ControlInv, JumpInv, LandInv, TodoInv, [Next]_vars PROVE LandInv'
<1> USE FunctionAfter, Typed DEF Goto
<1>1. ASSUME NEW c \in Commands, NEW n \in 1..MaxReps, Start(c, n) PROVE LandInv'
  <2>1. StartEffect(c, n)
    BY <1>1, StartSteps
  <2>2. ~alarm' /\ pc' \in {"setup", "return"} /\ todo' = todo
    BY <2>1 DEF StartEffect, JumpInv
  <2>3. todo = <<>>
    BY <2>1 DEF StartEffect, LandInv
  <2> QED
    BY <2>2, <2>3 DEF LandInv
<1>2. CASE exception_setup
  <2>1. /\ pc \in {"setup", "arm", "limit"} /\ pc' \in {"arm", "limit", "region"} /\ status = "running"
        /\ lastCall' = "none" /\ UNCHANGED <<todo, stack>>
    BY <1>2 DEF exception_setup
  <2> QED
    BY <2>1 DEF LandInv
<1>3. CASE exception_cancel
  <2>1. CASE pc = "cancel"
    <3>1. /\ pc' = "clear" /\ status = "running" /\ alarm' = (alarm /\ ~timeLimited)
          /\ UNCHANGED <<todo, stack, lastCall>>
      BY <1>3, <2>1 DEF exception_cancel, StopAlarm
    <3>2. timeLimited = alarm /\ todo = <<>>
      BY <2>1, <3>1 DEF JumpInv, LandInv
    <3>3. ~alarm'
      BY <3>1, <3>2
    <3> QED
      BY <3>1, <3>2, <3>3 DEF LandInv
  <2>2. CASE pc = "clear"
    <3>1. /\ pc' = "after" /\ status = "running" /\ UNCHANGED <<todo, stack, lastCall, alarm>>
      BY <1>3, <2>2 DEF exception_cancel, ClearReady
    <3>2. ~alarm' /\ todo = <<>>
      BY <2>2, <3>1 DEF JumpInv, LandInv
    <3> QED
      BY <3>1, <3>2 DEF LandInv
  <2> QED
    BY <1>3, <2>1, <2>2 DEF exception_cancel
<1>4. CASE Call
  <2>1. pc = "region" /\ pc' = "call" /\ fn # "show" /\ lastCall' = "queue" /\ UNCHANGED stack
    BY <1>4 DEF Call
  <2> QED
    BY <2>1 DEF LandInv
<1>5. CASE LoopEnds
  <2>1. /\ pc = "region" /\ pc' = "cancel" /\ status = "running" /\ fn \in Repeats
        /\ UNCHANGED <<todo, stack, lastCall, alarm>>
    BY <1>5 DEF LoopEnds, Looping, jumpVars
  <2>2. alarm => lastCall # "queue"
    BY <2>1 DEF LandInv
  <2> QED
    BY <2>1, <2>2 DEF LandInv
<1>6. CASE Check
  <2>1. /\ pc = "check" /\ pc' = "region" /\ status = "running" /\ lastCall' = "other"
        /\ UNCHANGED <<todo, stack>>
    BY <1>6 DEF Check
  <2> QED
    BY <2>1 DEF LandInv
<1>7. CASE ShowLoop
  <2>1. /\ pc = "region" /\ pc' = "cancel" /\ status = "running" /\ lastCall' = "other" /\ fn = "show"
        /\ UNCHANGED <<todo, stack>>
    BY <1>7 DEF ShowLoop
  <2> QED
    BY <2>1 DEF LandInv
<1>8. CASE AfterCall
  <2>1. /\ pc = "call" /\ todo' = <<>> /\ status = "running" /\ UNCHANGED alarm
    BY <1>8 DEF AfterCall, CountInsertion, CountRemoval, KeepValue, Returned, jumpVars
  <2>2. CASE CountRemoval
    <3>1. RemovalEffect
      BY <1>8, <2>2, RemovalSteps
    <3>2. CASE Pushed
      BY <2>1, <3>1, <3>2 DEF RemovalEffect, LandInv, Maybe, Pushed
    <3>3. CASE ~Pushed
      BY <2>1, <3>1, <3>3 DEF RemovalEffect, LandInv, Maybe, Repeats
    <3> QED
      BY <3>2, <3>3
  <2>3. CASE CountInsertion
    BY <2>1, <2>3 DEF CountInsertion, LandInv, Repeats
  <2>4. CASE KeepValue
    <3>1. /\ UNCHANGED <<stack, lastCall>> /\ pc' = IF fn = "size" THEN "check" ELSE "cancel"
          /\ fn \in Repeats => fn = "size"
      BY <2>4 DEF KeepValue, Repeats
    <3> QED
      BY <2>1, <3>1 DEF LandInv, Repeats
  <2> QED
    BY <1>8, <2>2, <2>3, <2>4 DEF AfterCall
<1>9. CASE After
  <2>1. pc = "after" /\ pc' \in {"return", "setup"} /\ UNCHANGED <<alarm, todo>> /\ status = "running"
    BY <1>9, AfterSteps DEF AfterEffect, Maybe
  <2> QED
    BY <2>1 DEF JumpInv, LandInv
<1>10. CASE Return
  <2>1. /\ pc = "return" /\ status = "running" /\ UNCHANGED <<alarm, todo>>
        /\ pc' \in {"check", "return", "setup", "idle"}
        /\ pc' = "check" => fn' = "rh"
    BY <1>10, ReturnSteps DEF ReturnEffect
  <2> QED
    BY <2>1 DEF JumpInv, LandInv, Repeats
<1>11. CASE RemoveHeadNoBuffer
  <2>1. pc = "region" /\ pc' = "idle" /\ UNCHANGED todo /\ status = "running"
    BY <1>11 DEF RemoveHeadNoBuffer
  <2> QED
    BY <2>1 DEF LandInv
<1>12. CASE QueueStep
  <2>1. /\ pc = "call" /\ status = "running" /\ todo # <<>> /\ UNCHANGED <<pc, lastCall, alarm, stack>>
    BY <1>12 DEF QueueStep, MallocFails, HeapStep, ListStep, InQueueCode, jumpVars
  <2> QED
    BY <2>1 DEF LandInv
<1>13. CASE sigalrmhandler
  <2>0. status = "running" /\ UNCHANGED <<stack, lastCall>>
    BY <1>13, AlarmJumps
  <2>1. CASE Jumped
    <3>1. /\ pc' \in {"cancel", "call", "region", "after"} /\ ~alarm' /\ todo' = <<>>
          /\ pc' = "call" => fn # "show" /\ lastCall = "queue"
      BY <2>1 DEF Jumped
    <3> QED
      BY <2>0, <3>1 DEF LandInv
  <2>2. CASE ~Jumped
    BY <1>13, <2>0, <2>2, AlarmJumps DEF LandInv
  <2> QED
    BY <2>1, <2>2
<1>14. CASE UNCHANGED vars
  BY <1>14 DEF vars, LandInv, callVars, jumpVars, sessionVars
<1> QED
  BY <1>1, <1>2, <1>3, <1>4, <1>5, <1>6, <1>7, <1>8, <1>9, <1>10, <1>11, <1>12, <1>13, <1>14 DEF Next, TesterStep
-----------------------------------------------------------------------------
(* The stores of a call of queue.c *)

\* Sequences of two and three stores.
LEMMA TwoStores ==
  \A a \in StepNames, b \in StepNames :
    /\ <<a, b>> \in Seq(StepNames) /\ Len(<<a, b>>) = 2
    /\ <<a, b>>[1] = a /\ <<a, b>>[2] = b
<1> SUFFICES ASSUME NEW a \in StepNames, NEW b \in StepNames
             PROVE  /\ <<a, b>> \in Seq(StepNames) /\ Len(<<a, b>>) = 2
                    /\ <<a, b>>[1] = a /\ <<a, b>>[2] = b
  OBVIOUS
<1>1. <<a, b>> \in Seq(StepNames)
  OBVIOUS
<1>2. Len(<<a, b>>) = 2
  OBVIOUS
<1>3. <<a, b>>[1] = a /\ <<a, b>>[2] = b
  OBVIOUS
<1> QED
  BY <1>1, <1>2, <1>3

\* A sequence of three steps.
LEMMA ThreeStores ==
  \A a \in StepNames, b \in StepNames, c \in StepNames :
    /\ <<a, b, c>> \in Seq(StepNames) /\ Len(<<a, b, c>>) = 3
    /\ <<a, b, c>>[1] = a /\ <<a, b, c>>[2] = b /\ <<a, b, c>>[3] = c
<1> SUFFICES ASSUME NEW a \in StepNames, NEW b \in StepNames, NEW c \in StepNames
             PROVE  /\ <<a, b, c>> \in Seq(StepNames) /\ Len(<<a, b, c>>) = 3
                    /\ <<a, b, c>>[1] = a /\ <<a, b, c>>[2] = b /\ <<a, b, c>>[3] = c
  OBVIOUS
<1>1. <<a, b, c>> \in Seq(StepNames)
  OBVIOUS
<1>2. Len(<<a, b, c>>) = 3
  OBVIOUS
<1>3. <<a, b, c>>[1] = a /\ <<a, b, c>>[2] = b /\ <<a, b, c>>[3] = c
  OBVIOUS
<1> QED
  BY <1>1, <1>2, <1>3

\* One sequence of stores after another.
LEMMA Joined ==
  \A s \in Seq(StepNames), t \in Seq(StepNames) :
    /\ s \o t \in Seq(StepNames)
    /\ Len(s \o t) = Len(s) + Len(t)
    /\ \A i \in 1 .. (Len(s) + Len(t)) : (s \o t)[i] = IF i <= Len(s) THEN s[i] ELSE t[i - Len(s)]
BY ConcatProperties

\* The stores of test_malloc and test_free.
LEMMA Steps ==
  /\ test_malloc \in Seq(StepNames) /\ Len(test_malloc) = 3
  /\ test_malloc[1] = "prev" /\ test_malloc[2] = "first" /\ test_malloc[3] = "counted"
  /\ test_free \in Seq(StepNames) /\ Len(test_free) = 3
  /\ test_free[1] = "next" /\ test_free[2] = "back" /\ test_free[3] = "uncounted"
<1> DEFINE Three(s, a, b, c) ==
      s \in Seq(StepNames) /\ Len(s) = 3 /\ s[1] = a /\ s[2] = b /\ s[3] = c
<1>1. \A a \in StepNames, b \in StepNames, c \in StepNames : Three(<<a, b, c>>, a, b, c)
  BY ThreeStores
<1>2. {"prev", "first", "counted", "next", "back", "uncounted"} \subseteq StepNames
  BY DEF StepNames
<1>3. test_malloc = <<"prev", "first", "counted">> /\ test_free = <<"next", "back", "uncounted">>
  BY DEF test_malloc, test_free
<1> HIDE DEF Three
<1>4. Three(test_malloc, "prev", "first", "counted") /\ Three(test_free, "next", "back", "uncounted")
  BY <1>1, <1>2, <1>3
<1> QED
  BY <1>4 DEF Three

\* The steps of an insertion whose element has been allocated.
LEMMA AllocateSteps ==
  /\ AllocateValue \in Seq(StepNames) /\ Len(AllocateValue) = 5
  /\ AllocateValue[1] = "prev" /\ AllocateValue[2] = "first" /\ AllocateValue[3] = "counted"
  /\ AllocateValue[4] = "link" /\ AllocateValue[5] = "grow"
<1> DEFINE t == <<"link", "grow">>
<1>1. t \in Seq(StepNames) /\ Len(t) = 2 /\ t[1] = "link" /\ t[2] = "grow"
  <2>1. "link" \in StepNames /\ "grow" \in StepNames
    BY DEF StepNames
  <2> QED
    BY <2>1, TwoStores
<1>2. AllocateValue = test_malloc \o t
  BY DEF AllocateValue
<1> HIDE DEF t
<1>3. /\ AllocateValue \in Seq(StepNames) /\ Len(AllocateValue) = Len(test_malloc) + Len(t)
      /\ \A i \in 1 .. (Len(test_malloc) + Len(t)) :
            AllocateValue[i] = IF i <= Len(test_malloc) THEN test_malloc[i] ELSE t[i - Len(test_malloc)]
  BY <1>1, <1>2, Steps, Joined
<1>4. Len(test_malloc) + Len(t) = 5 /\ Len(test_malloc) = 3
  BY <1>1, Steps
<1>5. /\ AllocateValue \in Seq(StepNames) /\ Len(AllocateValue) = 5
      /\ \A i \in 1 .. 5 : AllocateValue[i] = IF i <= 3 THEN test_malloc[i] ELSE t[i - 3]
  BY <1>3, <1>4
<1> HIDE DEF AllocateValue, test_malloc
<1> QED
  BY <1>1, <1>5, Steps

\* The steps of an insertion.
LEMMA InsertSteps ==
  ASSUME NEW s, s = test_malloc \o AllocateValue
  PROVE  /\ s \in Seq(StepNames) /\ Len(s) = 8
         /\ s[1] = "prev" /\ s[2] = "first" /\ s[3] = "counted" /\ s[4] = "prev"
         /\ s[5] = "first" /\ s[6] = "counted" /\ s[7] = "link" /\ s[8] = "grow"
<1>1. /\ s \in Seq(StepNames) /\ Len(s) = Len(test_malloc) + Len(AllocateValue)
      /\ \A i \in 1 .. (Len(test_malloc) + Len(AllocateValue)) :
            s[i] = IF i <= Len(test_malloc) THEN test_malloc[i] ELSE AllocateValue[i - Len(test_malloc)]
  BY Steps, AllocateSteps, Joined
<1>2. Len(test_malloc) + Len(AllocateValue) = 8 /\ Len(test_malloc) = 3
  BY Steps, AllocateSteps
<1>3. /\ s \in Seq(StepNames) /\ Len(s) = 8
      /\ \A i \in 1 .. 8 : s[i] = IF i <= 3 THEN test_malloc[i] ELSE AllocateValue[i - 3]
  BY <1>1, <1>2
<1>4. AllocateValue[1] = "prev" /\ AllocateValue[2] = "first" /\ AllocateValue[3] = "counted"
  BY AllocateSteps
<1>5. AllocateValue[4] = "link" /\ AllocateValue[5] = "grow"
  BY AllocateSteps
<1>6. test_malloc[1] = "prev" /\ test_malloc[2] = "first" /\ test_malloc[3] = "counted"
  BY Steps
<1> HIDE DEF AllocateValue, test_malloc
<1>7. s[1] = "prev" /\ s[2] = "first" /\ s[3] = "counted"
  BY ONLY <1>3, <1>6
<1>8. s[4] = "prev" /\ s[5] = "first" /\ s[6] = "counted" /\ s[7] = "link" /\ s[8] = "grow"
  BY ONLY <1>3, <1>4, <1>5
<1> QED
  BY <1>3, <1>7, <1>8

\* The steps of a removal.
LEMMA RemoveSteps ==
  ASSUME NEW s, s = <<"unlink", "shrink">> \o test_free \o test_free
  PROVE  /\ s \in Seq(StepNames) /\ Len(s) = 8
         /\ s[1] = "unlink" /\ s[2] = "shrink" /\ s[3] = "next" /\ s[4] = "back"
         /\ s[5] = "uncounted" /\ s[6] = "next" /\ s[7] = "back" /\ s[8] = "uncounted"
<1> DEFINE t == <<"unlink", "shrink">>
           u == t \o test_free
<1>1. t \in Seq(StepNames) /\ Len(t) = 2 /\ t[1] = "unlink" /\ t[2] = "shrink"
  <2>1. "unlink" \in StepNames /\ "shrink" \in StepNames
    BY DEF StepNames
  <2> QED
    BY <2>1, TwoStores
<1>2. s = u \o test_free
  OBVIOUS
<1> HIDE DEF t
<1>3. /\ u \in Seq(StepNames) /\ Len(u) = Len(t) + Len(test_free)
      /\ \A i \in 1 .. (Len(t) + Len(test_free)) :
            u[i] = IF i <= Len(t) THEN t[i] ELSE test_free[i - Len(t)]
  BY <1>1, Steps, Joined
<1> HIDE DEF u
<1>4. Len(u) = 5 /\ \A i \in 1 .. 5 : u[i] = IF i <= 2 THEN t[i] ELSE test_free[i - 2]
  BY <1>1, <1>3, Steps
<1>5. /\ s \in Seq(StepNames) /\ Len(s) = Len(u) + Len(test_free)
      /\ \A i \in 1 .. (Len(u) + Len(test_free)) :
            s[i] = IF i <= Len(u) THEN u[i] ELSE test_free[i - Len(u)]
  <2>1. test_free \in Seq(StepNames)
    BY Steps
  <2> QED
    BY ONLY <1>2, <1>3, <2>1, Joined
<1>6. Len(s) = 8 /\ \A i \in 1 .. 8 : s[i] = IF i <= 5 THEN u[i] ELSE test_free[i - 5]
  BY <1>4, <1>5, Steps
<1> QED
  BY <1>1, <1>4, <1>5, <1>6, Steps

\* The plans, step by step.
LEMMA Plans ==
  /\ NewPlan[1] = "counted" /\ NewPlan[2] = "first" /\ NewPlan[3] = "prev"
  /\ InsertPlan[1] = "grow" /\ InsertPlan[2] = "link" /\ InsertPlan[3] = "counted"
  /\ InsertPlan[4] = "first" /\ InsertPlan[5] = "prev" /\ InsertPlan[6] = "counted"
  /\ InsertPlan[7] = "first" /\ InsertPlan[8] = "prev"
  /\ RemovePlan[1] = "uncounted" /\ RemovePlan[2] = "back" /\ RemovePlan[3] = "next"
  /\ RemovePlan[4] = "uncounted" /\ RemovePlan[5] = "back" /\ RemovePlan[6] = "next"
  /\ RemovePlan[7] = "shrink" /\ RemovePlan[8] = "unlink"
  /\ RelinkPlan[1] = "relink"
  /\ \A j \in Nat \ {0} : FreePlan[j] = IF j % 3 = 1 THEN "uncounted" ELSE IF j % 3 = 2 THEN "back" ELSE "next"
BY DEF NewPlan, InsertPlan, RemovePlan, RelinkPlan, FreePlan

\* A step that is done is the first of those to come, and is dropped.
LEMMA StepDone ==
  ASSUME todo \in Seq(StepNames), todo # <<>>
  PROVE  /\ Left \in Nat /\ Left > 0 /\ todo[1] = Head(todo)
         /\ todo' = Tail(todo) =>
              /\ todo' \in Seq(StepNames) /\ Left' = Left - 1
              /\ \A i \in 1 .. Left' : todo'[i] = todo[i + 1]
         /\ \A plan : Follows(plan) => Head(todo) = plan[Left]
         /\ \A plan : Follows(plan) /\ todo' = Tail(todo) => Follows(plan)'
<1>1. Left \in Nat /\ Left > 0 /\ todo[1] = Head(todo)
  BY EmptySeq, LenProperties DEF Left
<1>2. ASSUME todo' = Tail(todo)
      PROVE  /\ todo' \in Seq(StepNames) /\ Left' = Left - 1
             /\ \A i \in 1 .. Left' : todo'[i] = todo[i + 1]
  BY <1>1, <1>2, HeadTailProperties DEF Left
<1>3. ASSUME NEW plan, Follows(plan) PROVE Head(todo) = plan[Left]
  BY <1>1, <1>3 DEF Follows
<1>4. ASSUME NEW plan, Follows(plan), todo' = Tail(todo) PROVE \A i \in 1 .. Left' : todo'[i] = plan[Left' - i + 1]
  <2> SUFFICES ASSUME NEW i \in 1 .. Left' PROVE todo'[i] = plan[Left' - i + 1]
    OBVIOUS
  <2>1. Left' = Left - 1 /\ todo'[i] = todo[i + 1]
    BY <1>2, <1>4
  <2>2. i + 1 \in 1 .. Left
    BY <1>1, <2>1
  <2>3. todo[i + 1] = plan[Left - (i + 1) + 1]
    BY <1>4, <2>2 DEF Follows
  <2> QED
    BY <1>1, <2>1, <2>2, <2>3
<1> QED
  BY <1>1, <1>2, <1>3, <1>4 DEF Follows
\* The plans, as sequences that follow them.
LEMMA EmptyPlan ==
  ASSUME todo' = <<>>
  PROVE  /\ todo' \in Seq(StepNames) /\ Left' = 0
         /\ \A plan : Follows(plan)'
<1>1. todo' \in Seq(StepNames) /\ Left' = 0
  BY DEF Left
<1>2. \A plan : \A i \in 1 .. Left' : todo'[i] = plan[Left' - i + 1]
  BY <1>1
<1> QED
  BY <1>1, <1>2 DEF Follows

\* q_new follows its plan.
LEMMA NewCall ==
  ASSUME todo' = test_malloc
  PROVE  todo' \in Seq(StepNames) /\ Left' = 3 /\ Follows(NewPlan)'
<1>1. /\ todo' \in Seq(StepNames) /\ Left' = 3
      /\ todo'[1] = "prev" /\ todo'[2] = "first" /\ todo'[3] = "counted"
  BY Steps DEF Left
<1>2. \A i \in 1 .. Left' : todo'[i] = NewPlan[Left' - i + 1]
  <2> SUFFICES ASSUME NEW i \in 1 .. 3 PROVE todo'[i] = NewPlan[3 - i + 1]
    BY <1>1
  <2>1. i = 1 \/ i = 2 \/ i = 3
    OBVIOUS
  <2> QED
    BY <1>1, <2>1, Plans
<1> QED
  BY <1>1, <1>2 DEF Follows

\* So does an insertion that frees its element again.
LEMMA UndoCall ==
  ASSUME todo' = test_free
  PROVE  todo' \in Seq(StepNames) /\ Left' = 3 /\ Follows(FreePlan)'
<1>1. /\ todo' \in Seq(StepNames) /\ Left' = 3
      /\ todo'[1] = "next" /\ todo'[2] = "back" /\ todo'[3] = "uncounted"
  BY Steps DEF Left
<1>2. FreePlan[1] = "uncounted" /\ FreePlan[2] = "back" /\ FreePlan[3] = "next"
  BY Plans
<1>3. \A i \in 1 .. Left' : todo'[i] = FreePlan[Left' - i + 1]
  <2> SUFFICES ASSUME NEW i \in 1 .. 3 PROVE todo'[i] = FreePlan[3 - i + 1]
    BY <1>1
  <2>1. i = 1 \/ i = 2 \/ i = 3
    OBVIOUS
  <2> QED
    BY <1>1, <1>2, <2>1
<1> QED
  BY <1>1, <1>3 DEF Follows

\* So does an insertion.
LEMMA InsertCall ==
  ASSUME todo' = test_malloc \o AllocateValue
  PROVE  todo' \in Seq(StepNames) /\ Left' = 8 /\ Follows(InsertPlan)'
<1> DEFINE s == todo'
<1>0. s = test_malloc \o AllocateValue
  OBVIOUS
<1> HIDE DEF s
<1>1. /\ s \in Seq(StepNames) /\ Len(s) = 8
      /\ s[1] = "prev" /\ s[2] = "first" /\ s[3] = "counted" /\ s[4] = "prev"
      /\ s[5] = "first" /\ s[6] = "counted" /\ s[7] = "link" /\ s[8] = "grow"
  BY ONLY <1>0, InsertSteps
<1>2. \A i \in 1 .. 8 : s[i] = InsertPlan[8 - i + 1]
  <2> SUFFICES ASSUME NEW i \in 1 .. 8 PROVE s[i] = InsertPlan[8 - i + 1]
    OBVIOUS
  <2>1. i = 1 \/ i = 2 \/ i = 3 \/ i = 4 \/ i = 5 \/ i = 6 \/ i = 7 \/ i = 8
    OBVIOUS
  <2> QED
    BY ONLY <1>1, <2>1, Plans
<1> QED
  BY <1>1, <1>2 DEF s, Left, Follows

\* So does a removal.
LEMMA RemoveCall ==
  ASSUME todo' = <<"unlink", "shrink">> \o test_free \o test_free
  PROVE  todo' \in Seq(StepNames) /\ Left' = 8 /\ Follows(RemovePlan)'
<1> DEFINE s == todo'
<1>0. s = <<"unlink", "shrink">> \o test_free \o test_free
  OBVIOUS
<1> HIDE DEF s
<1>1. /\ s \in Seq(StepNames) /\ Len(s) = 8
      /\ s[1] = "unlink" /\ s[2] = "shrink" /\ s[3] = "next" /\ s[4] = "back"
      /\ s[5] = "uncounted" /\ s[6] = "next" /\ s[7] = "back" /\ s[8] = "uncounted"
  BY ONLY <1>0, RemoveSteps
<1>2. \A i \in 1 .. 8 : s[i] = RemovePlan[8 - i + 1]
  <2> SUFFICES ASSUME NEW i \in 1 .. 8 PROVE s[i] = RemovePlan[8 - i + 1]
    OBVIOUS
  <2>1. i = 1 \/ i = 2 \/ i = 3 \/ i = 4 \/ i = 5 \/ i = 6 \/ i = 7 \/ i = 8
    OBVIOUS
  <2> QED
    BY ONLY <1>1, <2>1, Plans
<1> QED
  BY <1>1, <1>2 DEF s, Left, Follows

\* So do q_reverse and q_sort.
LEMMA RelinkCall ==
  ASSUME todo' = <<"relink">>
  PROVE  todo' \in Seq(StepNames) /\ Left' = 1 /\ Follows(RelinkPlan)'
<1>1. "relink" \in StepNames
  BY DEF StepNames
<1>2. todo' \in Seq(StepNames) /\ Left' = 1 /\ todo'[1] = "relink"
  BY <1>1 DEF Left
<1>3. \A i \in 1 .. Left' : todo'[i] = RelinkPlan[Left' - i + 1]
  <2> SUFFICES ASSUME NEW i \in 1 .. 1 PROVE todo'[i] = RelinkPlan[1 - i + 1]
    BY <1>2
  <2> QED
    BY <1>2, Plans
<1> QED
  BY <1>2, <1>3 DEF Follows

\* So does q_free: test_free for the queue and for two blocks per element.
LEMMA FreeCall ==
  ASSUME len \in Nat, todo' = [i \in 1..(3 * (2 * len + 1)) |-> test_free[((i - 1) % 3) + 1]]
  PROVE  todo' \in Seq(StepNames) /\ Left' = 3 * (2 * len + 1) /\ Follows(FreePlan)'
<1> DEFINE s == todo' L == 3 * (2 * len + 1)
<1>0. /\ L \in Nat
      /\ s = [i \in 1 .. L |-> test_free[((i - 1) % 3) + 1]]
  OBVIOUS
<1>1. \A i \in 1 .. L : s[i] = IF i % 3 = 1 THEN "next" ELSE IF i % 3 = 2 THEN "back" ELSE "uncounted"
  <2> SUFFICES ASSUME NEW i \in 1 .. L
               PROVE  s[i] = IF i % 3 = 1 THEN "next" ELSE IF i % 3 = 2 THEN "back" ELSE "uncounted"
    OBVIOUS
  <2>1. s[i] = test_free[((i - 1) % 3) + 1]
    BY <1>0
  <2>2. i \in Int
    BY <1>0
  <2>3. \/ i % 3 = 1 /\ ((i - 1) % 3) + 1 = 1
        \/ i % 3 = 2 /\ ((i - 1) % 3) + 1 = 2
        \/ i % 3 = 0 /\ ((i - 1) % 3) + 1 = 3
    BY ONLY <2>2
  <2> QED
    BY <2>1, <2>3, Steps
<1>2. DOMAIN s = 1 .. L
  BY <1>0
<1> HIDE DEF s
<1>3. \A i \in 1 .. L : s[i] \in StepNames
  BY <1>1 DEF StepNames
<1>4. s = [i \in 1 .. L |-> s[i]]
  <2>1. s = [i \in 1 .. L |-> test_free[((i - 1) % 3) + 1]]
    BY <1>0
  <2> QED
    BY <1>0, <2>1
<1> HIDE DEF L
<1>5. s \in Seq(StepNames) /\ Len(s) = L
  BY ONLY <1>0, <1>2, <1>3, <1>4, SeqDef, LenProperties
<1>6. \A i \in 1 .. L : s[i] = FreePlan[L - i + 1]
  <2> SUFFICES ASSUME NEW i \in 1 .. L PROVE s[i] = FreePlan[L - i + 1]
    OBVIOUS
  <2>1. i \in Int /\ L - i + 1 \in Nat \ {0}
    BY <1>0
  <2>2. \/ i % 3 = 1 /\ (L - i + 1) % 3 = 0
        \/ i % 3 = 2 /\ (L - i + 1) % 3 = 2
        \/ i % 3 = 0 /\ (L - i + 1) % 3 = 1
    BY ONLY <2>1, len \in Nat DEF L
  <2>3. FreePlan[L - i + 1] = IF (L - i + 1) % 3 = 1 THEN "uncounted"
                              ELSE IF (L - i + 1) % 3 = 2 THEN "back" ELSE "next"
    BY <2>1, Plans
  <2>4. s[i] = IF i % 3 = 1 THEN "next" ELSE IF i % 3 = 2 THEN "back" ELSE "uncounted"
    BY <1>1
  <2> QED
    BY ONLY <2>2, <2>3, <2>4
<1> QED
  BY <1>5, <1>6 DEF s, L, Left, Follows

\* A step of the queue code leaves the rest of the plan.
LEMMA TodoStep ==
  ASSUME StackInv, TodoInv, status = "running", pc = "call", todo # <<>>, todo' = Tail(todo),
         UNCHANGED <<stack, pc, rval, q>>
  PROVE  TodoInv'
<1>1. todo \in Seq(StepNames) /\ fn' = fn
  BY FunctionAfter DEF TodoInv
<1>2. /\ Left \in Nat /\ Left > 0 /\ Left' = Left - 1
      /\ todo' \in Seq(StepNames)
      /\ \A plan : Follows(plan) => Follows(plan)'
  BY <1>1, StepDone
<1> QED
  BY <1>1, <1>2 DEF TodoInv

\* The queue code keeps to its plans, also after an allocation fails.
LEMMA NextTodoInv ==
  ASSUME TypeOK, StackInv, ControlInv, JumpInv, LandInv, TodoInv, [Next]_vars PROVE TodoInv'
<1> USE FunctionAfter, Typed DEF Goto
<1>1. ASSUME pc' # "call" PROVE TodoInv'
  BY <1>1 DEF TodoInv
<1>2. ASSUME NEW c \in Commands, NEW n \in 1..MaxReps, Start(c, n) PROVE TodoInv'
  <2>1. StartEffect(c, n)
    BY <1>2, StartSteps
  <2> QED
    BY <1>1, <2>1 DEF StartEffect
<1>3. CASE exception_setup \/ exception_cancel \/ LoopEnds \/ Check \/ ShowLoop
  BY <1>1, <1>3 DEF exception_setup, exception_cancel, LoopEnds, Check, ShowLoop
<1>4. CASE AfterCall
  BY <1>1, <1>4 DEF AfterCall, CountInsertion, CountRemoval, KeepValue, Enter
<1>5. CASE After
  BY <1>1, <1>5, AfterSteps DEF AfterEffect, Maybe
<1>6. CASE Return
  BY <1>1, <1>6, ReturnSteps DEF ReturnEffect
<1>7. CASE RemoveHeadNoBuffer
  BY <1>1, <1>7 DEF RemoveHeadNoBuffer
<1>8. CASE Call
  <2>1. /\ fn # "show" /\ todo' = Pending(fn) /\ fn' = fn /\ UNCHANGED <<q, len>>
        /\ rval' = CASE fn \in Inserts -> q [] fn \in {"rh", "rhq"} -> q /\ len > 0 [] OTHER -> TRUE
    BY <1>8 DEF Call, queueVars
  <2>2. len \in Nat /\ q \in BOOLEAN /\ fn \in Commands
    <3>1. Depth # 0 /\ Depth \in 0 .. 2
      BY <1>8 DEF Call, StackInv
    <3> QED
      BY <3>1, FrameOf, QTestAssumption DEF TypeOK
  <2>3. CASE todo' = <<>>
    <3>1. fn = "new" => todo' = test_malloc
      BY <2>1 DEF Pending, Inserts
    <3>2. fn # "new"
      BY <2>3, <3>1, NewCall, EmptyPlan
    <3>3. fn \in Inserts => ~q
      <4>1. fn \in Inserts /\ q => todo' = test_malloc \o AllocateValue
        BY <2>1, <3>2 DEF Pending, Inserts
      <4> QED
        BY <2>3, <4>1, InsertCall, EmptyPlan
    <3> QED
      BY <2>1, <2>2, <2>3, <3>2, <3>3, EmptyPlan DEF TodoInv
  <2>4. CASE fn = "new"
    <3>1. todo' = test_malloc /\ rval'
      BY <2>1, <2>4 DEF Pending, Inserts
    <3> QED
      BY <2>1, <2>4, <3>1, NewCall DEF TodoInv, Inserts, Removes, Frees
  <2>5. CASE fn \in Frees /\ q
    <3>1. todo' = [i \in 1..(3 * (2 * len + 1)) |-> test_free[((i - 1) % 3) + 1]]
      BY <2>1, <2>5 DEF Pending, Frees, Inserts
    <3>2. todo' \in Seq(StepNames) /\ Follows(FreePlan)'
      BY <2>2, <3>1, FreeCall
    <3> QED
      BY <2>1, <2>5, <3>2 DEF TodoInv, Inserts, Removes, Frees
  <2>6. CASE fn \in Inserts /\ q
    <3>1. todo' = test_malloc \o AllocateValue /\ rval'
      BY <2>1, <2>6 DEF Pending, Inserts
    <3> QED
      BY <2>1, <2>6, <3>1, InsertCall DEF TodoInv, Inserts, Removes, Frees
  <2>7. CASE fn \in Removes /\ q /\ len > 0
    <3>1. todo' = <<"unlink", "shrink">> \o test_free \o test_free /\ rval'
      BY <2>1, <2>2, <2>7 DEF Pending, Removes, Inserts
    <3> QED
      BY <2>1, <2>7, <3>1, RemoveCall DEF TodoInv, Inserts, Removes, Frees
  <2>8. CASE fn \in {"reverse", "sort"} /\ q /\ len > 0
    <3>1. todo' = <<"relink">>
      BY <2>1, <2>8 DEF Pending, Inserts
    <3> QED
      BY <2>1, <2>8, <3>1, RelinkCall DEF TodoInv, Inserts, Removes, Frees
  <2>9. CASE /\ fn # "new" /\ ~(fn \in Frees /\ q) /\ ~(fn \in Inserts /\ q)
             /\ ~(fn \in Removes /\ q /\ len > 0) /\ ~(fn \in {"reverse", "sort"} /\ q /\ len > 0)
    BY <2>1, <2>3, <2>9 DEF Pending, Frees, Removes
  <2> QED
    BY <2>4, <2>5, <2>6, <2>7, <2>8, <2>9
<1>9. CASE MallocFails
  <2>1. /\ pc = "call" /\ status = "running" /\ todo # <<>> /\ Head(todo) = "prev" /\ ~rval'
        /\ UNCHANGED <<stack, pc, status, q, len>>
        /\ todo' = IF todo = AllocateValue THEN test_free ELSE <<>>
    BY <1>9 DEF MallocFails, InQueueCode, queueVars, sessionVars
  <2>2. fn' = fn /\ todo \in Seq(StepNames)
    BY <2>1 DEF TodoInv
  <2>3. Head(todo) = todo[1] /\ Left \in Nat /\ Left > 0 /\ \A plan : Follows(plan) => Head(todo) = plan[Left]
    BY <2>1, <2>2, StepDone
  <2>4. CASE todo = AllocateValue
    <3>1. Left = 5
      BY <2>4, AllocateSteps DEF Left
    <3>2. RemovePlan[5] = "back" /\ FreePlan[5] = "back"
      BY Plans
    <3>3. fn \notin Removes /\ fn \notin Frees
      BY <2>1, <2>3, <3>1, <3>2 DEF TodoInv
    <3>4. fn \notin {"new", "reverse", "sort", "size"}
      BY <2>1, <3>1 DEF TodoInv
    <3>5. todo' \in Seq(StepNames) /\ Left' = 3 /\ Follows(FreePlan)'
      BY <2>1, <2>4, UndoCall
    <3> QED
      BY <2>1, <2>2, <3>3, <3>4, <3>5 DEF TodoInv
  <2>5. CASE todo # AllocateValue
    <3>1. todo' = <<>>
      BY <2>1, <2>5
    <3> QED
      BY <2>1, <2>2, <3>1, EmptyPlan DEF TodoInv
  <2> QED
    BY <2>4, <2>5
<1>10. CASE HeapStep \/ ListStep
  <2>1. /\ pc = "call" /\ status = "running" /\ todo # <<>> /\ todo' = Tail(todo)
        /\ UNCHANGED <<stack, pc, rval, q>>
    BY <1>10 DEF HeapStep, ListStep, InQueueCode, queueVars
  <2> QED
    BY <2>1, TodoStep
<1>11. CASE sigalrmhandler
  <2>1. CASE Jumped /\ pc' = "call"
    <3>1. todo' = <<>> /\ ~rval' /\ fn' = fn
      BY <1>11, <2>1, AlarmJumps DEF Jumped
    <3> QED
      BY <3>1, EmptyPlan DEF TodoInv
  <2>2. CASE ~Jumped
    <3>1. pc = "idle" /\ UNCHANGED pc
      BY <1>11, <2>2, AlarmJumps
    <3> QED
      BY <1>1, <3>1
  <2> QED
    BY <1>1, <2>1, <2>2
<1>12. CASE UNCHANGED vars
  <2>1. UNCHANGED <<stack, pc, status, q, len, rval, todo>>
    BY <1>12 DEF vars, callVars, queueVars, sessionVars
  <2> QED
    BY <2>1 DEF TodoInv, Left, Follows
<1> QED
  BY <1>2, <1>3, <1>4, <1>5, <1>6, <1>7, <1>8, <1>9, <1>10, <1>11, <1>12 DEF Next, TesterStep, QueueStep
-----------------------------------------------------------------------------
(* The effect of a store on the accounts *)

\* Which store is next, by the function and the number of stores to come.
NextStore ==
  LET h == Head(todo) IN
  \/ /\ fn = "new" /\ rval
     /\ \/ Left = 1 /\ h = "counted"
        \/ Left = 2 /\ h = "first"
        \/ Left = 3 /\ h = "prev"
  \/ /\ fn \in Inserts /\ rval /\ q
     /\ \/ Left = 1 /\ h = "grow"
        \/ Left = 2 /\ h = "link"
        \/ Left \in {3, 6} /\ h = "counted"
        \/ Left \in {4, 7} /\ h = "first"
        \/ Left \in {5, 8} /\ h = "prev"
  \/ /\ fn \in Inserts /\ ~rval
     /\ \/ Left = 1 /\ h = "uncounted"
        \/ Left = 2 /\ h = "back"
        \/ Left = 3 /\ h = "next"
  \/ /\ fn \in Removes /\ rval /\ q
     /\ \/ Left \in {1, 4} /\ h = "uncounted"
        \/ Left \in {2, 5} /\ h = "back"
        \/ Left \in {3, 6} /\ h = "next"
        \/ Left = 7 /\ h = "shrink"
        \/ Left = 8 /\ h = "unlink" /\ len > 0
  \/ /\ fn \in Frees /\ q
     /\ \/ Left % 3 = 1 /\ h = "uncounted"
        \/ Left % 3 = 2 /\ h = "back"
        \/ Left % 3 = 0 /\ h = "next"
  \/ /\ fn \in {"reverse", "sort"} /\ q /\ Left = 1 /\ h = "relink"

\* The next step, from the number of the steps left.
LEMMA NextStoreIs ==
  ASSUME StackInv, LandInv, TodoInv, status = "running", pc = "call", todo # <<>>
  PROVE  NextStore /\ Left \in Nat /\ Left > 0 /\ (todo' = Tail(todo) => Left' = Left - 1)
<1>1. /\ fn \in Commands /\ fn # "show"
      /\ todo \in Seq(StepNames)
  <2>1. Depth # 0 /\ Depth \in 0 .. 2
    BY DEF StackInv
  <2> QED
    BY <2>1, FrameOf DEF TodoInv, LandInv
<1>2. /\ Left \in Nat /\ Left > 0 /\ (todo' = Tail(todo) => Left' = Left - 1)
      /\ \A plan : Follows(plan) => Head(todo) = plan[Left]
  BY <1>1, StepDone
<1>3. CASE fn = "new"
  <2>1. Left \in {1, 2, 3} /\ rval /\ Head(todo) = NewPlan[Left]
    BY <1>2, <1>3 DEF TodoInv
  <2> QED
    BY <1>2, <1>3, <2>1, Plans DEF NextStore
<1>4. CASE fn \in Inserts /\ rval
  <2>1. Left \in {1, 2, 3, 4, 5, 6, 7, 8} /\ q /\ Head(todo) = InsertPlan[Left]
    BY <1>2, <1>4 DEF TodoInv
  <2> QED
    BY <1>2, <1>4, <2>1, Plans DEF NextStore
<1>5. CASE fn \in Inserts /\ ~rval
  <2>1. Left \in {1, 2, 3} /\ Head(todo) = FreePlan[Left]
    BY <1>2, <1>5 DEF TodoInv
  <2>2. FreePlan[1] = "uncounted" /\ FreePlan[2] = "back" /\ FreePlan[3] = "next"
    BY Plans
  <2> QED
    BY <1>2, <1>5, <2>1, <2>2 DEF NextStore
<1>6. CASE fn \in Removes
  <2>1. Left \in {1, 2, 3, 4, 5, 6, 7, 8} /\ q /\ rval /\ (Left = 8 => len > 0) /\ Head(todo) = RemovePlan[Left]
    BY <1>2, <1>6 DEF TodoInv
  <2> QED
    BY <1>2, <1>6, <2>1, Plans DEF NextStore
<1>7. CASE fn \in Frees
  <2>1. q /\ Head(todo) = FreePlan[Left]
    BY <1>2, <1>7 DEF TodoInv
  <2>2. FreePlan[Left] = IF Left % 3 = 1 THEN "uncounted" ELSE IF Left % 3 = 2 THEN "back" ELSE "next"
    BY <1>2, Plans
  <2>3. Left % 3 \in {0, 1, 2}
    BY <1>2
  <2> QED
    BY <1>2, <1>7, <2>1, <2>2, <2>3 DEF NextStore
<1>8. CASE fn \in {"reverse", "sort"}
  <2>1. Left = 1 /\ q /\ Head(todo) = RelinkPlan[Left]
    BY <1>2, <1>8 DEF TodoInv
  <2> QED
    BY <1>2, <1>8, <2>1, Plans DEF NextStore
<1>9. CASE fn = "size"
  BY <1>2, <1>9 DEF TodoInv
<1> QED
  BY <1>1, <1>3, <1>4, <1>5, <1>6, <1>7, <1>8, <1>9 DEF Commands, Repeats, Removes, Frees
Kinds == \A f \in Commands :
  /\ f \in Inserts => f \notin Removes /\ f \notin Frees /\ f \notin {"new", "reverse", "sort", "size", "show"}
  /\ f \in Removes => f \notin Frees /\ f \notin {"new", "reverse", "sort", "size", "show"}
  /\ f \in Frees => f \notin {"new", "reverse", "sort", "size", "show"}
  /\ f \in Repeats <=> f \in Inserts \/ f \in {"rh", "size"}
  /\ f \in Removes <=> f \in {"rh", "rhq"}
  /\ f \in Inserts \/ f \in Removes \/ f \in Frees \/ f \in {"new", "reverse", "sort", "size", "show"}

\* No command is of two kinds.
LEMMA KindsOfCommands == Kinds
BY DEF Kinds, Commands, Repeats, Inserts, Removes, Frees

\* What is due is a number.
LEMMA DueTypes ==
  ASSUME Left \in Nat
  PROVE  {CountDue, ListDue, LinkDue, GrowDue} \subseteq Int
<1>1. (Left + 2) \div 3 \in Int /\ Left \div 3 \in Int
  OBVIOUS
<1>2. \A b : One(b) \in Int
  BY DEF One
<1>3. CountDue \in Int
  BY <1>1, <1>2 DEF CountDue
<1>4. ListDue \in Int
  BY <1>1, <1>2 DEF ListDue
<1>5. LinkDue \in Int /\ GrowDue \in Int
  BY <1>2 DEF LinkDue, GrowDue
<1> QED
  BY <1>3, <1>4, <1>5

\* One store of the allocator: what it adds is no longer due.
HeapEffect ==
  /\ UNCHANGED <<noallocate, cautious, errorOccurred, torn, jmpReady, timeLimited, alarm, q, len, qSize,
                broken, stack, pc, reps, rep, ok, rval, lastCall, qcnt, failCount, verblevel, status,
                cut, cuts, noBuffer, result>>
  /\ pc = "call" /\ status = "running" /\ fn' = fn
  /\ allocatedCount' + CountDue' = allocatedCount + CountDue
  /\ allocated' + ListDue' = allocated + ListDue
  /\ LinkDue' = LinkDue /\ GrowDue' = GrowDue

\* A store of the allocator moves a block from what is due to what is there.
LEMMA HeapSteps ==
  ASSUME TypeOK, StackInv, ControlInv, LandInv, TodoInv, HeapStep PROVE HeapEffect
<1>1. /\ pc = "call" /\ status = "running" /\ todo # <<>> /\ todo' = Tail(todo)
      /\ Head(todo) \in Stores /\ Store(Head(todo))
      /\ status' = IF noallocate THEN "exited" ELSE status
      /\ UNCHANGED <<noallocate, cautious, errorOccurred, jmpReady, timeLimited, alarm, q, len, qSize,
                broken, stack, pc, reps, rep, ok, rval, lastCall, qcnt, failCount, verblevel, cut, cuts,
                noBuffer, result>>
  BY DEF HeapStep, InQueueCode, modeVars, jumpVars, queueVars
<1>2. NextStore /\ Left \in Nat /\ Left > 0 /\ Left' = Left - 1 /\ fn' = fn
  BY <1>1, NextStoreIs, FunctionAfter
<1>3. Head(todo) \in {"prev", "first", "counted", "next", "back", "uncounted"}
  <2>1. Range(test_malloc) \subseteq {"prev", "first", "counted"}
    <3>1. DOMAIN test_malloc = 1 .. 3
      BY Steps, LenProperties
    <3> QED
      BY <3>1, Steps DEF Range
  <2>2. Range(test_free) \subseteq {"next", "back", "uncounted"}
    <3>1. DOMAIN test_free = 1 .. 3
      BY Steps, LenProperties
    <3> QED
      BY <3>1, Steps DEF Range
  <2> QED
    BY <1>1, <2>1, <2>2 DEF Stores
<1>4. fn \in Commands /\ fn \notin {"reverse", "sort"}
  <2>1. Depth # 0 /\ Depth \in 0 .. 2
    BY <1>1 DEF StackInv
  <2>2. fn \in Commands
    BY <2>1, FrameOf
  <2>3. fn \in {"reverse", "sort"} => Head(todo) = "relink"
    BY <1>2, <2>2, KindsOfCommands DEF NextStore, Kinds
  <2> QED
    BY <1>3, <2>2, <2>3
<1>5. status' = status
  BY <1>1, <1>4 DEF ControlInv
<1>6. /\ allocated' = CASE Head(todo) = "first" -> allocated + 1
                         [] Head(todo) = "next" -> allocated - 1
                         [] OTHER -> allocated
      /\ allocatedCount' = CASE Head(todo) = "counted" -> allocatedCount + 1
                              [] Head(todo) = "uncounted" -> allocatedCount - 1
                              [] OTHER -> allocatedCount
      /\ torn' = torn
  BY <1>1 DEF Store
<1>7. allocated \in Int /\ allocatedCount \in Int /\ rval' = rval /\ pc' = pc
  BY <1>1 DEF TypeOK, HarnessTypeOK
<1> DEFINE Balanced ==
      /\ allocatedCount' + CountDue' = allocatedCount + CountDue
      /\ allocated' + ListDue' = allocated + ListDue
      /\ LinkDue' = LinkDue /\ GrowDue' = GrowDue
<1>8. ASSUME fn = "new" /\ rval PROVE Balanced
  <2>1. fn \notin Inserts /\ fn \notin Removes /\ fn \notin Frees
    BY <1>8 DEF Inserts, Removes, Frees
  <2>2. \/ Left = 1 /\ Head(todo) = "counted"
        \/ Left = 2 /\ Head(todo) = "first"
        \/ Left = 3 /\ Head(todo) = "prev"
    BY <1>2, <1>8, <2>1 DEF NextStore
  <2>3. /\ CountDue = One(Left > 0) /\ CountDue' = One((Left - 1) > 0)
        /\ ListDue = One(Left > 1) /\ ListDue' = One((Left - 1) > 1)
        /\ LinkDue = 0 /\ LinkDue' = 0
        /\ GrowDue = 0 /\ GrowDue' = 0
    BY <1>1, <1>2, <1>7, <1>8, <2>1 DEF CountDue, ListDue, LinkDue, GrowDue
  <2> QED
    BY <1>6, <1>7, <2>2, <2>3 DEF One
<1>9. ASSUME fn \in Inserts /\ rval PROVE Balanced
  <2>1. fn # "new" /\ fn \notin Removes /\ fn \notin Frees
    BY <1>4, <1>9, KindsOfCommands DEF Kinds
  <2>2. \/ Left \in {3, 6} /\ Head(todo) = "counted"
        \/ Left \in {4, 7} /\ Head(todo) = "first"
        \/ Left \in {5, 8} /\ Head(todo) = "prev"
    BY <1>2, <1>3, <1>4, <1>9, <2>1 DEF NextStore
  <2>3. /\ CountDue = One(Left > 2) + One(Left > 5) /\ CountDue' = One((Left - 1) > 2) + One((Left - 1) > 5)
        /\ ListDue = One(Left > 3) + One(Left > 6) /\ ListDue' = One((Left - 1) > 3) + One((Left - 1) > 6)
        /\ LinkDue = One(Left > 1) /\ LinkDue' = One((Left - 1) > 1)
        /\ GrowDue = One(Left > 0) /\ GrowDue' = One((Left - 1) > 0)
    BY <1>1, <1>2, <1>7, <1>9, <2>1 DEF CountDue, ListDue, LinkDue, GrowDue
  <2> QED
    BY <1>6, <1>7, <2>2, <2>3 DEF One
<1>10. ASSUME fn \in Inserts /\ ~rval PROVE Balanced
  <2>1. fn # "new" /\ fn \notin Removes /\ fn \notin Frees
    BY <1>4, <1>10, KindsOfCommands DEF Kinds
  <2>2. \/ Left = 1 /\ Head(todo) = "uncounted"
        \/ Left = 2 /\ Head(todo) = "back"
        \/ Left = 3 /\ Head(todo) = "next"
    BY <1>2, <1>4, <1>10, <2>1 DEF NextStore
  <2>3. /\ CountDue = -One(Left > 0) /\ CountDue' = -One((Left - 1) > 0)
        /\ ListDue = -One(Left > 2) /\ ListDue' = -One((Left - 1) > 2)
        /\ LinkDue = 0 /\ LinkDue' = 0
        /\ GrowDue = 0 /\ GrowDue' = 0
    BY <1>1, <1>2, <1>7, <1>10, <2>1 DEF CountDue, ListDue, LinkDue, GrowDue
  <2> QED
    BY <1>6, <1>7, <2>2, <2>3 DEF One
<1>11. ASSUME fn \in Removes PROVE Balanced
  <2>1. fn # "new" /\ fn \notin Inserts /\ fn \notin Frees
    BY <1>4, <1>11, KindsOfCommands DEF Kinds
  <2>2. \/ Left \in {1, 4} /\ Head(todo) = "uncounted"
        \/ Left \in {2, 5} /\ Head(todo) = "back"
        \/ Left \in {3, 6} /\ Head(todo) = "next"
    BY <1>2, <1>3, <1>4, <1>11, <2>1 DEF NextStore
  <2>3. /\ CountDue = -(One(Left > 0) + One(Left > 3)) /\ CountDue' = -(One((Left - 1) > 0) + One((Left - 1) > 3))
        /\ ListDue = -(One(Left > 2) + One(Left > 5)) /\ ListDue' = -(One((Left - 1) > 2) + One((Left - 1) > 5))
        /\ LinkDue = -One(Left > 7) /\ LinkDue' = -One((Left - 1) > 7)
        /\ GrowDue = -One(Left > 6) /\ GrowDue' = -One((Left - 1) > 6)
    BY <1>1, <1>2, <1>7, <1>11, <2>1 DEF CountDue, ListDue, LinkDue, GrowDue
  <2> QED
    BY <1>6, <1>7, <2>2, <2>3 DEF One
<1>12. ASSUME fn \in Frees PROVE Balanced
  <2>1. fn # "new" /\ fn \notin Inserts /\ fn \notin Removes
    BY <1>4, <1>12, KindsOfCommands DEF Kinds
  <2>2. \/ Left % 3 = 1 /\ Head(todo) = "uncounted"
        \/ Left % 3 = 2 /\ Head(todo) = "back"
        \/ Left % 3 = 0 /\ Head(todo) = "next"
    BY <1>2, <1>4, <1>12, <2>1 DEF NextStore
  <2>3. /\ (Left - 1) \div 3 = IF Left % 3 = 0 THEN Left \div 3 - 1 ELSE Left \div 3
        /\ (Left - 1 + 2) \div 3 = IF Left % 3 = 1 THEN (Left + 2) \div 3 - 1 ELSE (Left + 2) \div 3
        /\ Left \div 3 \in Int /\ (Left + 2) \div 3 \in Int
    BY <1>2
  <2>4. /\ CountDue = -((Left + 2) \div 3) /\ CountDue' = -((Left - 1 + 2) \div 3)
        /\ ListDue = -(Left \div 3) /\ ListDue' = -((Left - 1) \div 3)
        /\ LinkDue = 0 /\ LinkDue' = 0 /\ GrowDue = 0 /\ GrowDue' = 0
    BY <1>1, <1>2, <1>7, <1>12, <2>1 DEF CountDue, ListDue, LinkDue, GrowDue
  <2>5. /\ allocatedCount' = IF Left % 3 = 1 THEN allocatedCount - 1 ELSE allocatedCount
        /\ allocated' = IF Left % 3 = 0 THEN allocated - 1 ELSE allocated
    BY <1>6, <2>2
  <2> QED
    BY <1>7, <2>3, <2>4, <2>5
<1>13. Balanced
  <2>1. \/ fn = "new" /\ rval
        \/ fn \in Inserts /\ rval
        \/ fn \in Inserts /\ ~rval
        \/ fn \in Removes
        \/ fn \in Frees
    BY <1>2, <1>4 DEF NextStore
  <2> QED
    BY <2>1, <1>8, <1>9, <1>10, <1>11, <1>12
<1> QED
  BY <1>1, <1>2, <1>5, <1>6, <1>13 DEF HeapEffect
\* One step of the queue code outside the allocator.
ListEffect ==
  /\ UNCHANGED <<allocated, allocatedCount, noallocate, cautious, errorOccurred, torn, jmpReady, timeLimited,
                alarm, q, stack, pc, reps, rep, ok, rval, lastCall, qcnt, failCount, verblevel, status,
                cut, cuts, noBuffer, result>>
  /\ pc = "call" /\ status = "running" /\ fn' = fn
  /\ LinkDue' = len + LinkDue - len'
  /\ GrowDue' = qSize + GrowDue - qSize'
  /\ CountDue' = CountDue /\ ListDue' = ListDue
  /\ \/ len' = len
     \/ len' = len + 1 /\ fn \in Inserts /\ LinkDue = 1
     \/ len' = len - 1 /\ len > 0
  /\ q /\ fn \in Inserts \cup Removes \cup {"reverse", "sort"} /\ broken' \in BOOLEAN
  /\ LinkDue \in Int

\* So does a step that links or unlinks an element.
LEMMA ListSteps ==
  ASSUME TypeOK, StackInv, LandInv, TodoInv, ListStep PROVE ListEffect
<1>1. /\ pc = "call" /\ status = "running" /\ todo # <<>> /\ todo' = Tail(todo)
      /\ UNCHANGED <<allocated, allocatedCount, noallocate, cautious, errorOccurred, torn, jmpReady,
                timeLimited, alarm, q, stack, pc, reps, rep, ok, rval, lastCall, qcnt, failCount,
                verblevel, status, cut, cuts, noBuffer, result>>
  BY DEF ListStep, InQueueCode, heapVars, modeVars, jumpVars, sessionVars
<1>2. NextStore /\ Left \in Nat /\ Left > 0 /\ Left' = Left - 1 /\ fn' = fn
  BY <1>1, NextStoreIs, FunctionAfter
<1>3. Head(todo) \in {"link", "grow", "unlink", "shrink", "relink"}
  BY DEF ListStep, InQueueCode
<1>4. fn \in Commands
  <2>1. Depth # 0 /\ Depth \in 0 .. 2
    BY <1>1 DEF StackInv
  <2> QED
    BY <2>1, FrameOf
<1>5. /\ len' = CASE Head(todo) = "link" -> len + 1
                  [] Head(todo) = "unlink" -> len - 1
                  [] OTHER -> len
      /\ qSize' = CASE Head(todo) = "grow" -> qSize + 1
                    [] Head(todo) = "shrink" -> qSize - 1
                    [] OTHER -> qSize
      /\ broken' \in BOOLEAN
  <2>1. broken' = (broken /\ ~(fn = "sort"))
    BY DEF ListStep
  <2>2. (broken /\ ~(fn = "sort")) \in BOOLEAN
    OBVIOUS
  <2> QED
    BY <2>1, <2>2 DEF ListStep
<1>6. len \in Nat /\ qSize \in Int /\ rval' = rval /\ pc' = pc
  BY <1>1, QTestAssumption DEF TypeOK
<1> DEFINE Balanced ==
      /\ LinkDue' = len + LinkDue - len'
      /\ GrowDue' = qSize + GrowDue - qSize'
      /\ CountDue' = CountDue /\ ListDue' = ListDue
      /\ \/ len' = len
         \/ len' = len + 1 /\ fn \in Inserts /\ LinkDue = 1
         \/ len' = len - 1 /\ len > 0
      /\ q /\ fn \in Inserts \cup Removes \cup {"reverse", "sort"}
      /\ LinkDue \in Int
<1>7. ASSUME fn \in Inserts /\ rval PROVE Balanced
  <2>1. fn # "new" /\ fn \notin Removes /\ fn \notin Frees /\ fn \notin {"reverse", "sort"}
    BY <1>4, <1>7, KindsOfCommands DEF Kinds
  <2>2. /\ \/ Left = 1 /\ Head(todo) = "grow"
           \/ Left = 2 /\ Head(todo) = "link"
        /\ q
    BY <1>2, <1>3, <1>7, <2>1 DEF NextStore
  <2>3. /\ CountDue = One(Left > 2) + One(Left > 5) /\ CountDue' = One(Left - 1 > 2) + One(Left - 1 > 5)
        /\ ListDue = One(Left > 3) + One(Left > 6) /\ ListDue' = One(Left - 1 > 3) + One(Left - 1 > 6)
        /\ LinkDue = One(Left > 1) /\ LinkDue' = One(Left - 1 > 1)
        /\ GrowDue = One(Left > 0) /\ GrowDue' = One(Left - 1 > 0)
    BY <1>1, <1>2, <1>6, <1>7, <2>1 DEF CountDue, ListDue, LinkDue, GrowDue
  <2> QED
    BY <1>5, <1>6, <1>7, <2>2, <2>3 DEF One
<1>8. ASSUME fn \in Removes PROVE Balanced
  <2>1. fn # "new" /\ fn \notin Inserts /\ fn \notin Frees /\ fn \notin {"reverse", "sort"}
    BY <1>4, <1>8, KindsOfCommands DEF Kinds
  <2>2. /\ \/ Left = 7 /\ Head(todo) = "shrink"
           \/ Left = 8 /\ Head(todo) = "unlink" /\ len > 0
        /\ q
    BY <1>2, <1>3, <1>8, <2>1 DEF NextStore
  <2>3. /\ CountDue = -(One(Left > 0) + One(Left > 3)) /\ CountDue' = -(One(Left - 1 > 0) + One(Left - 1 > 3))
        /\ ListDue = -(One(Left > 2) + One(Left > 5)) /\ ListDue' = -(One(Left - 1 > 2) + One(Left - 1 > 5))
        /\ LinkDue = -One(Left > 7) /\ LinkDue' = -One(Left - 1 > 7)
        /\ GrowDue = -One(Left > 6) /\ GrowDue' = -One(Left - 1 > 6)
    BY <1>1, <1>2, <1>6, <1>8, <2>1 DEF CountDue, ListDue, LinkDue, GrowDue
  <2> QED
    BY <1>5, <1>6, <1>8, <2>2, <2>3 DEF One
<1>9. ASSUME fn \in {"reverse", "sort"} PROVE Balanced
  <2>1. fn # "new" /\ fn \notin Inserts /\ fn \notin Frees /\ fn \notin Removes
    BY <1>4, <1>9, KindsOfCommands DEF Kinds
  <2>2. Head(todo) = "relink" /\ q
    BY <1>2, <1>9, <2>1 DEF NextStore
  <2>3. /\ CountDue = 0 /\ CountDue' = 0 /\ ListDue = 0 /\ ListDue' = 0
        /\ LinkDue = 0 /\ LinkDue' = 0 /\ GrowDue = 0 /\ GrowDue' = 0
    BY <1>1, <1>2, <1>6, <1>9, <2>1 DEF CountDue, ListDue, LinkDue, GrowDue
  <2> QED
    BY <1>5, <1>6, <1>9, <2>2, <2>3
<1>10. Balanced
  <2>1. \/ fn \in Inserts /\ rval
        \/ fn \in Removes
        \/ fn \in {"reverse", "sort"}
    BY <1>2, <1>3, <1>4 DEF NextStore
  <2> QED
    BY <2>1, <1>7, <1>8, <1>9
<1> QED
  BY <1>1, <1>2, <1>5, <1>10 DEF ListEffect

\* An allocation that fails: the insertion gives back what it has.
FailEffect ==
  /\ UNCHANGED <<allocated, allocatedCount, torn, noallocate, cautious, errorOccurred, jmpReady, timeLimited,
                alarm, q, len, qSize, broken, stack, pc, reps, rep, ok, lastCall, qcnt, failCount, verblevel,
                status, cut, cuts, noBuffer, result>>
  /\ pc = "call" /\ status = "running" /\ fn' = fn /\ rval /\ ~rval'
  /\ LinkDue' = 0 /\ GrowDue' = 0
  /\ \/ fn = "new" /\ CountDue = 1 /\ ListDue = 1 /\ LinkDue = 0 /\ CountDue' = 0 /\ ListDue' = 0
     \/ /\ fn \in Inserts /\ q /\ LinkDue = 1 /\ GrowDue = 1
        /\ CountDue' = CountDue - 2 /\ ListDue' = ListDue - 2

\* An allocation that fails takes what is due away: the element alone, or the
\* element and the string it was to hold.
LEMMA FailSteps ==
  ASSUME TypeOK, StackInv, LandInv, TodoInv, MallocFails PROVE FailEffect
<1>1. /\ pc = "call" /\ status = "running" /\ todo # <<>> /\ Head(todo) = "prev" /\ rval' = FALSE
      /\ todo' = IF todo = AllocateValue THEN test_free ELSE <<>>
      /\ UNCHANGED <<allocated, allocatedCount, torn, noallocate, cautious, errorOccurred, jmpReady,
                timeLimited, alarm, q, len, qSize, broken, stack, pc, reps, rep, ok, lastCall, qcnt,
                failCount, verblevel, status, cut, cuts, noBuffer, result>>
  BY DEF MallocFails, InQueueCode, heapVars, modeVars, jumpVars, queueVars, sessionVars
<1>2. NextStore /\ Left \in Nat /\ Left > 0 /\ fn' = fn
  BY <1>1, NextStoreIs, FunctionAfter
<1>3. fn \in Commands
  <2>1. Depth # 0 /\ Depth \in 0 .. 2
    BY <1>1 DEF StackInv
  <2> QED
    BY <2>1, FrameOf
<1>4. Left = 5 \/ todo # AllocateValue
  BY AllocateSteps DEF Left
<1>5. CASE fn = "new"
  <2>1. fn \notin Inserts /\ fn \notin Removes /\ fn \notin Frees
    BY <1>5 DEF Inserts, Removes, Frees
  <2>2. Left = 3 /\ rval
    BY <1>1, <1>2, <1>5, <2>1 DEF NextStore
  <2>3. Left' = 0
    BY <1>1, <1>4, <2>2, EmptyPlan
  <2>4. /\ CountDue = One(Left > 0) /\ ListDue = One(Left > 1) /\ LinkDue = 0
        /\ CountDue' = One(Left' > 0) /\ ListDue' = One(Left' > 1) /\ LinkDue' = 0 /\ GrowDue' = 0
    BY <1>1, <1>2, <1>5, <2>1 DEF CountDue, ListDue, LinkDue, GrowDue
  <2> QED
    BY <1>1, <1>2, <1>5, <2>2, <2>3, <2>4 DEF FailEffect, One
<1>6. CASE fn \in Inserts
  <2>1. fn # "new" /\ fn \notin Removes /\ fn \notin Frees /\ fn \notin {"reverse", "sort"}
    BY <1>3, <1>6, KindsOfCommands DEF Kinds
  <2>2. Left \in {5, 8} /\ rval /\ q
    BY <1>1, <1>2, <1>6, <2>1 DEF NextStore
  <2>3. Left' = IF Left = 5 THEN 3 ELSE 0
    <3>1. CASE Left = 5
      <4>1. todo \in Seq(StepNames) /\ Follows(InsertPlan)
        BY <1>1, <1>6, <2>2 DEF TodoInv
      <4>2. \A i \in 1 .. 5 : todo[i] = InsertPlan[5 - i + 1]
        BY <3>1, <4>1 DEF Follows
      <4>3. \A i \in 1 .. 5 : todo[i] = AllocateValue[i]
        <5> SUFFICES ASSUME NEW i \in 1 .. 5 PROVE todo[i] = AllocateValue[i]
          OBVIOUS
        <5>1. i = 1 \/ i = 2 \/ i = 3 \/ i = 4 \/ i = 5
          OBVIOUS
        <5>2. todo[i] = InsertPlan[5 - i + 1]
          BY <4>2
        <5> QED
          BY <5>1, <5>2, Plans, AllocateSteps
      <4>4. todo = AllocateValue
        <5>1. Len(todo) = 5 /\ Len(AllocateValue) = 5 /\ AllocateValue \in Seq(StepNames)
          BY <3>1, AllocateSteps DEF Left
        <5> QED
          BY <4>1, <4>3, <5>1, SeqEqual
      <4> QED
        BY <1>1, <3>1, <4>4, UndoCall
    <3>2. CASE Left = 8
      BY <1>1, <1>4, <3>2, EmptyPlan
    <3> QED
      BY <2>2, <3>1, <3>2
  <2>4. /\ CountDue = One(Left > 2) + One(Left > 5) /\ CountDue' = -One(Left' > 0)
        /\ ListDue = One(Left > 3) + One(Left > 6) /\ ListDue' = -One(Left' > 2)
        /\ LinkDue = One(Left > 1) /\ LinkDue' = 0
        /\ GrowDue = One(Left > 0) /\ GrowDue' = 0
    BY <1>1, <1>2, <1>6, <2>1, <2>2 DEF CountDue, ListDue, LinkDue, GrowDue
  <2>5. CountDue' = CountDue - 2 /\ ListDue' = ListDue - 2 /\ LinkDue = 1 /\ GrowDue = 1
    BY <2>2, <2>3, <2>4 DEF One
  <2> QED
    BY <1>1, <1>2, <1>6, <2>2, <2>4, <2>5 DEF FailEffect
<1>7. CASE fn \notin Inserts /\ fn # "new"
  BY <1>1, <1>2, <1>7 DEF NextStore
<1> QED
  BY <1>5, <1>6, <1>7
\* Nothing is due when no store is to come.
NoneDue == CountDue = 0 /\ ListDue = 0 /\ LinkDue = 0 /\ GrowDue = 0

\* Nothing is due outside the queue code, or when it is done.
LEMMA NothingDue ==
  /\ (pc = "call" => Left = 0) => NoneDue
  /\ (pc' = "call" => Left' = 0) => NoneDue'
<1>1. ASSUME pc = "call" => Left = 0 PROVE NoneDue
  <2>1. CASE pc # "call"
    BY <2>1 DEF NoneDue, CountDue, ListDue, LinkDue, GrowDue
  <2>2. CASE pc = "call"
    <3>1. Left = 0
      BY <1>1, <2>2
    <3>2. \A k \in 0 .. 7 : One(Left > k) = 0
      BY <3>1 DEF One
    <3>3. /\ One(Left > 0) = 0 /\ One(Left > 1) = 0 /\ One(Left > 2) = 0 /\ One(Left > 3) = 0
          /\ One(Left > 5) = 0 /\ One(Left > 6) = 0 /\ One(Left > 7) = 0
      BY <3>2
    <3>4. (Left + 2) \div 3 = 0 /\ Left \div 3 = 0
      BY <3>1
    <3>5. CountDue = 0
      BY <2>2, <3>3, <3>4 DEF CountDue
    <3>6. ListDue = 0
      BY <2>2, <3>3, <3>4 DEF ListDue
    <3>7. LinkDue = 0 /\ GrowDue = 0
      BY <2>2, <3>3 DEF LinkDue, GrowDue
    <3> QED
      BY <3>5, <3>6, <3>7 DEF NoneDue
  <2> QED
    BY <2>1, <2>2
<1>2. ASSUME pc' = "call" => Left' = 0 PROVE NoneDue'
  <2>1. CASE pc' # "call"
    BY <2>1 DEF NoneDue, CountDue, ListDue, LinkDue, GrowDue
  <2>2. CASE pc' = "call"
    <3>1. Left' = 0
      BY <1>2, <2>2
    <3>2. \A k \in 0 .. 7 : One(Left' > k) = 0
      BY <3>1 DEF One
    <3>3. /\ One(Left' > 0) = 0 /\ One(Left' > 1) = 0 /\ One(Left' > 2) = 0 /\ One(Left' > 3) = 0
          /\ One(Left' > 5) = 0 /\ One(Left' > 6) = 0 /\ One(Left' > 7) = 0
      BY <3>2
    <3>4. (Left' + 2) \div 3 = 0 /\ Left' \div 3 = 0
      BY <3>1
    <3>5. CountDue' = 0
      BY <2>2, <3>3, <3>4 DEF CountDue
    <3>6. ListDue' = 0
      BY <2>2, <3>3, <3>4 DEF ListDue
    <3>7. LinkDue' = 0 /\ GrowDue' = 0
      BY <2>2, <3>3 DEF LinkDue, GrowDue
    <3> QED
      BY <3>5, <3>6, <3>7 DEF NoneDue
  <2> QED
    BY <2>1, <2>2
<1> QED
  BY <1>1, <1>2

\* A call of queue.c, and what it is to store.
CallEffect ==
  /\ UNCHANGED <<allocated, allocatedCount, torn, noallocate, cautious, errorOccurred, jmpReady, timeLimited,
                alarm, q, len, qSize, broken, stack, reps, rep, ok, qcnt, failCount, verblevel,
                status, cut, cuts, noBuffer, result>>
  /\ pc = "region" /\ pc' = "call" /\ status = "running" /\ fn' = fn /\ rval' \in BOOLEAN
  /\ lastCall' = "queue" /\ fn \in Commands
  /\ fn \in Repeats => ok /\ rep < reps
  /\ \/ fn = "new" /\ rval' /\ CountDue' = 1 /\ ListDue' = 1 /\ LinkDue' = 0 /\ GrowDue' = 0
     \/ /\ fn \in Inserts /\ q /\ rval'
        /\ CountDue' = 2 /\ ListDue' = 2 /\ LinkDue' = 1 /\ GrowDue' = 1
     \/ /\ fn \in Removes /\ q /\ rval'
        /\ CountDue' = -2 /\ ListDue' = -2 /\ LinkDue' = -1 /\ GrowDue' = -1
     \/ fn \in Frees /\ CountDue' = 0 - Owned /\ ListDue' = 0 - Owned /\ LinkDue' = 0 /\ GrowDue' = 0
     \/ fn \notin Frees /\ fn # "new" /\ (fn \in Inserts \cup Removes => ~rval') /\ NoneDue'

\* What a call of the queue code makes due.
LEMMA CallSteps ==
  ASSUME TypeOK, StackInv, LandInv, Call PROVE CallEffect
<1>1. /\ pc = "region" /\ pc' = "call" /\ status = "running" /\ lastCall' = "queue" /\ fn # "show"
      /\ fn \in Repeats => ok /\ rep < reps
      /\ todo' = Pending(fn) /\ fn' = fn
      /\ rval' = CASE fn \in Inserts -> q [] fn \in {"rh", "rhq"} -> q /\ len > 0 [] OTHER -> TRUE
      /\ UNCHANGED <<allocated, allocatedCount, torn, noallocate, cautious, errorOccurred, jmpReady,
                timeLimited, alarm, q, len, qSize, broken, stack, reps, rep, ok, qcnt, failCount, verblevel,
                status, cut, cuts, noBuffer, result>>
  BY FunctionAfter DEF Call, Goto, Looping, heapVars, modeVars, jumpVars, queueVars, sessionVars
<1>2. fn \in Commands /\ len \in Nat /\ q \in BOOLEAN
  <2>1. Depth # 0 /\ Depth \in 0 .. 2
    BY <1>1 DEF StackInv
  <2> QED
    BY <2>1, FrameOf, QTestAssumption DEF TypeOK
<1>3. rval' \in BOOLEAN
  <2>1. (q /\ len > 0) \in BOOLEAN
    OBVIOUS
  <2> QED
    BY <1>1, <1>2, <2>1
<1> DEFINE Rest ==
      \/ fn = "new" /\ rval' /\ CountDue' = 1 /\ ListDue' = 1 /\ LinkDue' = 0 /\ GrowDue' = 0
      \/ /\ fn \in Inserts /\ q /\ rval'
         /\ CountDue' = 2 /\ ListDue' = 2 /\ LinkDue' = 1 /\ GrowDue' = 1
      \/ /\ fn \in Removes /\ q /\ rval'
         /\ CountDue' = -2 /\ ListDue' = -2 /\ LinkDue' = -1 /\ GrowDue' = -1
      \/ fn \in Frees /\ CountDue' = 0 - Owned /\ ListDue' = 0 - Owned /\ LinkDue' = 0 /\ GrowDue' = 0
      \/ fn \notin Frees /\ fn # "new" /\ (fn \in Inserts \cup Removes => ~rval') /\ NoneDue'
<1>4. ASSUME fn = "new" PROVE Rest
  <2>1. fn \notin Inserts /\ fn \notin Removes /\ fn \notin Frees
    BY <1>4 DEF Inserts, Removes, Frees
  <2>2. todo' = test_malloc /\ rval'
    BY <1>1, <1>4, <2>1 DEF Pending, Inserts
  <2>3. Left' = 3
    BY <2>2, NewCall
  <2>4. CountDue' = One(3 > 0) /\ ListDue' = One(3 > 1) /\ LinkDue' = 0 /\ GrowDue' = 0
    BY <1>1, <1>4, <2>1, <2>3 DEF CountDue, ListDue, LinkDue, GrowDue
  <2> QED
    BY <1>4, <2>2, <2>4 DEF One
<1>5. ASSUME fn \in Inserts, q PROVE Rest
  <2>1. fn # "new" /\ fn \notin Removes /\ fn \notin Frees
    BY <1>2, <1>5, KindsOfCommands DEF Kinds
  <2>2. todo' = test_malloc \o AllocateValue /\ rval'
    BY <1>1, <1>5, <2>1 DEF Pending, Inserts, Frees
  <2>3. Left' = 8
    BY <2>2, InsertCall
  <2>4. /\ CountDue' = One(8 > 2) + One(8 > 5) /\ ListDue' = One(8 > 3) + One(8 > 6)
        /\ LinkDue' = One(8 > 1) /\ GrowDue' = One(8 > 0)
    BY <1>1, <1>5, <2>1, <2>2, <2>3 DEF CountDue, ListDue, LinkDue, GrowDue
  <2> QED
    BY <1>5, <2>2, <2>4 DEF One
<1>6. ASSUME fn \in Removes, q, len > 0 PROVE Rest
  <2>1. fn # "new" /\ fn \notin Inserts /\ fn \notin Frees
    BY <1>2, <1>6, KindsOfCommands DEF Kinds
  <2>2. todo' = <<"unlink", "shrink">> \o test_free \o test_free /\ rval'
    BY <1>1, <1>2, <1>6, <2>1 DEF Pending, Removes, Frees
  <2>3. Left' = 8
    BY <2>2, RemoveCall
  <2>4. /\ CountDue' = -(One(8 > 0) + One(8 > 3)) /\ ListDue' = -(One(8 > 2) + One(8 > 5))
        /\ LinkDue' = -One(8 > 7) /\ GrowDue' = -One(8 > 6)
    BY <1>1, <1>6, <2>1, <2>3 DEF CountDue, ListDue, LinkDue, GrowDue
  <2> QED
    BY <1>6, <2>2, <2>4 DEF One
<1>7. ASSUME fn \in Frees, q PROVE Rest
  <2>1. fn # "new" /\ fn \notin Inserts /\ fn \notin Removes
    BY <1>2, <1>7, KindsOfCommands DEF Kinds
  <2>2. todo' = [i \in 1..(3 * (2 * len + 1)) |-> test_free[((i - 1) % 3) + 1]]
    BY <1>1, <1>7, <2>1 DEF Pending, Frees
  <2>3. Left' = 3 * (2 * len + 1)
    BY <1>2, <2>2, FreeCall
  <2>4. /\ CountDue' = -((Left' + 2) \div 3) /\ ListDue' = -(Left' \div 3)
        /\ LinkDue' = 0 /\ GrowDue' = 0
    BY <1>1, <1>7, <2>1 DEF CountDue, ListDue, LinkDue, GrowDue
  <2>5. (Left' + 2) \div 3 = 1 + 2 * len /\ Left' \div 3 = 1 + 2 * len
    BY ONLY <1>2, <2>3
  <2>6. Owned = 1 + 2 * len
    BY <1>7 DEF Owned
  <2>7. CountDue' = 0 - Owned /\ ListDue' = 0 - Owned
    BY ONLY <1>2, <2>4, <2>5, <2>6
  <2> QED
    BY <1>7, <2>4, <2>7
<1>8. ASSUME fn \in Frees, ~q PROVE Rest
  <2>1. fn # "new" /\ fn \notin Inserts /\ fn \notin Removes
    BY <1>2, <1>8, KindsOfCommands DEF Kinds
  <2>2. todo' = <<>>
    BY <1>1, <1>8, <2>1 DEF Pending, Frees, Removes
  <2>3. NoneDue'
    BY <2>2, EmptyPlan, NothingDue
  <2>4. Owned = 0
    BY <1>8 DEF Owned
  <2> QED
    BY <1>8, <2>3, <2>4 DEF NoneDue
<1>9. ASSUME /\ fn \notin Frees /\ fn # "new" /\ ~(fn \in Inserts /\ q) /\ ~(fn \in Removes /\ q /\ len > 0)
      PROVE  Rest
  <2>1. fn \in Inserts \cup Removes => ~rval'
    BY <1>1, <1>2, <1>9, KindsOfCommands DEF Kinds, Removes
  <2>2. CASE fn \in {"reverse", "sort"} /\ q /\ len > 0
    <3>1. fn \notin Inserts /\ fn \notin Removes
      BY <1>2, <2>2, KindsOfCommands DEF Kinds
    <3>2. CountDue' = 0 /\ ListDue' = 0 /\ LinkDue' = 0 /\ GrowDue' = 0
      BY <1>1, <1>9, <3>1 DEF CountDue, ListDue, LinkDue, GrowDue
    <3> QED
      BY <1>9, <2>1, <3>2 DEF NoneDue
  <2>3. CASE ~(fn \in {"reverse", "sort"} /\ q /\ len > 0)
    <3>1. todo' = <<>>
      BY <1>1, <1>9, <2>3 DEF Pending, Frees, Removes
    <3>2. NoneDue'
      BY <3>1, EmptyPlan, NothingDue
    <3> QED
      BY <1>9, <2>1, <3>2
  <2> QED
    BY <2>2, <2>3
<1>10. Rest
  BY <1>4, <1>5, <1>6, <1>7, <1>8, <1>9
<1> QED
  BY <1>1, <1>2, <1>3, <1>10 DEF CallEffect

\* What is due, before a jump leaves it undone.
LEMMA DueBounds ==
  ASSUME StackInv, LandInv, TodoInv, status = "running", pc = "call"
  PROVE  /\ {CountDue, ListDue, LinkDue, GrowDue} \subseteq Int
         /\ ListDue - CountDue <= 1
         /\ fn \notin Frees \cup {"new"} => CountDue <= 2 * LinkDue /\ ListDue <= 2 * LinkDue
         /\ fn \in Inserts => LinkDue >= 0
         /\ fn \in Frees \cup {"new"} => LinkDue = 0
<1>1. fn \in Commands /\ todo \in Seq(StepNames)
  <2>1. Depth # 0 /\ Depth \in 0 .. 2
    BY DEF StackInv
  <2> QED
    BY <2>1, FrameOf DEF TodoInv
<1>2. Left \in Nat
  BY <1>1, LenProperties DEF Left
<1>3. {CountDue, ListDue, LinkDue, GrowDue} \subseteq Int
  BY <1>2, DueTypes
<1> DEFINE Bounds ==
      /\ ListDue - CountDue <= 1
      /\ fn \notin Frees \cup {"new"} => CountDue <= 2 * LinkDue /\ ListDue <= 2 * LinkDue
      /\ fn \in Inserts => LinkDue >= 0
      /\ fn \in Frees \cup {"new"} => LinkDue = 0
<1>4. ASSUME fn = "new" PROVE Bounds
  <2>1. fn \notin Inserts /\ fn \notin Removes /\ fn \notin Frees
    BY <1>4 DEF Inserts, Removes, Frees
  <2>2. CountDue = One(Left > 0) /\ ListDue = One(Left > 1) /\ LinkDue = 0
    BY <1>4, <2>1 DEF CountDue, ListDue, LinkDue
  <2> QED
    BY <1>2, <1>4, <2>1, <2>2 DEF One
<1>5. ASSUME fn \in Inserts, rval PROVE Bounds
  <2>1. fn # "new" /\ fn \notin Removes /\ fn \notin Frees
    BY <1>1, <1>5, KindsOfCommands DEF Kinds
  <2>2. /\ CountDue = One(Left > 2) + One(Left > 5) /\ ListDue = One(Left > 3) + One(Left > 6)
        /\ LinkDue = One(Left > 1)
    BY <1>5, <2>1 DEF CountDue, ListDue, LinkDue
  <2> QED
    BY <1>2, <1>5, <2>1, <2>2 DEF One
<1>6. ASSUME fn \in Inserts, ~rval PROVE Bounds
  <2>1. fn # "new" /\ fn \notin Removes /\ fn \notin Frees
    BY <1>1, <1>6, KindsOfCommands DEF Kinds
  <2>2. CountDue = -One(Left > 0) /\ ListDue = -One(Left > 2) /\ LinkDue = 0
    BY <1>6, <2>1 DEF CountDue, ListDue, LinkDue
  <2> QED
    BY <1>2, <1>6, <2>1, <2>2 DEF One
<1>7. ASSUME fn \in Removes PROVE Bounds
  <2>1. fn # "new" /\ fn \notin Inserts /\ fn \notin Frees
    BY <1>1, <1>7, KindsOfCommands DEF Kinds
  <2>2. /\ CountDue = -(One(Left > 0) + One(Left > 3)) /\ ListDue = -(One(Left > 2) + One(Left > 5))
        /\ LinkDue = -One(Left > 7)
    BY <1>7, <2>1 DEF CountDue, ListDue, LinkDue
  <2>3. Left <= 8
    BY <1>7 DEF TodoInv
  <2> QED
    BY <1>2, <1>7, <2>1, <2>2, <2>3 DEF One
<1>8. ASSUME fn \in Frees PROVE Bounds
  <2>1. fn # "new" /\ fn \notin Inserts /\ fn \notin Removes
    BY <1>1, <1>8, KindsOfCommands DEF Kinds
  <2>2. CountDue = -((Left + 2) \div 3) /\ ListDue = -(Left \div 3) /\ LinkDue = 0
    BY <1>8, <2>1 DEF CountDue, ListDue, LinkDue
  <2>3. (Left + 2) \div 3 \in {Left \div 3, Left \div 3 + 1} /\ Left \div 3 \in Int
    BY <1>2
  <2> QED
    BY <1>8, <2>1, <2>2, <2>3
<1>9. ASSUME fn \notin Inserts, fn \notin Removes, fn \notin Frees, fn # "new" PROVE Bounds
  <2>1. CountDue = 0 /\ ListDue = 0 /\ LinkDue = 0
    BY <1>9 DEF CountDue, ListDue, LinkDue
  <2> QED
    BY <1>9, <2>1
<1> QED
  BY <1>3, <1>4, <1>5, <1>6, <1>7, <1>8, <1>9
-----------------------------------------------------------------------------
(* Every step keeps the accounts *)

\* What the command makes of the value returned, but for rh.
KeepEffect ==
  /\ UNCHANGED <<allocated, allocatedCount, torn, noallocate, cautious, errorOccurred, jmpReady, timeLimited,
                alarm, len, qSize, broken, stack, reps, rep, rval, todo, lastCall, verblevel,
                status, cut, cuts, noBuffer, result>>
  /\ pc = "call" /\ status = "running" /\ fn' = fn /\ fn \in Commands \ {"rh"} /\ NoneDue /\ NoneDue'
  /\ pc' = IF fn \in Inserts \cup {"size"} THEN "check" ELSE "cancel"
  /\ q' = IF fn = "new" THEN rval ELSE q
  /\ IF fn \in Inserts THEN CountFailure /\ qcnt' = (qcnt + IF rval THEN 1 ELSE 0) % Modulus /\ ok' \in BOOLEAN
     ELSE UNCHANGED <<failCount, qcnt, ok>>

\* What becomes of the value returned, but for a removal.
LEMMA KeepSteps ==
  ASSUME StackInv, Modes, AfterCall, CountInsertion \/ KeepValue PROVE KeepEffect
<1>1. /\ pc = "call" /\ status = "running" /\ todo = <<>> /\ todo' = todo /\ pc' # "call" /\ fn' = fn
      /\ stack' = stack
      /\ UNCHANGED <<allocated, allocatedCount, torn, noallocate, cautious, errorOccurred, jmpReady,
                timeLimited, alarm, len, qSize, broken, reps, rep, rval, lastCall, verblevel,
                status, cut, cuts, noBuffer, result>>
  BY FunctionAfter DEF AfterCall, CountInsertion, KeepValue, Returned, heapVars, jumpVars, modeVars
<1>2. fn \in Commands
  <2>1. Depth # 0 /\ Depth \in 0 .. 2
    BY <1>1 DEF StackInv
  <2> QED
    BY <2>1, FrameOf
<1>3. NoneDue /\ NoneDue'
  <2>1. Left = 0
    BY <1>1 DEF Left
  <2> QED
    BY <1>1, <2>1, NothingDue
<1>4. CASE CountInsertion
  <2>1. fn \in Inserts /\ fn # "new" /\ fn # "rh" /\ pc' = "check" /\ q' = q /\ CountFailure
    BY <1>2, <1>4, KindsOfCommands DEF CountInsertion, Kinds
  <2>2. ok' \in BOOLEAN
    <3>1. (failCount' < FailLimit) \in BOOLEAN
      OBVIOUS
    <3>2. ok' = (rval \/ failCount' < FailLimit) /\ rval \in BOOLEAN
      BY <1>4 DEF CountInsertion, Modes
    <3> QED
      BY ONLY <3>1, <3>2
  <2>3. qcnt' = (qcnt + IF rval THEN 1 ELSE 0) % Modulus
    BY <1>4 DEF CountInsertion
  <2> QED
    BY <1>1, <1>2, <1>3, <2>1, <2>2, <2>3 DEF KeepEffect
<1>5. CASE KeepValue
  <2>1. /\ fn \notin Inserts /\ fn # "rh" /\ UNCHANGED <<failCount, qcnt, ok>>
        /\ pc' = IF fn = "size" THEN "check" ELSE "cancel"
        /\ q' = IF fn = "new" THEN rval ELSE q
    BY <1>5 DEF KeepValue
  <2> QED
    BY <1>1, <1>2, <1>3, <2>1 DEF KeepEffect
<1> QED
  BY <1>4, <1>5

\* The steps that do not touch the queue.
LEMMA EmptyKept ==
  ASSUME EmptyInv, UNCHANGED <<q, len, qSize, stack>>, pc' # "return", pc # "return",
         pc' \in {"setup", "arm", "limit", "region"} => pc \in {"setup", "arm", "limit", "region"} \/ fn # "new"
  PROVE  EmptyInv'
<1>1. fn' = fn /\ Depth' = Depth
  BY DEF fn, Depth
<1> QED
  BY <1>1 DEF EmptyInv

\* Without a queue there are no elements.
LEMMA NextEmptyInv ==
  ASSUME TypeOK, StackInv, ControlInv, JumpInv, LandInv, TodoInv, EmptyInv, [Next]_vars PROVE EmptyInv'
<1> USE FunctionAfter, Typed DEF Goto
<1>1. ASSUME NEW c \in Commands, NEW n \in 1..MaxReps, Start(c, n) PROVE EmptyInv'
  <2>1. StartEffect(c, n)
    BY <1>1, StartSteps
  <2>2. /\ UNCHANGED <<q, len, qSize>>
        /\ Depth' = 1 /\ fn' = "new" => ~q
        /\ pc' = "return" => fn' = "show"
    BY <2>1 DEF StartEffect
  <2> QED
    BY <2>2 DEF EmptyInv
<1>2. CASE exception_setup \/ exception_cancel \/ LoopEnds \/ ShowLoop
  <2>1. /\ UNCHANGED <<q, len, qSize, stack>> /\ pc' # "return" /\ pc # "return"
        /\ pc' \in {"setup", "arm", "limit", "region"} => pc \in {"setup", "arm", "limit", "region"}
    BY <1>2 DEF exception_setup, exception_cancel, LoopEnds, ShowLoop, queueVars
  <2> QED
    BY <2>1, EmptyKept
<1>3. CASE Check
  <2>1. UNCHANGED <<q, len, qSize, stack>> /\ pc' = "region" /\ pc = "check" /\ status = "running"
    BY <1>3 DEF Check, queueVars
  <2>2. fn # "new"
    BY <2>1 DEF LandInv, Repeats, Inserts
  <2> QED
    BY <2>1, <2>2, EmptyKept
<1>4. CASE Call
  <2>1. CallEffect
    BY <1>4, CallSteps
  <2> QED
    BY <2>1, EmptyKept DEF CallEffect
<1>5. CASE AfterCall
  <2>1. CASE CountRemoval
    <3>1. RemovalEffect
      BY <1>5, <2>1, RemovalSteps
    <3>2. /\ UNCHANGED <<q, len, qSize>> /\ pc' # "return" /\ fn = "rh"
          /\ fn' \in {"show", "rh"}
      BY <3>1 DEF RemovalEffect, Maybe
    <3> QED
      BY <3>2 DEF EmptyInv
  <2>2. CASE CountInsertion \/ KeepValue
    <3>1. KeepEffect
      BY <1>5, <2>2, KeepSteps
    <3>2. UNCHANGED <<len, qSize, stack>> /\ pc = "call" /\ pc' \in {"check", "cancel"} /\ (q' = q \/ fn = "new")
      BY <3>1 DEF KeepEffect
    <3>3. fn = "new" => Depth = 1
      <4>1. Depth # 0 /\ Depth \in 0 .. 2
        BY <3>2 DEF StackInv
      <4> QED
        BY <4>1
    <3> QED
      BY <3>2, <3>3 DEF EmptyInv
  <2> QED
    BY <1>5, <2>1, <2>2 DEF AfterCall
<1>6. CASE After
  <2>1. AfterEffect
    BY <1>6, AfterSteps
  <2>2. /\ pc' \in {"return", "setup"} /\ (pc' = "setup" => fn' = "show") /\ pc = "after"
        /\ fn' \in {fn, "show"}
        /\ \/ q' = FALSE /\ len' = 0 /\ qSize' = 0
           \/ UNCHANGED <<q, len, qSize>> /\ fn # "free"
    BY <2>1 DEF AfterEffect, Maybe
  <2> QED
    BY <2>2 DEF EmptyInv
<1>7. CASE Return
  <2>1. ReturnEffect
    BY <1>7, ReturnSteps
  <2>2. CASE Depth' = 0
    <3>1. UNCHANGED <<q, len, qSize>> /\ pc' # "return"
      BY <2>1, <2>2 DEF ReturnEffect
    <3> QED
      BY <2>2, <3>1 DEF EmptyInv
  <2>3. CASE Depth' # 0
    <3>1. /\ UNCHANGED <<q, len, qSize>> /\ Popped /\ pc = "return"
          /\ \/ fn = "show" /\ stack[2] # "free" /\ pc' \in {"check", "return"} /\ (fn' = "new" => pc' = "return")
             \/ fn = "free" /\ pc' = "setup" /\ fn' = "new"
      BY <2>1, <2>3 DEF ReturnEffect, Popped, Depth
    <3> QED
      BY <3>1 DEF EmptyInv
  <2> QED
    BY <2>2, <2>3
<1>8. CASE RemoveHeadNoBuffer
  <2>1. UNCHANGED <<q, len, qSize>> /\ pc' = "idle" /\ Depth' = 0
    BY <1>8 DEF RemoveHeadNoBuffer, queueVars, Depth
  <2> QED
    BY <2>1 DEF EmptyInv
<1>9. CASE MallocFails
  <2>1. FailEffect
    BY <1>9, FailSteps
  <2> QED
    BY <2>1, EmptyKept DEF FailEffect
<1>10. CASE HeapStep
  <2>1. HeapEffect
    BY <1>10, HeapSteps
  <2> QED
    BY <2>1, EmptyKept DEF HeapEffect
<1>11. CASE ListStep
  <2>1. ListEffect
    BY <1>11, ListSteps
  <2>2. q /\ q' = q /\ fn' = fn /\ pc' = "call" /\ fn \in Inserts \cup Removes \cup {"reverse", "sort"}
    BY <2>1 DEF ListEffect
  <2>3. fn # "new"
    BY <2>2 DEF Inserts, Removes
  <2> QED
    BY <2>2, <2>3 DEF EmptyInv
<1>12. CASE sigalrmhandler
  <2>1. CASE Jumped
    <3>1. /\ UNCHANGED <<q, qSize, stack>> /\ CutShort /\ pc' # "return" /\ status = "running"
          /\ pc' \in {"setup", "arm", "limit", "region"} => fn \in Repeats \cup {"show"}
          /\ pc # "return"
      <4>1. UNCHANGED <<q, qSize, stack>> /\ CutShort /\ alarm /\ status = "running"
        BY <1>12, <2>1, AlarmJumps DEF Jumped
      <4>2. pc # "return"
        BY <4>1 DEF JumpInv
      <4> QED
        BY <2>1, <4>1, <4>2 DEF Jumped
    <3>2. len' = len \/ (todo # <<>> /\ Head(todo) = "relink" /\ len' \in 1 .. len)
      BY <3>1 DEF CutShort
    <3>3. len' = len \/ len > 0
      BY <3>2, QTestAssumption DEF TypeOK
    <3>4. fn' = fn /\ Depth' = Depth
      BY <3>1
    <3>5. pc' \in {"setup", "arm", "limit", "region"} => fn # "new"
      BY <3>1 DEF Repeats, Inserts
    <3> QED
      BY <3>1, <3>3, <3>4, <3>5, EmptyKept DEF EmptyInv
  <2>2. CASE ~Jumped
    <3>1. pc = "idle" /\ UNCHANGED <<q, qSize, len, pc, stack>>
      BY <1>12, <2>2, AlarmJumps
    <3> QED
      BY <3>1, EmptyKept
  <2> QED
    BY <2>1, <2>2
<1>13. CASE UNCHANGED vars
  <2>1. UNCHANGED <<q, qSize, len, pc, stack>>
    BY <1>13 DEF vars, queueVars, callVars
  <2> QED
    BY <2>1 DEF EmptyInv
<1> QED
  BY <1>1, <1>2, <1>3, <1>4, <1>5, <1>6, <1>7, <1>8, <1>9, <1>10, <1>11, <1>12, <1>13
  DEF Next, TesterStep, QueueStep

\* The target outside the queue code.
LEMMA TargetIs ==
  /\ pc # "call" => Target = (IF pc \in Closing /\ fn \in Frees THEN 0 ELSE Owned) /\ NoneDue
  /\ pc' # "call" => Target' = (IF pc' \in Closing /\ fn' \in Frees THEN 0 ELSE Owned') /\ NoneDue'
<1>1. pc # "call" => Target = (IF pc \in Closing /\ fn \in Frees THEN 0 ELSE Owned)
  BY DEF Target, Closing
<1>2. pc' # "call" => Target' = (IF pc' \in Closing /\ fn' \in Frees THEN 0 ELSE Owned')
  BY DEF Target, Closing
<1> QED
  BY <1>1, <1>2, NothingDue

\* The accounts are numbers.
LEMMA BlockTypes ==
  ASSUME TypeOK, StackInv, LandInv, TodoInv, CutsInv, status = "running"
  PROVE  /\ {allocated, allocatedCount, Owned, cuts} \subseteq Nat
         /\ {CountDue, ListDue, LinkDue, Target} \subseteq Int
<1>1. {allocated, allocatedCount, Owned, cuts} \subseteq Nat
  <2>1. allocated \in Nat /\ allocatedCount \in Nat /\ cuts \in Nat /\ len \in Nat
    BY QTestAssumption DEF TypeOK, HarnessTypeOK, CutsInv
  <2>2. Owned \in Nat
    BY <2>1 DEF Owned
  <2> QED
    BY <2>1, <2>2
<1>2. CASE pc = "call"
  <2>1. {CountDue, ListDue, LinkDue} \subseteq Int
    BY <1>2, DueBounds
  <2>2. Target \in {0, One(rval), Owned + 2 * LinkDue}
    BY <1>2 DEF Target
  <2>3. One(rval) \in Int
    BY DEF One
  <2> QED
    BY <1>1, <2>1, <2>2, <2>3
<1>3. CASE pc # "call"
  <2>1. Target \in {0, Owned} /\ NoneDue
    BY <1>3, TargetIs
  <2> QED
    BY <1>1, <2>1 DEF NoneDue
<1> QED
  BY <1>1, <1>2, <1>3

\* A step that moves the accounts and their target by the same amount.
LEMMA BlocksKept ==
  ASSUME TypeOK, StackInv, LandInv, TodoInv, CutsInv, BlocksInv, status = "running", cuts' = cuts,
         NEW k \in Int,
         allocatedCount' + CountDue' = allocatedCount + CountDue + k,
         allocated' + ListDue' = allocated + ListDue + k,
         Target' = Target + k
  PROVE  BlocksInv'
<1>1. /\ {allocated, allocatedCount, Owned, cuts} \subseteq Nat
      /\ {CountDue, ListDue, LinkDue, Target} \subseteq Int
  BY BlockTypes
<1>2. Agree(allocatedCount + CountDue, allocated + ListDue, Target, cuts)
  BY DEF BlocksInv
<1>3. \A x \in Int, y \in Int, t \in Int, c \in Nat : Agree(x, y, t, c) => Agree(x + k, y + k, t + k, c)
  BY DEF Agree
<1>4. allocatedCount + CountDue \in Int /\ allocated + ListDue \in Int /\ Target \in Int /\ cuts \in Nat
  BY <1>1
<1>5. Agree(allocatedCount + CountDue + k, allocated + ListDue + k, Target + k, cuts)
  BY ONLY <1>2, <1>3, <1>4, Zenon
<1>6. Agree(allocatedCount' + CountDue', allocated' + ListDue', Target', cuts')
  BY <1>5, Zenon
<1> QED
  BY <1>6, Zenon DEF BlocksInv

\* The case of most steps: no store is due before the step or after it.
LEMMA BlocksSame ==
  ASSUME TypeOK, StackInv, LandInv, TodoInv, CutsInv, BlocksInv, status = "running", cuts' = cuts,
         UNCHANGED <<allocated, allocatedCount>>, NoneDue, NoneDue', Target' = Target
  PROVE  BlocksInv'
<1>1. /\ {allocated, allocatedCount, Owned, cuts} \subseteq Nat
      /\ {CountDue, ListDue, LinkDue, Target} \subseteq Int
  BY BlockTypes
<1>2. /\ allocatedCount' + CountDue' = allocatedCount + CountDue + 0
      /\ allocated' + ListDue' = allocated + ListDue + 0
      /\ Target' = Target + 0
  BY <1>1 DEF NoneDue
<1> QED
  BY <1>2, BlocksKept

\* The blocks on the list, their count and what is due to both come to what the
\* queue holds when the call is done, but for what the time-outs took.
LEMMA NextBlocksInv ==
  ASSUME TypeOK, StackInv, ControlInv, JumpInv, LandInv, TodoInv, EmptyInv, CutsInv, BlocksInv,
         CutsInv', [Next]_vars
  PROVE  BlocksInv'
<1> USE FunctionAfter, Typed DEF Goto
<1>0. status = "running" => /\ {allocated, allocatedCount, Owned, cuts} \subseteq Nat
                            /\ {CountDue, ListDue, LinkDue, Target} \subseteq Int
  BY BlockTypes
<1>1. ASSUME status' # "running" PROVE BlocksInv'
  BY <1>1 DEF BlocksInv
<1>2. ASSUME NEW c \in Commands, NEW n \in 1..MaxReps, Start(c, n) PROVE BlocksInv'
  <2>1. StartEffect(c, n)
    BY <1>2, StartSteps
  <2>2. /\ pc = "idle" /\ status = "running" /\ pc' \in {"setup", "return"} /\ UNCHANGED <<q, len, cuts>>
        /\ UNCHANGED <<allocated, allocatedCount>>
        /\ pc' = "return" => fn' = "show"
    BY <2>1 DEF StartEffect
  <2>3. Target = Owned /\ NoneDue
    BY <2>2, TargetIs DEF Closing
  <2>4. Target' = Owned' /\ NoneDue'
    BY <2>2, TargetIs DEF Closing, Frees
  <2>5. Owned' = Owned
    BY <2>2 DEF Owned
  <2> QED
    BY <2>2, <2>3, <2>4, <2>5, BlocksSame
<1>3. CASE exception_setup \/ exception_cancel \/ LoopEnds \/ ShowLoop \/ Check
  <2>1. /\ UNCHANGED <<q, len, cuts, allocated, allocatedCount, stack>> /\ status = "running"
        /\ \/ pc \notin Closing /\ pc' \notin Closing
           \/ pc \in Closing /\ pc' \in Closing
           \/ fn \in Repeats \cup {"show"}
        /\ pc # "call" /\ pc' # "call"
    BY <1>3 DEF exception_setup, exception_cancel, LoopEnds, ShowLoop, Check, Looping, queueVars,
                sessionVars, heapVars, Closing
  <2>2. fn \in Repeats \cup {"show"} => fn \notin Frees
    BY DEF Repeats, Inserts, Frees
  <2>3. fn' = fn /\ Owned' = Owned
    BY <2>1 DEF Owned
  <2>4. Target' = Target /\ NoneDue /\ NoneDue'
    BY <2>1, <2>2, <2>3, TargetIs
  <2> QED
    BY <2>1, <2>4, BlocksSame
<1>4. CASE Call
  <2>1. CallEffect
    BY <1>4, CallSteps
  <2>2. /\ pc = "region" /\ status = "running" /\ cuts' = cuts /\ fn' = fn /\ pc' = "call" /\ fn \in Commands
        /\ UNCHANGED <<q, len, allocated, allocatedCount, stack>>
    BY <2>1 DEF CallEffect
  <2>3. Target = Owned /\ NoneDue /\ Owned' = Owned
    BY <2>2, TargetIs DEF Closing, Owned
  <2>4. /\ fn \in Frees => Target' = 0
        /\ fn = "new" => Target' = One(rval')
        /\ fn \notin Frees \cup {"new"} => Target' = Owned + 2 * LinkDue'
    BY <2>2, <2>3 DEF Target, Frees
  <2>5. {allocated, allocatedCount, Owned, cuts} \subseteq Nat
    BY <1>0, <2>2
  <2>6. CountDue = 0 /\ ListDue = 0
    BY <2>3 DEF NoneDue
  <2>7. CASE fn = "new"
    <3>1. CountDue' = 1 /\ ListDue' = 1 /\ rval'
      BY <2>1, <2>2, <2>7, KindsOfCommands DEF CallEffect, Kinds
    <3>2. Owned = 0
      <4>1. Depth = 1
        <5>1. Depth # 0 /\ Depth \in 0 .. 2
          BY <2>2 DEF StackInv
        <5> QED
          BY <2>7, <5>1
      <4> QED
        BY <2>2, <2>7, <4>1 DEF EmptyInv, Owned
    <3>3. Target' = Target + 1
      BY <2>3, <2>4, <2>7, <3>1, <3>2 DEF One
    <3> QED
      BY <2>2, <2>5, <2>6, <3>1, <3>3, BlocksKept
  <2>8. CASE fn \in Inserts /\ q /\ rval'
    <3>1. CountDue' = 2 /\ ListDue' = 2 /\ LinkDue' = 1
      BY <2>1, <2>2, <2>8, KindsOfCommands DEF CallEffect, Kinds
    <3>2. Target' = Target + 2
      BY <2>2, <2>3, <2>4, <2>5, <2>8, <3>1, KindsOfCommands DEF Kinds
    <3> QED
      BY <2>2, <2>5, <2>6, <3>1, <3>2, BlocksKept
  <2>9. CASE fn \in Removes /\ q /\ rval'
    <3>1. CountDue' = -2 /\ ListDue' = -2 /\ LinkDue' = -1
      BY <2>1, <2>2, <2>9, KindsOfCommands DEF CallEffect, Kinds
    <3>2. Target' = Target + (-2)
      BY <2>2, <2>3, <2>4, <2>5, <2>9, <3>1, KindsOfCommands DEF Kinds
    <3>3. /\ allocatedCount' + CountDue' = allocatedCount + CountDue + (-2)
          /\ allocated' + ListDue' = allocated + ListDue + (-2)
      BY <2>2, <2>5, <2>6, <3>1
    <3> QED
      BY <2>2, <3>2, <3>3, -2 \in Int, BlocksKept
  <2>10. CASE fn \in Frees
    <3>1. CountDue' = 0 - Owned /\ ListDue' = 0 - Owned /\ Target' = 0
      BY <2>1, <2>2, <2>4, <2>10, KindsOfCommands DEF CallEffect, Kinds
    <3> DEFINE k == 0 - Owned
    <3>3. /\ k \in Int /\ Target' = Target + k
          /\ allocatedCount' + CountDue' = allocatedCount + CountDue + k
          /\ allocated' + ListDue' = allocated + ListDue + k
      BY <2>2, <2>3, <2>5, <2>6, <3>1
    <3> HIDE DEF k
    <3> QED
      BY <2>2, <3>3, BlocksKept
  <2>11. CASE fn \notin Frees /\ fn # "new" /\ NoneDue'
    <3>1. Target' = Target
      BY <2>3, <2>4, <2>5, <2>11 DEF NoneDue
    <3> QED
      BY <2>2, <2>3, <2>11, <3>1, BlocksSame
  <2> QED
    BY <2>1, <2>7, <2>8, <2>9, <2>10, <2>11 DEF CallEffect
<1>5. CASE AfterCall
  <2>1. CASE CountRemoval
    <3>1. RemovalEffect
      BY <1>5, <2>1, RemovalSteps
    <3>2. /\ fn = "rh" /\ pc = "call" /\ status = "running" /\ pc' \in {"check", "setup"} /\ todo = <<>>
          /\ UNCHANGED <<q, len, cuts, allocated, allocatedCount>>
      BY <3>1 DEF RemovalEffect, Maybe
    <3>3. NoneDue /\ Owned' = Owned
      BY <3>2, NothingDue DEF Left, Owned
    <3>4. Target = Owned + 2 * 0
      BY <3>2, <3>3 DEF Target, Frees, NoneDue
    <3>5. Target' = Target /\ NoneDue'
      BY <1>0, <3>2, <3>3, <3>4, TargetIs DEF Closing
    <3> QED
      BY <3>2, <3>3, <3>5, BlocksSame
  <2>2. CASE CountInsertion \/ KeepValue
    <3>1. KeepEffect
      BY <1>5, <2>2, KeepSteps
    <3>2. /\ pc = "call" /\ status = "running" /\ pc' \in {"check", "cancel"} /\ fn' = fn /\ fn \in Commands
          /\ UNCHANGED <<len, cuts, allocated, allocatedCount, rval>> /\ NoneDue /\ NoneDue'
          /\ q' = IF fn = "new" THEN rval ELSE q
          /\ pc' = IF fn \in Inserts \cup {"size"} THEN "check" ELSE "cancel"
      BY <3>1 DEF KeepEffect
    <3>3. CASE fn \in Frees
      <4>1. fn \notin Inserts \cup {"size"}
        BY <3>2, <3>3, KindsOfCommands DEF Kinds
      <4>2. Target = 0 /\ Target' = 0
        BY <3>2, <3>3, <4>1 DEF Target, Closing, Frees
      <4> QED
        BY <3>2, <4>2, BlocksSame
    <3>4. CASE fn = "new"
      <4>1. fn \notin Frees
        BY <3>4 DEF Frees
      <4>2. Target = One(rval) /\ Target' = Owned'
        BY <3>2, <3>4, <4>1, TargetIs DEF Target
      <4>3. len = 0
        <5>1. Depth # 0 /\ Depth \in 0 .. 2
          BY <3>2 DEF StackInv
        <5>2. Depth = 1
          BY <3>4, <5>1
        <5> QED
          BY <3>2, <3>4, <5>2 DEF EmptyInv
      <4>4. Target' = Target
        BY <3>2, <3>4, <4>2, <4>3 DEF One, Owned
      <4> QED
        BY <3>2, <4>4, BlocksSame
    <3>5. CASE fn \notin Frees \cup {"new"}
      <4>1. Target = Owned + 2 * 0 /\ Target' = Owned' /\ Owned' = Owned
        BY <3>2, <3>5, TargetIs DEF Target, NoneDue, Owned
      <4>2. Target' = Target
        BY <1>0, <3>2, <4>1
      <4> QED
        BY <3>2, <4>2, BlocksSame
    <3> QED
      BY <3>3, <3>4, <3>5
  <2> QED
    BY <1>5, <2>1, <2>2 DEF AfterCall
<1>6. CASE After
  <2>1. AfterEffect
    BY <1>6, AfterSteps
  <2>2. /\ pc = "after" /\ status = "running" /\ UNCHANGED <<allocated, allocatedCount, cuts>>
        /\ \/ fn' = fn /\ pc' = "return"
           \/ fn' = "show" /\ pc' = "setup" /\ fn \notin Frees
        /\ fn # "free" => UNCHANGED <<q, len>>
    <3>1. /\ pc = "after" /\ status = "running" /\ UNCHANGED <<allocated, allocatedCount, cuts>>
          /\ fn # "free" => UNCHANGED <<q, len>>
      BY <2>1 DEF AfterEffect
    <3>2. CASE Pushed
      BY <2>1, <3>1, <3>2 DEF AfterEffect, Maybe, Pushed, Frees
    <3>3. CASE ~Pushed
      BY <2>1, <3>1, <3>3 DEF AfterEffect, Maybe
    <3> QED
      BY <3>2, <3>3
  <2>3. fn \notin Frees => Owned' = Owned
    BY <2>2 DEF Frees, Owned
  <2>4. Target' = Target /\ NoneDue /\ NoneDue'
    BY <2>2, <2>3, TargetIs DEF Closing
  <2> QED
    BY <2>2, <2>4, BlocksSame
<1>7. CASE Return
  <2>1. ReturnEffect
    BY <1>7, ReturnSteps
  <2>2. /\ pc = "return" /\ status = "running" /\ pc' \in {"check", "return", "setup", "idle"}
        /\ UNCHANGED <<allocated, allocatedCount, cuts, q, len>>
        /\ \/ fn \notin Frees /\ (pc' = "idle" \/ fn' \notin Frees)
           \/ fn = "free" /\ pc' \in {"setup", "idle"}
           \/ status' # "running"
    <3>1. CASE fn = "quit"
      BY <2>1, <3>1 DEF ReturnEffect
    <3>2. CASE fn # "quit"
      BY <2>1, <3>2 DEF ReturnEffect, Frees, Popped
    <3> QED
      BY <3>1, <3>2
  <2>3. Owned' = Owned /\ (fn = "free" => Owned = 0)
    BY <2>2 DEF Owned, EmptyInv
  <2>4. status' = "running" => Target' = Target /\ NoneDue /\ NoneDue'
    BY <2>2, <2>3, TargetIs DEF Closing, Frees
  <2> QED
    BY <1>1, <2>2, <2>4, BlocksSame
<1>8. CASE RemoveHeadNoBuffer
  <2>1. /\ pc = "region" /\ status = "running" /\ pc' = "idle" /\ fn = "rh"
        /\ UNCHANGED <<allocated, allocatedCount, cuts, q, len>>
    BY <1>8 DEF RemoveHeadNoBuffer, heapVars, queueVars
  <2>2. Owned' = Owned
    BY <2>1 DEF Owned
  <2>3. Target' = Target /\ NoneDue /\ NoneDue'
    BY <2>1, <2>2, TargetIs DEF Closing, Frees
  <2> QED
    BY <2>1, <2>3, BlocksSame
<1>9. CASE MallocFails
  <2>1. FailEffect
    BY <1>9, FailSteps
  <2>2. /\ pc = "call" /\ pc' = "call" /\ status = "running" /\ fn' = fn /\ rval /\ ~rval'
        /\ UNCHANGED <<allocated, allocatedCount, cuts, q, len>>
    BY <2>1 DEF FailEffect
  <2>3. Owned' = Owned
    BY <2>2 DEF Owned
  <2>4. CASE fn = "new"
    <3>1. CountDue = 1 /\ ListDue = 1 /\ CountDue' = 0 /\ ListDue' = 0
      <4>1. fn \notin Inserts
        BY <2>4 DEF Inserts
      <4> QED
        BY <2>1, <4>1 DEF FailEffect
    <3>2. Target = 1 /\ Target' = 0
      BY <2>2, <2>4 DEF Target, One, Frees
    <3>3. -1 \in Int /\ Target' = Target + (-1)
      BY <3>2
    <3>4. /\ allocatedCount' + CountDue' = allocatedCount + CountDue + (-1)
          /\ allocated' + ListDue' = allocated + ListDue + (-1)
      BY <1>0, <2>2, <3>1
    <3> QED
      BY <2>2, <3>3, <3>4, BlocksKept
  <2>5. CASE fn # "new"
    <3>1. /\ fn \in Inserts /\ LinkDue = 1 /\ LinkDue' = 0
          /\ CountDue' = CountDue - 2 /\ ListDue' = ListDue - 2
      BY <2>1, <2>5 DEF FailEffect
    <3>2. fn \notin Frees
      BY <3>1 DEF Inserts, Frees
    <3>3. Target = Owned + 2 * 1 /\ Target' = Owned + 2 * 0
      BY <2>2, <2>3, <2>5, <3>1, <3>2 DEF Target
    <3>4. -2 \in Int /\ Target' = Target + (-2)
      BY <1>0, <2>2, <3>3
    <3>5. /\ allocatedCount' + CountDue' = allocatedCount + CountDue + (-2)
          /\ allocated' + ListDue' = allocated + ListDue + (-2)
      BY <1>0, <2>2, <3>1
    <3> QED
      BY <2>2, <3>4, <3>5, BlocksKept
  <2> QED
    BY <2>4, <2>5
<1>10. CASE HeapStep
  <2>1. HeapEffect
    BY <1>10, HeapSteps
  <2>2. /\ pc = "call" /\ pc' = "call" /\ status = "running" /\ fn' = fn
        /\ UNCHANGED <<cuts, q, len, rval>>
        /\ allocatedCount' + CountDue' = allocatedCount + CountDue
        /\ allocated' + ListDue' = allocated + ListDue
        /\ LinkDue' = LinkDue
    BY <2>1 DEF HeapEffect
  <2>3. Target' = Target
    BY <2>2 DEF Target, Owned
  <2>4. /\ allocatedCount' + CountDue' = allocatedCount + CountDue + 0
        /\ allocated' + ListDue' = allocated + ListDue + 0
        /\ Target' = Target + 0
    BY <1>0, <2>2, <2>3
  <2> QED
    BY <2>2, <2>4, BlocksKept
<1>11. CASE ListStep
  <2>1. ListEffect
    BY <1>11, ListSteps
  <2>2. /\ pc = "call" /\ pc' = "call" /\ status = "running" /\ fn' = fn /\ q /\ q' = q
        /\ UNCHANGED <<cuts, rval, allocated, allocatedCount>>
        /\ CountDue' = CountDue /\ ListDue' = ListDue
        /\ LinkDue' = len + LinkDue - len'
        /\ len' \in {len, len + 1, len - 1}
    BY <2>1 DEF ListEffect
  <2>3. fn \notin Frees \cup {"new"}
    BY <2>1 DEF ListEffect, Inserts, Removes, Frees
  <2>4. Target = (1 + 2 * len) + 2 * LinkDue /\ Target' = (1 + 2 * len') + 2 * LinkDue'
    BY <2>2, <2>3 DEF Target, Owned
  <2>5. len \in Int /\ LinkDue \in Int
    BY <1>0, <2>2, QTestAssumption DEF TypeOK
  <2>6. Target' = Target
    <3>1. len' \in Int
      BY <2>2, <2>5
    <3>2. LinkDue' = len + LinkDue - len'
      BY <2>2
    <3>3. \A m \in Int, n \in Int, d \in Int : (1 + 2 * m) + 2 * (n + d - m) = (1 + 2 * n) + 2 * d
      OBVIOUS
    <3>4. (1 + 2 * len') + 2 * (len + LinkDue - len') = (1 + 2 * len) + 2 * LinkDue
      BY ONLY <2>5, <3>1, <3>3, Zenon
    <3> QED
      BY ONLY <2>4, <3>2, <3>4, Zenon
  <2>7. /\ allocatedCount' + CountDue' = allocatedCount + CountDue + 0
        /\ allocated' + ListDue' = allocated + ListDue + 0
        /\ Target' = Target + 0
    BY <1>0, <2>2, <2>6
  <2> QED
    BY <2>2, <2>7, BlocksKept
<1>12. CASE sigalrmhandler
  <2>0. /\ status = "running" /\ cuts' = cuts + 1 /\ UNCHANGED <<stack, q, allocated, allocatedCount>>
        /\ {allocated, allocatedCount, Owned, cuts} \subseteq Nat
        /\ {CountDue, ListDue, LinkDue, Target} \subseteq Int
        /\ fn' = fn
    BY <1>0, <1>12, AlarmJumps
  <2>1. CASE Jumped
    <3>1. todo' = <<>> /\ CutShort /\ pc # "idle" /\ pc # "return"
      <4>1. pc # "return"
        BY <1>12, AlarmJumps DEF JumpInv
      <4> QED
        BY <1>12, <2>1, <4>1, AlarmJumps DEF Jumped
    <3>2. NoneDue'
      BY <3>1, EmptyPlan, NothingDue
    <3>3. Owned' \in Nat /\ Owned' <= Owned
      <4>1. len' = len \/ len' \in 1 .. len
        BY <3>1 DEF CutShort
      <4>2. len \in Nat
        BY QTestAssumption DEF TypeOK
      <4>3. len' \in Nat /\ len' <= len
        BY <4>1, <4>2
      <4>4. CASE q
        <5>1. Owned = 1 + 2 * len /\ Owned' = 1 + 2 * len'
          BY <2>0, <4>4 DEF Owned
        <5>2. \A m \in Nat, n \in Nat : m <= n => 1 + 2 * m \in Nat /\ 1 + 2 * m <= 1 + 2 * n
          OBVIOUS
        <5>3. 1 + 2 * len' \in Nat /\ 1 + 2 * len' <= 1 + 2 * len
          BY ONLY <4>2, <4>3, <5>2, Zenon
        <5> QED
          BY ONLY <5>1, <5>3, Zenon
      <4>5. CASE ~q
        BY <2>0, <4>5 DEF Owned
      <4> QED
        BY <4>4, <4>5
    <3>4. Target' \in {0, Owned'}
      <4>1. CASE pc' # "call"
        BY <4>1, TargetIs
      <4>2. CASE pc' = "call"
        <5>1. ~rval' \/ UNCHANGED pc
          BY <2>1, <4>2 DEF Jumped
        <5>2. ~rval'
          BY <2>1, <4>2 DEF Jumped
        <5>3. Target' \in {0, One(rval'), Owned' + 2 * LinkDue'}
          BY <4>2 DEF Target
        <5>4. One(rval') = 0
          BY <5>2 DEF One
        <5>5. LinkDue' = 0
          BY <3>2 DEF NoneDue
        <5>6. Owned' + 2 * LinkDue' = Owned'
          <6>1. \A o \in Nat : \A l : l = 0 => o + 2 * l = o
            OBVIOUS
          <6> QED
            BY ONLY <3>3, <5>5, <6>1, Zenon
        <5> QED
          BY <5>3, <5>4, <5>6
      <4> QED
        BY <4>1, <4>2
    <3>5. Target' # 0 => allocatedCount >= Owned /\ allocated >= Owned
      <4> SUFFICES ASSUME Target' # 0 PROVE allocatedCount >= Owned /\ allocated >= Owned
        OBVIOUS
      <4>1. CASE pc = "call"
        <5>1. fn \notin Frees \cup {"new"}
          <6>1. pc' \in {"call", "cancel", "region", "after"} /\ lastCall = "queue"
            BY <2>0, <2>1, <4>1 DEF Jumped, LandInv
          <6>2. pc' = "call"
            BY <2>1, <4>1, <6>1 DEF Jumped
          <6>3. fn = "new" => Target' = One(rval')
            BY <2>0, <6>2 DEF Target, Frees
          <6>4. fn \in Frees => Target' = 0
            BY <2>0, <6>2 DEF Target, Frees
          <6>5. One(rval') = 0
            BY <2>1, <6>2 DEF Jumped, One
          <6> QED
            BY <6>3, <6>4, <6>5
        <5>2. CountDue <= 2 * LinkDue /\ ListDue <= 2 * LinkDue
          BY <2>0, <4>1, <5>1, DueBounds
        <5>3. Target = Owned + 2 * LinkDue
          BY <4>1, <5>1 DEF Target
        <5>4. allocatedCount + CountDue >= Target /\ allocated + ListDue >= Target
          BY <2>0 DEF BlocksInv, Agree
        <5> QED
          BY ONLY <2>0, <5>2, <5>3, <5>4
      <4>2. CASE pc # "call"
        <5>1. NoneDue /\ Target = (IF pc \in Closing /\ fn \in Frees THEN 0 ELSE Owned)
          BY <4>2, TargetIs
        <5>2. fn \notin Frees
          <6>1. pc' \in {"call", "cancel", "after"} \/ fn \in Repeats \cup {"show"}
            BY <2>1 DEF Jumped
          <6>2. fn \in Frees => pc' \in Closing \cup {"call"}
            BY <6>1 DEF Repeats, Inserts, Frees, Closing
          <6>3. fn \in Frees => Target' = 0
            BY <2>0, <6>2 DEF Target, Frees
          <6> QED
            BY <6>3
        <5>3. allocatedCount + 0 >= Owned /\ allocated + 0 >= Owned
          BY <2>0, <5>1, <5>2 DEF BlocksInv, Agree, NoneDue
        <5> QED
          BY <2>0, <5>3
      <4> QED
        BY <4>1, <4>2
    <3>6. allocated >= allocatedCount - (cuts + 1)
      <4>1. allocated + ListDue >= allocatedCount + CountDue - cuts
        BY <2>0 DEF BlocksInv, Agree
      <4>2. ListDue - CountDue <= 1
        <5>1. CASE pc = "call"
          BY <2>0, <5>1, DueBounds
        <5>2. CASE pc # "call"
          BY <5>2, TargetIs DEF NoneDue
        <5> QED
          BY <5>1, <5>2
      <4> QED
        BY ONLY <2>0, <4>1, <4>2
    <3>7. \A t \in Nat : (t # 0 => allocatedCount >= Owned /\ allocated >= Owned) /\ t \in {0, Owned'}
                          => Agree(allocatedCount, allocated, t, cuts + 1)
      <4>1. \A o \in Nat : o <= Owned => \A t \in Nat :
              (t # 0 => allocatedCount >= Owned /\ allocated >= Owned) /\ t \in {0, o}
                => Agree(allocatedCount, allocated, t, cuts + 1)
        BY <2>0, <3>6 DEF Agree
      <4> QED
        BY ONLY <3>3, <4>1, Zenon
    <3>8. Agree(allocatedCount, allocated, Target', cuts + 1)
      <4>1. Target' \in Nat
        BY ONLY <3>3, <3>4
      <4> QED
        BY <3>4, <3>5, <3>7, <4>1, Zenon
    <3>9. allocatedCount' + CountDue' = allocatedCount /\ allocated' + ListDue' = allocated
      BY <2>0, <3>2 DEF NoneDue
    <3>10. Agree(allocatedCount' + CountDue', allocated' + ListDue', Target', cuts')
      BY <2>0, <3>8, <3>9, Zenon
    <3> QED
      BY ONLY <3>10, Zenon DEF BlocksInv
  <2>2. CASE ~Jumped
    BY <1>1, <1>12, <2>2, AlarmJumps
  <2> QED
    BY <2>1, <2>2
<1>13. CASE UNCHANGED vars
  <2>1. /\ UNCHANGED <<q, len, pc, stack, status, cuts, allocated, allocatedCount, todo, rval>>
    BY <1>13 DEF vars, queueVars, callVars, heapVars, sessionVars
  <2> QED
    BY <2>1 DEF BlocksInv, CountDue, ListDue, LinkDue, Target, Owned, Left
<1> QED
  BY <1>2, <1>3, <1>4, <1>5, <1>6, <1>7, <1>8, <1>9, <1>10, <1>11, <1>12, <1>13
  DEF Next, TesterStep, QueueStep
\* A command that inserts has room for what it has yet to insert.
LEMMA NextLenInv ==
  ASSUME TypeOK, TypeOK', StackInv, ControlInv, LoopInv, JumpInv, LandInv, TodoInv, LenInv, [Next]_vars
  PROVE  LenInv'
<1> USE FunctionAfter, Typed DEF Goto
<1>0. /\ len \in Nat /\ len' \in Nat /\ reps \in Nat /\ rep \in Nat /\ MaxLen \in Nat
      /\ Extra \in Nat
      /\ status = "running" => LinkDue \in Int
  <2>1. len \in Nat /\ reps \in Nat /\ rep \in Nat /\ MaxLen \in Nat
    BY QTestAssumption DEF TypeOK
  <2>2. len' \in Nat
    BY QTestAssumption DEF TypeOK
  <2>3. status = "running" => LinkDue \in Int
    <3>1. CASE pc = "call"
      BY <3>1, DueBounds
    <3>2. CASE pc # "call"
      BY <3>2, TargetIs DEF NoneDue
    <3> QED
      BY <3>1, <3>2
  <2> QED
    BY <2>1, <2>2, <2>3 DEF Extra
<1>1. ASSUME fn' \notin Inserts
              \/ (pc' \in {"idle", "return"} /\ (alarm' => alarm /\ status = "running" /\ pc \in {"after", "return"}))
      PROVE  LenInv'
  <2>1. pc \in {"after", "return"} /\ status = "running" => ~alarm
    BY DEF JumpInv
  <2> QED
    BY <1>1, <2>1 DEF LenInv
<1>2. ASSUME NEW c \in Commands, NEW n \in 1..MaxReps, Start(c, n) PROVE LenInv'
  <2>1. StartEffect(c, n)
    BY <1>2, StartSteps
  <2>2. CASE fn' \in Inserts
    <3>1. /\ pc' = "setup" /\ len + n <= MaxLen /\ reps' = n /\ ~cut' /\ len' = len /\ rep' = 0
      <4>1. pc = "idle" /\ status = "running" /\ ~noBuffer /\ rep' = rep
        BY <2>1 DEF StartEffect
      <4>2. rep' = 0
        BY <4>1 DEF ControlInv
      <4>3. fn' \notin {"free", "show"}
        BY <2>2 DEF Inserts
      <4> QED
        BY <2>1, <2>2, <4>2, <4>3 DEF StartEffect
    <3>2. len + (n - 0) <= MaxLen + 0
      BY <1>0, <3>1
    <3>3. Extra' = 0
      BY <3>1 DEF Extra
    <3>4. len' + (reps' - rep') <= MaxLen + Extra'
      BY ONLY <3>1, <3>2, <3>3, Zenon
    <3> QED
      BY <3>1, <3>4 DEF LenInv
  <2>3. CASE fn' \notin Inserts
    BY <1>1, <2>3
  <2> QED
    BY <2>2, <2>3
<1>3. CASE exception_setup
  <2>1. /\ pc \in {"setup", "arm", "limit"} /\ pc' \in {"arm", "limit", "region"} /\ status = "running"
        /\ UNCHANGED <<len, reps, rep, cut, stack>>
        /\ alarm' => alarm \/ pc = "arm"
        /\ pc' = "arm" => pc = "setup"
    BY <1>3 DEF exception_setup, SetReady, StartAlarm, SetLimited, queueVars, sessionVars
  <2>2. Extra' = Extra
    BY <2>1 DEF Extra
  <2> QED
    BY <2>1, <2>2 DEF LenInv
<1>4. CASE exception_cancel
  <2>1. /\ pc \in {"cancel", "clear"} /\ pc' \in {"clear", "after"} /\ status = "running"
        /\ UNCHANGED <<len, reps, rep, cut, stack>>
        /\ alarm' => alarm
    BY <1>4 DEF exception_cancel, StopAlarm, ClearReady, queueVars, sessionVars
  <2>2. Extra' = Extra
    BY <2>1 DEF Extra
  <2> QED
    BY <2>1, <2>2 DEF LenInv
<1>5. CASE Call
  <2>1. CallEffect
    BY <1>5, CallSteps
  <2>2. /\ pc = "region" /\ pc' = "call" /\ status = "running" /\ UNCHANGED <<len, reps, rep, cut, stack, alarm>>
    BY <2>1 DEF CallEffect
  <2>3. CASE fn \in Inserts
    <3>1. LinkDue' = 1 \/ LinkDue' = 0
      <4>1. fn \notin Removes /\ fn # "new" /\ fn \notin Frees
        BY <2>3 DEF Inserts, Removes, Frees
      <4> QED
        BY <2>1, <4>1 DEF CallEffect, NoneDue
    <3>2. Extra' = Extra
      BY <2>2 DEF Extra
    <3>3. len + (reps - rep) <= MaxLen + Extra
      BY <2>2, <2>3 DEF LenInv
    <3>4. len + 1 + (reps - rep - 1) <= MaxLen + Extra /\ len + 0 + (reps - rep - 1) <= MaxLen + Extra
      BY ONLY <1>0, <3>3
    <3>5. len' + LinkDue' + (reps' - rep' - 1) <= MaxLen + Extra'
      BY ONLY <2>2, <3>1, <3>2, <3>4, Zenon
    <3> QED
      BY <2>2, <2>3, <3>5 DEF LenInv
  <2>4. CASE fn \notin Inserts
    BY <1>1, <2>2, <2>4
  <2> QED
    BY <2>3, <2>4
<1>6. CASE LoopEnds \/ ShowLoop
  <2>1. /\ pc = "region" /\ pc' = "cancel" /\ status = "running" /\ UNCHANGED <<len, reps, rep, cut, stack, alarm>>
    BY <1>6 DEF LoopEnds, ShowLoop, queueVars, sessionVars, jumpVars
  <2>2. Extra' = Extra
    BY <2>1 DEF Extra
  <2>3. fn \in Inserts => len <= MaxLen + Extra
    <3>1. fn \in Inserts => len + (reps - rep) <= MaxLen + Extra
      BY <2>1 DEF LenInv
    <3>2. rep <= reps
      BY DEF LoopInv
    <3> QED
      BY ONLY <1>0, <3>1, <3>2
  <2> QED
    BY <2>1, <2>2, <2>3 DEF LenInv
<1>7. CASE Check
  <2>1. /\ pc = "check" /\ pc' = "region" /\ status = "running" /\ UNCHANGED <<len, reps, cut, stack, alarm>>
        /\ rep' = rep + 1
    BY <1>7 DEF Check, queueVars, sessionVars, jumpVars
  <2>2. Extra' = Extra
    BY <2>1 DEF Extra
  <2>3. fn \in Inserts => len + (reps - (rep + 1)) <= MaxLen + Extra
    <3>1. fn \in Inserts => len + LinkDue + (reps - rep - 1) <= MaxLen + Extra
      BY <2>1 DEF LenInv
    <3>2. LinkDue = 0
      BY <2>1, TargetIs DEF NoneDue
    <3> QED
      BY ONLY <1>0, <3>1, <3>2
  <2>4. fn \in Inserts => len' + (reps' - rep') <= MaxLen + Extra'
    BY ONLY <2>1, <2>2, <2>3, Zenon
  <2> QED
    BY <2>1, <2>4 DEF LenInv
<1>8. CASE AfterCall
  <2>1. CASE CountRemoval
    <3>1. RemovalEffect
      BY <1>8, <2>1, RemovalSteps
    <3>2. fn' \in {"show", "rh"}
      BY <3>1 DEF RemovalEffect, Maybe
    <3> QED
      BY <1>1, <3>2 DEF Inserts
  <2>2. CASE CountInsertion \/ KeepValue
    <3>1. KeepEffect
      BY <1>8, <2>2, KeepSteps
    <3>2. /\ pc = "call" /\ pc' \in {"check", "cancel"} /\ fn' = fn /\ (fn \in Inserts => pc' = "check")
          /\ status = "running" /\ UNCHANGED <<len, reps, rep, cut, stack, alarm>> /\ LinkDue = 0 /\ LinkDue' = 0
      BY <3>1 DEF KeepEffect, NoneDue
    <3>3. Extra' = Extra
      BY <3>2 DEF Extra
    <3> QED
      BY <3>2, <3>3 DEF LenInv
  <2> QED
    BY <1>8, <2>1, <2>2 DEF AfterCall
<1>9. CASE After
  <2>1. AfterEffect
    BY <1>9, AfterSteps
  <2>2. pc = "after" /\ status = "running" /\ alarm' = alarm /\ (pc' = "return" \/ fn' = "show")
    BY <2>1 DEF AfterEffect, Maybe
  <2> QED
    BY <1>1, <2>2 DEF Inserts
<1>10. CASE Return
  <2>1. ReturnEffect
    BY <1>10, ReturnSteps
  <2>2. pc = "return" /\ status = "running" /\ alarm' = alarm /\ (pc' \in {"idle", "return"} \/ fn' \in {"rh", "new"})
    BY <2>1 DEF ReturnEffect
  <2> QED
    BY <1>1, <2>2 DEF Inserts
<1>11. CASE RemoveHeadNoBuffer
  BY <1>11 DEF RemoveHeadNoBuffer, LenInv
<1>12. CASE MallocFails
  <2>1. FailEffect
    BY <1>12, FailSteps
  <2>2. /\ pc = "call" /\ pc' = "call" /\ fn' = fn /\ LinkDue' = 0 /\ (fn \in Inserts => LinkDue = 1 \/ fn = "new")
        /\ status = "running" /\ UNCHANGED <<len, reps, rep, cut, stack, alarm>>
    BY <2>1 DEF FailEffect
  <2>3. Extra' = Extra
    BY <2>2 DEF Extra
  <2>4. fn \in Inserts => len + 0 + (reps - rep - 1) <= MaxLen + Extra
    <3>1. fn \in Inserts => len + LinkDue + (reps - rep - 1) <= MaxLen + Extra /\ LinkDue = 1
      BY <2>2 DEF LenInv, Inserts
    <3> QED
      BY ONLY <1>0, <3>1
  <2>5. fn \in Inserts => len' + LinkDue' + (reps' - rep' - 1) <= MaxLen + Extra'
    BY ONLY <2>2, <2>3, <2>4, Zenon
  <2> QED
    BY <2>2, <2>5 DEF LenInv
<1>13. CASE HeapStep
  <2>1. HeapEffect
    BY <1>13, HeapSteps
  <2>2. /\ fn' = fn /\ LinkDue' = LinkDue /\ UNCHANGED <<len, reps, rep, cut, alarm, status, pc>>
    BY <2>1 DEF HeapEffect
  <2> QED
    BY <2>2 DEF LenInv, Extra
<1>14. CASE ListStep
  <2>1. ListEffect
    BY <1>14, ListSteps
  <2>2. /\ fn' = fn /\ pc = "call" /\ pc' = "call" /\ status = "running" /\ UNCHANGED <<reps, rep, cut, alarm>>
        /\ LinkDue' = len + LinkDue - len'
    BY <2>1 DEF ListEffect
  <2>3. Extra' = Extra
    BY <2>2 DEF Extra
  <2>4. len' + LinkDue' = len + LinkDue
    <3>1. \A m \in Nat, n \in Nat, d \in Int : m + (n + d - m) = n + d
      OBVIOUS
    <3> QED
      BY <1>0, <2>2, <3>1, Zenon
  <2>5. fn \in Inserts => len' + LinkDue' + (reps' - rep' - 1) <= MaxLen + Extra'
    <3>1. fn \in Inserts => len + LinkDue + (reps - rep - 1) <= MaxLen + Extra
      BY <2>2 DEF LenInv
    <3> QED
      BY ONLY <2>2, <2>3, <2>4, <3>1, Zenon
  <2> QED
    BY <2>2, <2>5 DEF LenInv
<1>15. CASE sigalrmhandler
  <2>1. CASE Jumped
    <3>0. /\ status = "running" /\ alarm /\ cut' = TRUE /\ fn' = fn /\ reps' = reps /\ ~alarm'
          /\ pc' \in {"call", "cancel", "region", "after"} /\ todo' = <<>> /\ CutShort /\ pc # "idle"
          /\ rep' = rep \/ (pc' = "region" /\ rep' \in 0 .. reps)
      <4>1. status = "running" /\ alarm /\ reps' = reps /\ stack' = stack
        BY <1>15, <2>1, AlarmJumps
      <4>2. cut' = TRUE
        BY <1>15 DEF sigalrmhandler
      <4>3. CutShort
        BY <1>15, <2>1, AlarmJumps DEF Jumped
      <4>4. todo' = <<>>
        BY <2>1 DEF Jumped
      <4>5. pc' \in {"call", "cancel", "region", "after"} /\ pc # "idle" /\ ~alarm'
        BY <2>1 DEF Jumped
      <4>6. rep' = rep \/ (pc' = "region" /\ rep' \in 0 .. reps)
        BY <2>1 DEF Jumped
      <4> QED
        BY <4>1, <4>2, <4>3, <4>4, <4>5, <4>6
    <3>1. CASE fn \in Inserts
      <4>1. ~cut /\ Extra = 0 /\ Extra' = reps
        BY <3>0, <3>1 DEF LenInv, Extra
      <4>2. len <= MaxLen
        <5>1. pc \in {"setup", "arm", "limit", "region"} => len + (reps - rep) <= MaxLen + 0 /\ rep <= reps
          BY <3>0, <3>1, <4>1 DEF LenInv, LoopInv
        <5>2. pc \in {"call", "check"} =>
                len + LinkDue + (reps - rep - 1) <= MaxLen + 0 /\ LinkDue >= 0 /\ rep < reps /\ LinkDue \in Int
          <6>1. pc \in {"call", "check"} => len + LinkDue + (reps - rep - 1) <= MaxLen + 0 /\ rep < reps
            BY <3>0, <3>1, <4>1 DEF LenInv, LoopInv, Repeats
          <6>2. pc = "call" => LinkDue >= 0 /\ LinkDue \in Int
            BY <3>0, <3>1, DueBounds
          <6>3. pc = "check" => LinkDue = 0
            BY TargetIs DEF NoneDue
          <6> QED
            BY <6>1, <6>2, <6>3
        <5>3. pc \in {"cancel", "clear", "after"} => len <= MaxLen + 0
          BY <3>0, <3>1, <4>1 DEF LenInv
        <5>4. pc # "return" /\ pc \in {"setup", "arm", "limit", "region", "call", "check", "cancel", "clear", "after"}
          <6>1. pc # "return"
            BY <3>0 DEF JumpInv
          <6> QED
            BY <3>0, <6>1 DEF TypeOK
        <5> QED
          BY ONLY <1>0, <5>1, <5>2, <5>3, <5>4
      <4>3. len' \in Nat /\ len' <= len
        <5>1. len' = len \/ len' \in 1 .. len
          BY <3>0 DEF CutShort
        <5>2. \A m : m = len \/ m \in 1 .. len => m \in Nat /\ m <= len
          BY <1>0
        <5> QED
          BY ONLY <5>1, <5>2, Zenon
      <4>4. LinkDue' = 0
        BY <3>0, EmptyPlan, NothingDue DEF NoneDue
      <4>5. \A m \in Nat : m <= len =>
              /\ m <= MaxLen + reps /\ m + 0 + (reps - rep - 1) <= MaxLen + reps
              /\ \A r \in 0 .. reps : m + (reps - r) <= MaxLen + reps
        BY ONLY <1>0, <4>2
      <4>6. rep' \in 0 .. reps
        <5>1. rep \in 0 .. reps
          BY <1>0 DEF LoopInv
        <5> QED
          BY <3>0, <5>1
      <4>7. /\ len' <= MaxLen + Extra'
            /\ pc' \in {"setup", "arm", "limit", "region"} => len' + (reps' - rep') <= MaxLen + Extra'
            /\ pc' \in {"call", "check"} => len' + LinkDue' + (reps' - rep' - 1) <= MaxLen + Extra'
        <5>1. len' <= MaxLen + Extra'
          BY ONLY <4>1, <4>3, <4>5, Zenon
        <5>2. len' + (reps' - rep') <= MaxLen + Extra'
          BY ONLY <3>0, <4>1, <4>3, <4>5, <4>6, Zenon
        <5>3. rep' = rep => len' + LinkDue' + (reps' - rep' - 1) <= MaxLen + Extra'
          BY ONLY <3>0, <4>1, <4>3, <4>4, <4>5, Zenon
        <5>4. pc' \in {"call", "check"} => rep' = rep
          BY <3>0
        <5> QED
          BY ONLY <5>1, <5>2, <5>3, <5>4, Zenon
      <4> QED
        BY <3>0, <3>1, <4>7 DEF LenInv
    <3>2. CASE fn \notin Inserts
      BY <1>1, <3>0, <3>2
    <3> QED
      BY <3>1, <3>2
  <2>2. CASE ~Jumped
    <3>1. status' = "lost"
      BY <1>15, <2>2, AlarmJumps
    <3> QED
      BY <3>1 DEF LenInv
  <2> QED
    BY <2>1, <2>2
<1>16. CASE UNCHANGED vars
  <2>1. /\ UNCHANGED <<len, pc, stack, status, reps, rep, cut, alarm, todo, rval>>
    BY <1>16 DEF vars, queueVars, callVars, jumpVars, sessionVars
  <2> QED
    BY <2>1 DEF LenInv, LinkDue, Extra, Left
<1> QED
  BY <1>2, <1>3, <1>4, <1>5, <1>6, <1>7, <1>8, <1>9, <1>10, <1>11, <1>12, <1>13, <1>14, <1>15, <1>16
  DEF Next, TesterStep, QueueStep
-----------------------------------------------------------------------------
(* Time-outs *)

\* A command that was timed out remembers it, below verbosity 3, in
\* error_occurred or in its value.
LEMMA NextCutsInv ==
  ASSUME TypeOK, StackInv, JumpInv, LandInv, CutsInv, [Next]_vars
  PROVE  CutsInv'
<1>1. ASSUME UNCHANGED <<cuts, cut>> PROVE CutsInv'
  BY <1>1 DEF CutsInv
<1>2. ASSUME NEW c \in Commands, NEW n \in 1..MaxReps, Start(c, n) PROVE CutsInv'
  BY <1>2 DEF CutsInv, Start
<1>3. CASE TesterStep
  BY <1>3, <1>1 DEF TesterStep, exception_setup, exception_cancel, Call, LoopEnds, AfterCall, Check, ShowLoop,
     After, Return, sessionVars
<1>4. CASE RemoveHeadNoBuffer
  BY <1>4, <1>1 DEF RemoveHeadNoBuffer
<1>5. CASE QueueStep
  BY <1>5, <1>1 DEF QueueStep, MallocFails, HeapStep, ListStep, sessionVars
<1>6. CASE sigalrmhandler
  BY <1>6, AlarmJumps DEF CutsInv
<1>7. CASE UNCHANGED vars
  BY <1>7, <1>1 DEF vars, sessionVars
<1> QED
  BY <1>2, <1>3, <1>4, <1>5, <1>6, <1>7 DEF Next

\* A command that was timed out remembers it, below verbosity 3, in
\* error_occurred or in its value.
LEMMA NextCutShows ==
  ASSUME TypeOK, StackInv, ControlInv, LoopInv, JumpInv, LandInv, TodoInv, CutShows, [Next]_vars
  PROVE  CutShows'
<1> USE FunctionAfter, Typed
<1>1. ASSUME stack' = stack, UNCHANGED <<verblevel, cut, errorOccurred, ok>>, status = "running", pc # "idle"
      PROVE  CutShows'
  BY <1>1 DEF CutShows
<1>2. ASSUME NEW c \in Commands, NEW n \in 1..MaxReps, Start(c, n) PROVE CutShows'
  <2>1. StartEffect(c, n)
    BY <1>2, StartSteps
  <2>2. ~cut' /\ (Depth' = 2 => fn' = "free")
    BY <2>1 DEF StartEffect
  <2> QED
    BY <2>2 DEF CutShows
<1>3. CASE exception_setup \/ exception_cancel \/ Call \/ LoopEnds
  <2>1. /\ stack' = stack /\ UNCHANGED <<verblevel, cut, errorOccurred, ok>> /\ status = "running" /\ pc # "idle"
    BY <1>3 DEF exception_setup, exception_cancel, Call, LoopEnds, Goto, sessionVars
  <2> QED
    BY <1>1, <2>1
<1>4. CASE ShowLoop
  BY <1>4 DEF ShowLoop, CutShows, sessionVars
<1>5. CASE Check
  <2>1. /\ pc = "check" /\ status = "running" /\ stack' = stack /\ UNCHANGED <<verblevel, cut>>
        /\ fn \in Repeats
        /\ IF fn = "rh" THEN UNCHANGED <<ok, errorOccurred>>
           ELSE ok' = (ok /\ ~errorOccurred) /\ errorOccurred' = (errorOccurred /\ ~ok)
    BY <1>5 DEF Check, Goto, sessionVars, LandInv
  <2>2. CASE fn = "rh"
    BY <1>1, <2>1, <2>2
  <2>3. CASE fn = "size"
    <3>1. fn' = "size" /\ (errorOccurred \/ ~ok => errorOccurred' \/ ~ok')
      BY <2>1, <2>3
    <3> QED
      BY <2>1, <2>3, <3>1 DEF CutShows
  <2>4. CASE fn \in Inserts
    <3>1. fn' \in Inserts /\ fn' \notin {"size", "new", "show"}
      BY <2>1, <2>4 DEF Inserts
    <3> QED
      BY <3>1 DEF CutShows
  <2> QED
    BY <2>1, <2>2, <2>3, <2>4 DEF Repeats
<1>6. CASE AfterCall
  <2>1. CASE CountRemoval
    <3>1. RemovalEffect
      BY <1>6, <2>1, RemovalSteps
    <3>2. CASE Pushed
      <4>1. fn' = "show" /\ verblevel' >= 3
        BY <3>1, <3>2 DEF RemovalEffect, Shows
      <4> QED
        BY <4>1 DEF CutShows
    <3>3. CASE ~Pushed
      <4>1. stack' = stack /\ fn = "rh" /\ fn' = fn /\ UNCHANGED <<verblevel, cut, errorOccurred>>
            /\ status = "running" /\ pc # "idle"
        BY <3>1, <3>3 DEF RemovalEffect, Maybe
      <4> QED
        BY <4>1 DEF CutShows
    <3> QED
      BY <3>2, <3>3
  <2>2. CASE CountInsertion \/ KeepValue
    <3>1. KeepEffect
      BY <1>6, <2>2, KeepSteps
    <3>2. /\ stack' = stack /\ fn' = fn /\ UNCHANGED <<verblevel, cut, errorOccurred>>
          /\ status = "running" /\ pc # "idle" /\ (fn \notin Inserts => ok' = ok)
      BY <3>1 DEF KeepEffect
    <3> QED
      BY <3>2 DEF CutShows, Inserts
  <2> QED
    BY <1>6, <2>1, <2>2 DEF AfterCall
<1>7. CASE After
  <2>1. AfterEffect
    BY <1>7, AfterSteps
  <2>2. CASE Pushed
    <3>1. fn' = "show" /\ verblevel' >= 3
      BY <2>1, <2>2 DEF AfterEffect, Shows
    <3> QED
      BY <3>1 DEF CutShows
  <2>3. CASE ~Pushed
    <3>1. /\ stack' = stack /\ fn' = fn /\ UNCHANGED <<verblevel, cut, errorOccurred>>
          /\ status = "running" /\ pc # "idle"
      BY <2>1, <2>3 DEF AfterEffect, Maybe
    <3>2. fn = "new" => ok' = ok
      BY <2>1 DEF AfterEffect
    <3>3. fn = "size" => ok' = FALSE \/ ok' = ok \/ ~cut
      BY <2>1 DEF AfterEffect
    <3> QED
      BY <3>1, <3>2, <3>3 DEF CutShows
  <2> QED
    BY <2>2, <2>3
<1>8. CASE Return
  <2>1. ReturnEffect
    BY <1>8, ReturnSteps
  <2>2. CASE fn = "show" /\ Popped
    <3>1. verblevel' >= 3 /\ Depth' = 1
      BY <2>1, <2>2 DEF ReturnEffect, CutShows
    <3>2. ~(verblevel' < 3)
      <4>1. verblevel \in Nat /\ verblevel' = verblevel
        BY <2>1, QTestAssumption DEF ReturnEffect, TypeOK
      <4> QED
        BY <3>1, <4>1
    <3> QED
      BY <3>1, <3>2 DEF CutShows
  <2>3. CASE fn = "free" /\ Popped /\ stack[2] = "new" /\ ok' = Value
    <3>1. fn' = "new" /\ Depth' = 1 /\ UNCHANGED <<verblevel, cut>> /\ pc = "return" /\ status = "running"
      BY <2>1, <2>3 DEF ReturnEffect
    <3>2. cut /\ verblevel < 3 => errorOccurred
      BY <2>3, <3>1 DEF CutShows, Inserts
    <3>3. errorOccurred => ~Value
      BY <2>3 DEF Value, Inserts
    <3> QED
      BY <2>3, <3>1, <3>2, <3>3 DEF CutShows
  <2>4. CASE pc' = "idle" /\ stack' = <<>>
    BY <2>4 DEF CutShows, Depth
  <2> QED
    BY <2>1, <2>2, <2>3, <2>4 DEF ReturnEffect
<1>9. CASE RemoveHeadNoBuffer
  BY <1>9 DEF RemoveHeadNoBuffer, CutShows, Goto, Depth
<1>10. CASE QueueStep
  <2>1. /\ stack' = stack /\ UNCHANGED <<verblevel, cut, errorOccurred, ok>> /\ status = "running" /\ pc # "idle"
    BY <1>10 DEF QueueStep, MallocFails, HeapStep, ListStep, InQueueCode, sessionVars
  <2> QED
    BY <1>1, <2>1
<1>11. CASE sigalrmhandler
  <2>1. stack' = stack /\ verblevel' = verblevel
    BY <1>11, AlarmJumps
  <2>2. CASE Jumped
    BY <2>1, <2>2 DEF CutShows, Jumped
  <2>3. CASE ~Jumped
    BY <1>11, <2>1, <2>3, AlarmJumps DEF CutShows
  <2> QED
    BY <2>2, <2>3
<1>12. CASE UNCHANGED vars
  BY <1>12 DEF vars, callVars, sessionVars, CutShows
<1> QED
  BY <1>2, <1>3, <1>4, <1>5, <1>6, <1>7, <1>8, <1>9, <1>10, <1>11, <1>12 DEF Next, TesterStep

\* So it fails.
LEMMA NextTimeoutFails ==
  ASSUME TypeOK, StackInv, ControlInv, JumpInv, LandInv, CutShows, TimeoutFails, [Next]_vars
  PROVE  TimeoutFails'
<1> USE Typed
<1>1. ASSUME UNCHANGED <<result, verblevel>> PROVE TimeoutFails'
  BY <1>1 DEF TimeoutFails
<1>2. ASSUME NEW c \in Commands, NEW n \in 1..MaxReps, Start(c, n) PROVE TimeoutFails'
  BY <1>2 DEF Start, NoResult, TimeoutFails
<1>3. CASE exception_setup \/ exception_cancel \/ Call \/ LoopEnds \/ ShowLoop \/ Check \/ AfterCall \/ After
  BY <1>3, <1>1 DEF exception_setup, exception_cancel, Call, LoopEnds, AfterCall, Check, ShowLoop, After, sessionVars
<1>4. CASE Return
  <2>1. ReturnEffect
    BY <1>4, ReturnSteps
  <2>2. CASE result' = result
    BY <1>1, <2>1, <2>2 DEF ReturnEffect
  <2>3. CASE result' = [command |-> fn, ok |-> Value, cut |-> cut] /\ Depth = 1
    <3>1. verblevel' = verblevel /\ pc = "return" /\ status = "running"
      BY <2>1 DEF ReturnEffect
    <3>2. result'.cut = cut /\ result'.command = fn /\ result'.ok = Value
      BY <2>3
    <3>3. ASSUME cut, verblevel < 3, fn \notin Inserts \cup {"show", "quit"} PROVE ~Value
      <4>1. IF fn \in {"size", "new"} THEN errorOccurred \/ ~ok ELSE errorOccurred
        BY <3>1, <3>3 DEF CutShows
      <4>2. Value = IF fn = "free" THEN ok /\ NoBlocks /\ ~errorOccurred
                    ELSE IF fn = "reverse" THEN ~errorOccurred ELSE ok /\ ~errorOccurred
        BY <3>3 DEF Value
      <4> QED
        BY <4>1, <4>2
    <3> QED
      BY <3>1, <3>2, <3>3 DEF TimeoutFails
  <2> QED
    BY <2>1, <2>2, <2>3 DEF ReturnEffect
<1>5. CASE RemoveHeadNoBuffer
  BY <1>5 DEF RemoveHeadNoBuffer, TimeoutFails
<1>6. CASE QueueStep
  BY <1>6, <1>1 DEF QueueStep, MallocFails, HeapStep, ListStep, sessionVars
<1>7. CASE sigalrmhandler
  BY <1>7, <1>1 DEF sigalrmhandler
<1>8. CASE UNCHANGED vars
  BY <1>8, <1>1 DEF vars, sessionVars
<1> QED
  BY <1>2, <1>3, <1>4, <1>5, <1>6, <1>7, <1>8 DEF Next, TesterStep

\* The alarm finds a region to jump out of.
LEMMA NextFindsRegion ==
  ASSUME TypeOK, StackInv, ControlInv, JumpInv, LandInv, TodoInv, AlarmFindsRegion, [Next]_vars
  PROVE  AlarmFindsRegion'
<1>1. ASSUME UNCHANGED <<status, noBuffer>> PROVE AlarmFindsRegion'
  BY <1>1 DEF AlarmFindsRegion
<1>2. ASSUME NEW c \in Commands, NEW n \in 1..MaxReps, Start(c, n) PROVE AlarmFindsRegion'
  BY <1>2, <1>1 DEF Start
<1>3. CASE exception_setup \/ exception_cancel \/ Call \/ LoopEnds \/ ShowLoop \/ Check \/ AfterCall \/ After
  BY <1>3, <1>1 DEF exception_setup, exception_cancel, Call, LoopEnds, AfterCall, Check, ShowLoop, After, sessionVars
<1>4. CASE Return
  <2>1. ReturnEffect
    BY <1>4, ReturnSteps, Typed
  <2> QED
    BY <2>1 DEF ReturnEffect, AlarmFindsRegion
<1>5. CASE RemoveHeadNoBuffer
  BY <1>5 DEF RemoveHeadNoBuffer, AlarmFindsRegion, Goto
<1>6. CASE MallocFails \/ ListStep
  BY <1>6, <1>1 DEF MallocFails, ListStep, sessionVars
<1>7. CASE HeapStep
  <2>1. HeapEffect
    BY <1>7, HeapSteps
  <2> QED
    BY <1>1, <2>1 DEF HeapEffect
<1>8. CASE sigalrmhandler
  BY <1>8, AlarmJumps DEF AlarmFindsRegion
<1>9. CASE UNCHANGED vars
  BY <1>9, <1>1 DEF vars, sessionVars
<1> QED
  BY <1>2, <1>3, <1>4, <1>5, <1>6, <1>7, <1>8, <1>9 DEF Next, TesterStep, QueueStep
-----------------------------------------------------------------------------
(* The tester's own accounts *)

\* qcnt is a size_t that holds the length of every list.
LEMMA Wraps == \A n \in Nat : n <= MaxLen => n % Modulus = n
BY QTestAssumption

\* Outside the calls nothing is still to be counted.
LEMMA NothingToCount ==
  /\ pc \notin {"call", "cancel", "clear", "after"} => Inserted = 0 /\ Removed = 0 /\ NoneDue
  /\ pc' \notin {"call", "cancel", "clear", "after"} => Inserted' = 0 /\ Removed' = 0 /\ NoneDue'
  /\ pc # "call" => Inserted = 0 /\ NoneDue /\ (fn # "rhq" => Removed = 0)
  /\ pc' # "call" => Inserted' = 0 /\ NoneDue' /\ (fn' # "rhq" => Removed' = 0)
<1>1. (pc # "call" => NoneDue) /\ (pc' # "call" => NoneDue')
  BY NothingDue
<1>2. /\ pc # "call" => Inserted = 0 /\ (fn # "rhq" => Removed = 0)
      /\ pc' # "call" => Inserted' = 0 /\ (fn' # "rhq" => Removed' = 0)
      /\ pc \notin {"call", "cancel", "clear", "after"} => Removed = 0
      /\ pc' \notin {"call", "cancel", "clear", "after"} => Removed' = 0
  BY DEF Inserted, Removed
<1> QED
  BY <1>1, <1>2

\* qcnt and q_size follow the list, with what the running call has still to add.
LEMMA NextAccountsInv ==
  ASSUME TypeOK, StackInv, ControlInv, LoopInv, JumpInv, LandInv, TodoInv, EmptyInv, LenInv,
         CutsInv, AccountsInv, [Next]_vars
  PROVE  AccountsInv'
<1> USE FunctionAfter, Typed DEF Goto
<1>0. /\ len \in Nat /\ qcnt \in Nat /\ qSize \in Int /\ MaxLen \in Nat /\ Modulus \in Nat /\ q \in BOOLEAN
      /\ MaxLen < Modulus
      /\ \A n \in Nat : n <= MaxLen => n % Modulus = n
  BY QTestAssumption, Wraps DEF TypeOK
<1>a. status = "running" /\ cuts = 0 => Accounts(qcnt, Inserted, Removed, qSize, GrowDue, len, LinkDue, q)
  BY DEF AccountsInv
<1>b. \A c \in Nat, s \in Int, n \in Nat, g \in BOOLEAN :
        Accounts(c, 0, 0, s, 0, n, 0, g) <=> c = n /\ (g => s = n) /\ n <= MaxLen
  BY <1>0 DEF Accounts
\* The case of most steps: what is counted, and what is still to be, do not change.
<1>1. ASSUME status = "running", UNCHANGED <<cuts, qcnt, qSize, len, q>>,
             Inserted' = Inserted, Removed' = Removed, LinkDue' = LinkDue, GrowDue' = GrowDue
      PROVE  AccountsInv'
  <2>1. cuts' = 0 => Accounts(qcnt', Inserted', Removed', qSize', GrowDue', len', LinkDue', q')
    BY <1>a, <1>1
  <2> QED
    BY <2>1 DEF AccountsInv
<1>2. ASSUME status = "running", UNCHANGED <<cuts, qcnt, qSize, len, q>>,
             pc \notin {"call", "cancel", "clear", "after"}, pc' \notin {"call", "cancel", "clear", "after"}
      PROVE  AccountsInv'
  <2>1. Inserted' = 0 /\ Removed' = 0 /\ NoneDue' /\ Inserted = 0 /\ Removed = 0 /\ NoneDue
    BY <1>2, NothingToCount
  <2> QED
    BY <1>1, <1>2, <2>1 DEF NoneDue
<1>3. ASSUME NEW c \in Commands, NEW n \in 1..MaxReps, Start(c, n) PROVE AccountsInv'
  <2>1. StartEffect(c, n)
    BY <1>3, StartSteps
  <2>2. /\ status = "running" /\ UNCHANGED <<cuts, qcnt, qSize, len, q>> /\ pc = "idle"
        /\ pc' \in {"setup", "return"}
    BY <2>1 DEF StartEffect
  <2> QED
    BY <1>2, <2>2
<1>4. CASE exception_setup
  <2>1. /\ pc \in {"setup", "arm", "limit"} /\ pc' \in {"arm", "limit", "region"} /\ status = "running"
        /\ UNCHANGED <<cuts, qcnt, qSize, len, q>>
    BY <1>4 DEF exception_setup, queueVars, sessionVars
  <2> QED
    BY <1>2, <2>1
<1>5. CASE exception_cancel
  <2>1. /\ pc \in {"cancel", "clear"} /\ pc' \in {"clear", "after"} /\ status = "running"
        /\ UNCHANGED <<cuts, qcnt, qSize, len, q, stack, rval>>
    BY <1>5 DEF exception_cancel, queueVars, sessionVars
  <2>2. Removed' = Removed
    BY <2>1 DEF Removed
  <2>3. Inserted = 0 /\ NoneDue /\ Inserted' = 0 /\ NoneDue'
    BY <2>1, NothingToCount
  <2> QED
    BY <1>1, <2>1, <2>2, <2>3 DEF NoneDue
<1>6. CASE Call
  <2>1. CallEffect
    BY <1>6, CallSteps
  <2>2. /\ pc = "region" /\ pc' = "call" /\ status = "running" /\ UNCHANGED <<cuts, qcnt, qSize, len, q>>
        /\ fn' = fn /\ fn \in Commands
    BY <2>1 DEF CallEffect
  <2>3. Inserted = 0 /\ Removed = 0 /\ LinkDue = 0 /\ GrowDue = 0
    BY <2>2, NothingToCount DEF NoneDue
  <2>4. \/ Inserted' = 0 /\ Removed' = 0 /\ LinkDue' = 0 /\ GrowDue' = 0
        \/ Inserted' = 1 /\ Removed' = 0 /\ LinkDue' = 1 /\ GrowDue' = 1
        \/ Inserted' = 0 /\ Removed' = 1 /\ LinkDue' = -1 /\ GrowDue' = -1
    <3>1. CASE fn \in Inserts
      <4>1. fn \notin Removes /\ fn \notin Frees /\ fn # "new"
        BY <3>1, <2>2, KindsOfCommands DEF Kinds
      <4>2. Removed' = 0 /\ Inserted' = One(rval')
        BY <2>2, <3>1, <4>1 DEF Removed, Inserted, Removes
      <4>3. \/ rval' /\ LinkDue' = 1 /\ GrowDue' = 1
            \/ ~rval' /\ LinkDue' = 0 /\ GrowDue' = 0
        BY <2>1, <3>1, <4>1 DEF CallEffect, NoneDue
      <4> QED
        BY <4>2, <4>3 DEF One
    <3>2. CASE fn \in Removes
      <4>1. fn \notin Inserts /\ fn \notin Frees /\ fn # "new"
        BY <3>2, <2>2, KindsOfCommands DEF Kinds
      <4>2. Inserted' = 0 /\ Removed' = One(rval')
        BY <2>2, <3>2, <4>1 DEF Removed, Inserted
      <4>3. \/ rval' /\ LinkDue' = -1 /\ GrowDue' = -1
            \/ ~rval' /\ LinkDue' = 0 /\ GrowDue' = 0
        BY <2>1, <3>2, <4>1 DEF CallEffect, NoneDue
      <4> QED
        BY <4>2, <4>3 DEF One
    <3>3. CASE fn \notin Inserts /\ fn \notin Removes
      <4>1. Inserted' = 0 /\ Removed' = 0
        BY <2>2, <3>3 DEF Removed, Inserted
      <4>2. LinkDue' = 0 /\ GrowDue' = 0
        BY <2>1, <3>3 DEF CallEffect, NoneDue
      <4> QED
        BY <4>1, <4>2
    <3> QED
      BY <3>1, <3>2, <3>3
  <2>5. /\ \A c \in Nat, s \in Int, n \in Nat, g \in BOOLEAN :
             Accounts(c, 0, 0, s, 0, n, 0, g) => Accounts(c, 1, 0, s, 1, n, 1, g) /\ Accounts(c, 0, 1, s, -1, n, -1, g)
    BY <1>0 DEF Accounts
  <2>6. cuts = 0 => /\ Accounts(qcnt, 0, 0, qSize, 0, len, 0, q)
                    /\ Accounts(qcnt, 1, 0, qSize, 1, len, 1, q)
                    /\ Accounts(qcnt, 0, 1, qSize, -1, len, -1, q)
    BY <1>a, <1>0, <2>2, <2>3, <2>5
  <2>7. cuts' = 0 => Accounts(qcnt', Inserted', Removed', qSize', GrowDue', len', LinkDue', q')
    BY ONLY <2>2, <2>4, <2>6, Zenon
  <2> QED
    BY <2>7 DEF AccountsInv
<1>7. CASE LoopEnds \/ ShowLoop
  <2>1. /\ pc = "region" /\ pc' = "cancel" /\ status = "running" /\ UNCHANGED <<cuts, qcnt, qSize, len, q>>
        /\ fn' = fn /\ fn # "rhq"
    <3>1. fn # "rhq"
      BY <1>7 DEF LoopEnds, ShowLoop, Looping, Repeats, Inserts
    <3> QED
      BY <1>7, <3>1 DEF LoopEnds, ShowLoop, queueVars, sessionVars
  <2>2. Inserted' = 0 /\ Removed' = 0 /\ NoneDue' /\ Inserted = 0 /\ Removed = 0 /\ NoneDue
    BY <2>1, NothingToCount
  <2> QED
    BY <1>1, <2>1, <2>2 DEF NoneDue
<1>8. CASE Check
  <2>1. pc = "check" /\ pc' = "region" /\ status = "running" /\ UNCHANGED <<cuts, qcnt, qSize, len, q>>
    BY <1>8 DEF Check, queueVars, sessionVars
  <2> QED
    BY <1>2, <2>1
<1>9. CASE AfterCall
  <2>1. CASE CountRemoval
    <3>1. RemovalEffect
      BY <1>9, <2>1, RemovalSteps
    <3>2. /\ pc = "call" /\ fn = "rh" /\ todo = <<>> /\ pc' \in {"check", "setup"} /\ status = "running"
          /\ UNCHANGED <<cuts, qSize, len, q>> /\ qcnt' = (qcnt - One(rval)) % Modulus
      BY <3>1 DEF RemovalEffect, Maybe, One
    <3>3. Removed = One(rval) /\ Inserted = 0
      BY <3>2 DEF Removed, Inserted, Removes, Inserts
    <3>4. NoneDue
      <4>1. Left = 0
        BY <3>2 DEF Left
      <4> QED
        BY <4>1, NothingDue
    <3>5. cuts = 0 => Accounts(qcnt, 0, One(rval), qSize, 0, len, 0, q)
      BY <1>a, <3>2, <3>3, <3>4 DEF NoneDue
    <3>6. cuts = 0 => (qcnt - One(rval)) % Modulus = len /\ (q => qSize = len) /\ len <= MaxLen
      <4>1. One(rval) \in Int
        BY DEF One
      <4>2. cuts = 0 => qcnt - One(rval) = len /\ (q => qSize = len) /\ len <= MaxLen
        BY ONLY <1>0, <3>5, <4>1 DEF Accounts
      <4> QED
        BY <1>0, <4>2
    <3>7. cuts = 0 => Accounts(len, 0, 0, qSize, 0, len, 0, q)
      BY <1>0, <3>6 DEF Accounts
    <3>8. Inserted' = 0 /\ Removed' = 0 /\ LinkDue' = 0 /\ GrowDue' = 0
      BY <3>2, NothingToCount DEF NoneDue
    <3>9. cuts' = 0 => Accounts(qcnt', Inserted', Removed', qSize', GrowDue', len', LinkDue', q')
      BY <3>2, <3>6, <3>7, <3>8
    <3> QED
      BY <3>9 DEF AccountsInv
  <2>2. CASE CountInsertion \/ KeepValue
    <3>1. KeepEffect
      BY <1>9, <2>2, KeepSteps
    <3>2. /\ pc = "call" /\ status = "running" /\ fn' = fn /\ fn \in Commands \ {"rh"} /\ NoneDue /\ NoneDue'
          /\ UNCHANGED <<cuts, qSize, len, rval, stack>> /\ pc' \in {"check", "cancel"}
          /\ q' = (IF fn = "new" THEN rval ELSE q)
      BY <3>1 DEF KeepEffect
    <3>3. CASE fn \in Inserts
      <4>1. qcnt' = (qcnt + One(rval)) % Modulus /\ pc' = "check" /\ q' = q
        BY <3>1, <3>3 DEF KeepEffect, One, Inserts
      <4>2. Removed = 0 /\ Inserted = One(rval)
        BY <3>2, <3>3 DEF Removed, Inserted, Removes, Inserts
      <4>3. cuts = 0 => Accounts(qcnt, One(rval), 0, qSize, 0, len, 0, q)
        BY <1>a, <3>2, <4>2 DEF NoneDue
      <4>4. cuts = 0 => (qcnt + One(rval)) % Modulus = len /\ (q => qSize = len) /\ len <= MaxLen
        <5>1. One(rval) \in Int
          BY DEF One
        <5>2. cuts = 0 => qcnt + One(rval) = len /\ (q => qSize = len) /\ len <= MaxLen
          BY ONLY <1>0, <4>3, <5>1 DEF Accounts
        <5> QED
          BY <1>0, <5>2
      <4>5. cuts = 0 => Accounts(len, 0, 0, qSize, 0, len, 0, q)
        BY <1>0, <4>4 DEF Accounts
      <4>6. Inserted' = 0 /\ Removed' = 0 /\ LinkDue' = 0 /\ GrowDue' = 0
        BY <4>1, NothingToCount DEF NoneDue
      <4>7. cuts' = 0 => Accounts(qcnt', Inserted', Removed', qSize', GrowDue', len', LinkDue', q')
        BY <3>2, <4>1, <4>4, <4>5, <4>6
      <4> QED
        BY <4>7 DEF AccountsInv
    <3>4. CASE fn = "new"
      <4>1. len = 0 /\ qSize = 0
        <5>1. Depth = 1
          BY <3>2, <3>4 DEF StackInv, Frees
        <5> QED
          BY <3>2, <3>4, <5>1 DEF EmptyInv
      <4>2. qcnt' = qcnt
        BY <3>1, <3>4 DEF KeepEffect, Inserts
      <4>3. Inserted = 0 /\ Removed = 0 /\ Inserted' = 0 /\ Removed' = 0
        BY <3>2, <3>4 DEF Inserted, Removed, Inserts, Removes
      <4>4. cuts = 0 => Accounts(qcnt, 0, 0, qSize, 0, len, 0, q)
        BY <1>a, <3>2, <4>3 DEF NoneDue
      <4>5. cuts = 0 => Accounts(qcnt, 0, 0, qSize, 0, len, 0, rval)
        BY <1>0, <4>1, <4>4 DEF Accounts
      <4>6. cuts' = 0 => Accounts(qcnt', Inserted', Removed', qSize', GrowDue', len', LinkDue', q')
        BY <3>2, <3>4, <4>2, <4>3, <4>5 DEF NoneDue
      <4> QED
        BY <4>6 DEF AccountsInv
    <3>5. CASE fn \notin Inserts /\ fn # "new"
      <4>1. qcnt' = qcnt /\ q' = q
        BY <3>1, <3>5 DEF KeepEffect
      <4>2. Inserted = 0 /\ Inserted' = 0
        BY <3>2, <3>5 DEF Inserted
      <4>3. Removed' = Removed
        <5>1. CASE fn = "rhq"
          <6>1. pc' = "cancel"
            BY <3>1, <5>1 DEF KeepEffect, Inserts
          <6> QED
            BY <3>2, <5>1, <6>1 DEF Removed, Removes
        <5>2. CASE fn # "rhq"
          <6>1. fn \notin Removes
            BY <3>2, <5>2 DEF Removes
          <6> QED
            BY <3>2, <5>2, <6>1 DEF Removed
        <5> QED
          BY <5>1, <5>2
      <4> QED
        BY <1>1, <3>2, <4>1, <4>2, <4>3 DEF NoneDue
    <3> QED
      BY <3>3, <3>4, <3>5
  <2> QED
    BY <1>9, <2>1, <2>2 DEF AfterCall<1>10. CASE After
  <2>1. AfterEffect
    BY <1>10, AfterSteps
  <2>2. pc = "after" /\ status = "running" /\ pc' \in {"setup", "return"} /\ cuts' = cuts /\ rval' = rval
    BY <2>1 DEF AfterEffect, Maybe
  <2>3. Inserted' = 0 /\ Removed' = 0 /\ LinkDue' = 0 /\ GrowDue' = 0 /\ Inserted = 0 /\ LinkDue = 0 /\ GrowDue = 0
    BY <2>2, NothingToCount DEF NoneDue
  <2>4. ASSUME cuts' = 0 => Accounts(qcnt', 0, 0, qSize', 0, len', 0, q') PROVE AccountsInv'
    <3>1. cuts' = 0 => Accounts(qcnt', Inserted', Removed', qSize', GrowDue', len', LinkDue', q')
      BY <2>3, <2>4
    <3> QED
      BY <3>1 DEF AccountsInv
  <2>5. CASE fn = "free"
    <3>1. qcnt' = 0 /\ qSize' = 0 /\ len' = 0 /\ q' = FALSE
      BY <2>1, <2>5 DEF AfterEffect
    <3>2. Accounts(0, 0, 0, 0, 0, 0, 0, FALSE)
      BY <1>0 DEF Accounts
    <3> QED
      BY <2>4, <3>1, <3>2
  <2>6. CASE fn = "new"
    <3>1. qcnt' = 0 /\ UNCHANGED <<qSize, len, q>>
      BY <2>1, <2>6 DEF AfterEffect
    <3>2. len = 0 /\ qSize = 0
      <4>1. Depth = 1
        BY <2>2, <2>6 DEF StackInv, Frees
      <4> QED
        BY <2>2, <2>6, <4>1 DEF EmptyInv
    <3>3. Accounts(0, 0, 0, 0, 0, 0, 0, q)
      BY <1>0 DEF Accounts
    <3> QED
      BY <2>4, <3>1, <3>2, <3>3
  <2>7. CASE fn = "rhq"
    <3>1. qcnt' = (qcnt - One(rval)) % Modulus /\ UNCHANGED <<qSize, len, q>>
      BY <2>1, <2>7 DEF AfterEffect, One
    <3>2. Removed = One(rval)
      BY <2>2, <2>7 DEF Removed
    <3>3. cuts = 0 => Accounts(qcnt, 0, One(rval), qSize, 0, len, 0, q)
      BY <1>a, <2>2, <2>3, <3>2
    <3>4. cuts = 0 => (qcnt - One(rval)) % Modulus = len /\ (q => qSize = len) /\ len <= MaxLen
      <4>1. One(rval) \in Int
        BY DEF One
      <4>2. cuts = 0 => qcnt - One(rval) = len /\ (q => qSize = len) /\ len <= MaxLen
        BY ONLY <1>0, <3>3, <4>1 DEF Accounts
      <4> QED
        BY <1>0, <4>2
    <3>5. cuts = 0 => Accounts(len, 0, 0, qSize, 0, len, 0, q)
      BY <1>0, <3>4 DEF Accounts
    <3> QED
      BY <2>2, <2>4, <3>1, <3>4, <3>5
  <2>8. CASE fn \notin {"free", "new", "rhq"}
    <3>1. UNCHANGED <<qcnt, qSize, len, q>>
      BY <2>1, <2>8 DEF AfterEffect
    <3>2. Removed = 0
      BY <2>2, <2>8, NothingToCount
    <3> QED
      BY <1>1, <2>2, <2>3, <3>1, <3>2
  <2> QED
    BY <2>5, <2>6, <2>7, <2>8
<1>11. CASE Return
  <2>1. ReturnEffect
    BY <1>11, ReturnSteps
  <2>2. /\ status = "running" /\ UNCHANGED <<cuts, qcnt, qSize, len, q>> /\ pc = "return"
        /\ pc' \in {"setup", "return", "check", "idle"}
    BY <2>1 DEF ReturnEffect
  <2> QED
    BY <1>2, <2>2
<1>12. CASE RemoveHeadNoBuffer
  BY <1>12, <1>2 DEF RemoveHeadNoBuffer, queueVars
<1>13. CASE MallocFails
  <2>1. FailEffect
    BY <1>13, FailSteps
  <2>2. /\ pc = "call" /\ pc' = "call" /\ status = "running" /\ UNCHANGED <<cuts, qcnt, qSize, len, q>> /\ fn' = fn
        /\ rval /\ ~rval' /\ LinkDue' = 0 /\ GrowDue' = 0 /\ (fn = "new" \/ fn \in Inserts)
    BY <2>1 DEF FailEffect
  <2>3. Removed = 0 /\ Removed' = 0
    BY <2>2 DEF Removed, Removes, Inserts
  <2>4. CASE fn = "new"
    <3>1. Inserted = 0 /\ Inserted' = 0 /\ LinkDue = 0 /\ GrowDue = 0
      BY <2>2, <2>4 DEF Inserted, LinkDue, GrowDue, Inserts, Removes
    <3> QED
      BY <1>1, <2>2, <2>3, <3>1
  <2>5. CASE fn \in Inserts
    <3>1. Inserted = 1 /\ Inserted' = 0 /\ LinkDue = 1 /\ GrowDue = 1
      <4>1. fn # "new"
        BY <2>5 DEF Inserts
      <4> QED
        BY <2>1, <2>2, <2>5, <4>1 DEF FailEffect, Inserted, One
    <3>2. cuts = 0 => Accounts(qcnt, 1, 0, qSize, 1, len, 1, q)
      BY <1>a, <2>2, <2>3, <3>1
    <3>3. cuts = 0 => Accounts(qcnt, 0, 0, qSize, 0, len, 0, q)
      BY <1>0, <3>2 DEF Accounts
    <3>4. cuts' = 0 => Accounts(qcnt', Inserted', Removed', qSize', GrowDue', len', LinkDue', q')
      BY <2>2, <2>3, <3>1, <3>3
    <3> QED
      BY <3>4 DEF AccountsInv
  <2> QED
    BY <2>2, <2>4, <2>5
<1>14. CASE HeapStep
  <2>1. HeapEffect
    BY <1>14, HeapSteps
  <2>2. status = "running" /\ UNCHANGED <<cuts, qcnt, qSize, len, q, pc, rval>> /\ fn' = fn
        /\ LinkDue' = LinkDue /\ GrowDue' = GrowDue
    BY <2>1 DEF HeapEffect
  <2>3. Inserted' = Inserted /\ Removed' = Removed
    BY <2>2 DEF Inserted, Removed
  <2> QED
    BY <1>1, <2>2, <2>3
<1>15. CASE ListStep
  <2>1. ListEffect
    BY <1>15, ListSteps
  <2>2. pc = "call" /\ status = "running" /\ UNCHANGED <<cuts, qcnt, q, pc, rval>> /\ fn' = fn
    BY <2>1 DEF ListEffect
  <2>3. Inserted' = Inserted /\ Removed' = Removed /\ Inserted \in Int /\ Removed \in Int
    BY <2>2 DEF Inserted, Removed, One
  <2>4. LinkDue \in Int /\ GrowDue \in Int
    BY <2>2, DueBounds
  <2>5. cuts = 0 => \A n \in Nat, s \in Int : n <= MaxLen =>
          Accounts(qcnt, Inserted, Removed, s, qSize + GrowDue - s, n, len + LinkDue - n, q)
    BY <1>a, <1>0, <2>2, <2>3, <2>4 DEF Accounts
  <2>6. cuts = 0 => len' \in Nat /\ len' <= MaxLen
    <3>1. cuts = 0 => len <= MaxLen
      BY <1>a, <2>2 DEF Accounts
    <3>2. fn \in Inserts /\ LinkDue = 1 /\ cuts = 0 => len + 1 <= MaxLen
      <4>1. fn \in Inserts /\ cuts = 0 => len + LinkDue + (reps - rep - 1) <= MaxLen + 0 /\ rep < reps
        BY <2>2 DEF LenInv, LoopInv, CutsInv, Extra, Repeats
      <4> QED
        BY <1>0, <4>1
    <3>3. /\ cuts = 0 => len \in Nat /\ len <= MaxLen
          /\ fn \in Inserts /\ LinkDue = 1 /\ cuts = 0 => len + 1 \in Nat /\ len + 1 <= MaxLen
          /\ len > 0 /\ cuts = 0 => len - 1 \in Nat /\ len - 1 <= MaxLen
      BY <1>0, <3>1, <3>2
    <3>4. len' = len \/ (len' = len + 1 /\ fn \in Inserts /\ LinkDue = 1) \/ (len' = len - 1 /\ len > 0)
      BY <2>1 DEF ListEffect
    <3> QED
      BY ONLY <3>3, <3>4, Zenon
  <2>7. qSize' \in Int
    <3>1. qSize' = qSize \/ qSize' = qSize + 1 \/ qSize' = qSize - 1
      BY <1>15 DEF ListStep
    <3> QED
      BY <1>0, <3>1
  <2>8. GrowDue' = qSize + GrowDue - qSize' /\ LinkDue' = len + LinkDue - len'
    BY <2>1 DEF ListEffect
  <2>9. cuts' = 0 => Accounts(qcnt', Inserted', Removed', qSize', GrowDue', len', LinkDue', q')
    BY ONLY <2>2, <2>3, <2>5, <2>6, <2>7, <2>8, Zenon
  <2> QED
    BY <2>9 DEF AccountsInv
<1>16. CASE sigalrmhandler
  <2>1. cuts' = cuts + 1
    BY <1>16, AlarmJumps
  <2>2. cuts + 1 # 0
    BY DEF CutsInv
  <2> QED
    BY <2>1, <2>2 DEF AccountsInv
<1>17. CASE UNCHANGED vars
  <2>1. UNCHANGED <<status, cuts, qcnt, qSize, len, q, pc, stack, rval, todo>>
    BY <1>17 DEF vars, queueVars, callVars, sessionVars
  <2> QED
    BY <2>1 DEF AccountsInv, Accounts, Inserted, Removed, LinkDue, GrowDue, Left, fn
<1> QED
  BY <1>3, <1>4, <1>5, <1>6, <1>7, <1>8, <1>9, <1>10, <1>11, <1>12, <1>13, <1>14, <1>15, <1>16, <1>17
  DEF Next, TesterStep, QueueStep
-----------------------------------------------------------------------------
(* Types *)

Flags ==
  /\ torn \in BOOLEAN /\ noallocate \in BOOLEAN /\ cautious \in BOOLEAN /\ errorOccurred \in BOOLEAN
  /\ jmpReady \in BOOLEAN /\ timeLimited \in BOOLEAN /\ alarm \in BOOLEAN
  /\ q \in BOOLEAN /\ broken \in BOOLEAN /\ ok \in BOOLEAN /\ rval \in BOOLEAN /\ cut \in BOOLEAN
  /\ noBuffer \in BOOLEAN

Labels ==
  /\ pc \in {"idle", "setup", "arm", "limit", "region", "call", "check", "cancel", "clear", "after", "return"}
  /\ lastCall \in {"none", "queue", "other"}
  /\ status \in {"running", "finished", "aborted", "exited", "lost"}

Counters ==
  /\ reps \in 1 .. MaxReps /\ rep \in 0 .. MaxReps /\ qcnt \in 0 .. (Modulus - 1)
  /\ failCount \in 0 .. FailLimit /\ verblevel \in VerbLevels

Lengths == len \in 0 .. (MaxLen + MaxReps) /\ qSize \in Int

Blocks == allocated \in Nat /\ allocatedCount \in Nat

\* TypeOK in parts.
LEMMA TypeParts ==
  /\ TypeOK => Flags /\ Labels /\ Counters /\ Lengths /\ Blocks
  /\ StackInv /\ Flags /\ Labels /\ Counters /\ Lengths /\ Blocks => TypeOK
<1>1. TypeOK => Flags /\ Labels /\ Counters /\ Lengths /\ Blocks
  BY DEF TypeOK, HarnessTypeOK, Flags, Labels, Counters, Lengths, Blocks
<1>2. ASSUME StackInv, Flags, Labels, Counters, Lengths, Blocks PROVE TypeOK
  <2>1. Range(stack) \subseteq Commands /\ Len(stack) <= 3
    <3>1. \A i \in DOMAIN stack : stack[i] \in Commands
      BY <1>2 DEF StackInv
    <3>2. Range(stack) \subseteq Commands
      BY <3>1 DEF Range
    <3>3. Len(stack) <= 3
      <4>1. Len(stack) \in 0 .. 2
        BY <1>2 DEF StackInv, Depth
      <4>2. \A d \in 0 .. 2 : d <= 3
        OBVIOUS
      <4> QED
        BY ONLY <4>1, <4>2, Zenon
    <3> QED
      BY <3>2, <3>3
  <2>2. HarnessTypeOK
    BY <1>2 DEF HarnessTypeOK, Flags, Blocks
  <2> QED
    BY <1>2, <2>1, <2>2 DEF TypeOK, Flags, Labels, Counters, Lengths
<1> QED
  BY <1>1, <1>2

\* The flags.
LEMMA NextFlags == ASSUME Flags, [Next]_vars PROVE Flags'
<1> USE DEF Flags, heapVars, modeVars, jumpVars, queueVars, callVars, sessionVars
<1>1. ASSUME NEW c \in Commands, NEW n \in 1..MaxReps, Start(c, n) PROVE Flags'
  BY <1>1 DEF Start, do_new, do_show, Enter, error_check
<1>2. CASE exception_setup
  <2>1. UNCHANGED <<torn, noallocate, cautious, errorOccurred, q, broken, ok, rval, cut, noBuffer>>
    BY <1>2 DEF exception_setup
  <2>2. jmpReady' \in BOOLEAN /\ timeLimited' \in BOOLEAN /\ alarm' \in BOOLEAN
    BY <1>2 DEF exception_setup, SetReady, StartAlarm, SetLimited
  <2> QED
    BY <2>1, <2>2
<1>3. CASE exception_cancel
  <2>1. UNCHANGED <<torn, noallocate, cautious, errorOccurred, q, broken, ok, rval, cut, noBuffer>>
    BY <1>3 DEF exception_cancel
  <2>2. jmpReady' \in BOOLEAN /\ timeLimited' \in BOOLEAN /\ alarm' \in BOOLEAN
    BY <1>3 DEF exception_cancel, StopAlarm, ClearReady
  <2> QED
    BY <2>1, <2>2
<1>4. CASE Call
  BY <1>4 DEF Call
<1>5. CASE LoopEnds \/ RemoveHeadNoBuffer
  <2>1. UNCHANGED <<torn, noallocate, cautious, errorOccurred, jmpReady, timeLimited, alarm, q, broken,
                    ok, rval, cut>>
    BY <1>5 DEF LoopEnds, RemoveHeadNoBuffer
  <2>2. noBuffer' \in BOOLEAN
    <3>1. LoopEnds => noBuffer' = noBuffer
      BY DEF LoopEnds
    <3>2. RemoveHeadNoBuffer => noBuffer' = TRUE
      BY DEF RemoveHeadNoBuffer
    <3> QED
      BY <1>5, <3>1, <3>2
  <2> QED
    BY <2>1, <2>2
<1>6. CASE AfterCall
  <2>1. CASE CountInsertion
    BY <1>6, <2>1 DEF AfterCall, CountInsertion
  <2>2. CASE CountRemoval
    <3>1. errorOccurred' \in BOOLEAN /\ noallocate' \in BOOLEAN /\ cautious' \in BOOLEAN
      BY <2>2 DEF CountRemoval, Enter, error_check
    <3>2. ok' \in BOOLEAN
      <4>1. ok' \in IF rval THEN {TRUE, reps > 1} ELSE {FALSE}
        BY <2>2 DEF CountRemoval
      <4>2. (reps > 1) \in BOOLEAN
        BY ONLY TRUE
      <4> QED
        BY ONLY <4>1, <4>2, Zenon
    <3> QED
      BY <1>6, <2>2, <3>1, <3>2 DEF AfterCall, CountRemoval
  <2>3. CASE KeepValue
    BY <1>6, <2>3 DEF AfterCall, KeepValue
  <2> QED
    BY <1>6, <2>1, <2>2, <2>3 DEF AfterCall
<1>7. CASE Check
  <2>1. UNCHANGED <<torn, noallocate, cautious, jmpReady, timeLimited, alarm, q, broken, rval, cut, noBuffer>>
    BY <1>7 DEF Check
  <2>2. ok' \in BOOLEAN /\ errorOccurred' \in BOOLEAN
    BY <1>7 DEF Check
  <2> QED
    BY <2>1, <2>2
<1>8. CASE ShowLoop
  <2>1. ok' \in BOOLEAN /\ errorOccurred' \in BOOLEAN
    BY <1>8 DEF ShowLoop
  <2> QED
    BY <1>8, <2>1 DEF ShowLoop
<1>9. CASE After
  <2>1. UNCHANGED <<torn, jmpReady, timeLimited, alarm, rval, cut, noBuffer>>
    BY <1>9 DEF After
  <2>2. ASSUME ShowAndReturn(q)
        PROVE  errorOccurred' \in BOOLEAN /\ noallocate' \in BOOLEAN /\ cautious' \in BOOLEAN
    BY <2>2 DEF ShowAndReturn, Enter, error_check
  <2>3. CASE AfterFree
    BY <2>1, <2>3 DEF AfterFree
  <2>4. CASE AfterRelink
    BY <2>1, <2>4 DEF AfterRelink
  <2>5. CASE AfterQuiet
    <3>1. ok' \in BOOLEAN
      BY <2>5 DEF AfterQuiet
    <3> QED
      BY <2>1, <2>2, <2>5, <3>1 DEF AfterQuiet
  <2>6. CASE AfterSize
    <3>1. ok' \in BOOLEAN
      BY <2>6 DEF AfterSize
    <3> QED
      BY <2>1, <2>2, <2>6, <3>1 DEF AfterSize
  <2>7. CASE AfterRest
    BY <2>1, <2>2, <2>7 DEF AfterRest
  <2> QED
    BY <1>9, <2>3, <2>4, <2>5, <2>6, <2>7 DEF After
<1>10. CASE Return
  <2>1. UNCHANGED <<torn, jmpReady, timeLimited, alarm, q, broken, cut, noBuffer>>
    BY <1>10 DEF Return
  <2>2. CASE ReturnToCommand
    BY <2>1, <2>2 DEF ReturnToCommand
  <2>3. CASE ReturnToNew
    <3>1. Value \in BOOLEAN
      BY DEF Value, NoBlocks
    <3> QED
      BY <2>1, <2>3, <3>1 DEF ReturnToNew, Enter, error_check
  <2>4. CASE ReturnToConsole
    BY <2>1, <2>4 DEF ReturnToConsole
  <2> QED
    BY <1>10, <2>2, <2>3, <2>4 DEF Return
<1>11. CASE QueueStep
  <2>1. UNCHANGED <<noallocate, cautious, errorOccurred, jmpReady, timeLimited, alarm, q, ok, cut, noBuffer>>
    BY <1>11 DEF QueueStep, MallocFails, HeapStep, ListStep
  <2>2. torn' \in BOOLEAN
    BY <1>11 DEF QueueStep, MallocFails, HeapStep, ListStep, Store
  <2>3. broken' \in BOOLEAN /\ rval' \in BOOLEAN
    BY <1>11 DEF QueueStep, MallocFails, HeapStep, ListStep
  <2> QED
    BY <2>1, <2>2, <2>3
<1>12. CASE sigalrmhandler
  <2>1. UNCHANGED <<noallocate, cautious, q, noBuffer>> /\ cut' = TRUE
    BY <1>12 DEF sigalrmhandler
  <2>2. CASE JumpBack /\ Lands /\ CutShort
    <3>1. torn' \in BOOLEAN /\ broken' \in BOOLEAN
      <4>1. HalfLinked(Head(todo)) \in BOOLEAN
        BY DEF HalfLinked
      <4> QED
        BY <2>2, <4>1 DEF CutShort
    <3>2. ok' \in BOOLEAN /\ rval' \in BOOLEAN
      BY <2>2 DEF Lands
    <3> QED
      BY <2>1, <2>2, <3>1, <3>2 DEF JumpBack
  <2>3. CASE alarm' = FALSE /\ UNCHANGED <<errorOccurred, jmpReady, timeLimited, torn, len, broken,
                                           pc, rep, ok, rval, todo>>
    BY <2>1, <2>3
  <2> QED
    BY <1>12, <2>2, <2>3 DEF sigalrmhandler
<1>13. CASE UNCHANGED vars
  BY <1>13 DEF vars
<1> QED
  BY <1>1, <1>2, <1>3, <1>4, <1>5, <1>6, <1>7, <1>8, <1>9, <1>10, <1>11, <1>12, <1>13 DEF Next, TesterStep

\* Where the command is, what it called, and the state of the process.
LEMMA NextLabels ==
  ASSUME TypeOK, StackInv, ControlInv, JumpInv, LandInv, TodoInv, Labels, [Next]_vars PROVE Labels'
<1> USE Typed DEF Labels, Goto
<1>1. ASSUME NEW c \in Commands, NEW n \in 1..MaxReps, Start(c, n) PROVE Labels'
  <2>1. StartEffect(c, n)
    BY <1>1, StartSteps
  <2> QED
    BY <2>1 DEF StartEffect
<1>2. CASE exception_setup \/ exception_cancel
  BY <1>2 DEF exception_setup, exception_cancel, sessionVars
<1>3. CASE Call \/ LoopEnds \/ RemoveHeadNoBuffer \/ Check \/ ShowLoop
  BY <1>3 DEF Call, LoopEnds, RemoveHeadNoBuffer, Check, ShowLoop, sessionVars
<1>4. CASE AfterCall
  <2>1. CASE CountRemoval
    <3>1. RemovalEffect
      BY <1>4, <2>1, RemovalSteps
    <3> QED
      BY <3>1 DEF RemovalEffect, Maybe
  <2>2. CASE CountInsertion \/ KeepValue
    <3>1. KeepEffect
      BY <1>4, <2>2, KeepSteps
    <3> QED
      BY <3>1 DEF KeepEffect
  <2> QED
    BY <1>4, <2>1, <2>2 DEF AfterCall
<1>5. CASE After
  <2>1. AfterEffect
    BY <1>5, AfterSteps
  <2> QED
    BY <2>1 DEF AfterEffect, Maybe
<1>6. CASE Return
  <2>1. ReturnEffect
    BY <1>6, ReturnSteps
  <2> QED
    BY <2>1 DEF ReturnEffect
<1>7. CASE MallocFails \/ ListStep
  BY <1>7 DEF MallocFails, ListStep, sessionVars
<1>8. CASE HeapStep
  BY <1>8 DEF HeapStep
<1>9. CASE sigalrmhandler
  <2>1. lastCall' = lastCall
    BY <1>9, AlarmJumps
  <2>2. CASE Jumped
    BY <1>9, <2>1, <2>2, AlarmJumps DEF Jumped
  <2>3. CASE ~Jumped
    BY <1>9, <2>1, <2>3, AlarmJumps
  <2> QED
    BY <2>2, <2>3
<1>10. CASE UNCHANGED vars
  BY <1>10 DEF vars, callVars, sessionVars
<1> QED
  BY <1>1, <1>2, <1>3, <1>4, <1>5, <1>6, <1>7, <1>8, <1>9, <1>10 DEF Next, TesterStep, QueueStep

\* The counters keep their bounds: a repetition is counted only when one is left.
LEMMA NextCounters ==
  ASSUME TypeOK, StackInv, ControlInv, LoopInv, JumpInv, LandInv, TodoInv, Counters, [Next]_vars PROVE Counters'
<1> USE Typed
<1>0. /\ MaxReps \in Nat \ {0} /\ Modulus \in Nat \ {0} /\ FailLimit \in Nat \ {0}
      /\ reps \in 1 .. MaxReps /\ rep \in 0 .. MaxReps /\ qcnt \in 0 .. (Modulus - 1)
      /\ failCount \in 0 .. FailLimit /\ verblevel \in VerbLevels /\ rval \in BOOLEAN
  BY QTestAssumption DEF Counters, TypeOK
<1>1. /\ \A d \in {0, 1} : (qcnt + d) % Modulus \in 0 .. (Modulus - 1) /\ (qcnt - d) % Modulus \in 0 .. (Modulus - 1)
      /\ 0 \in 0 .. (Modulus - 1)
  BY <1>0
<1>2. ASSUME CountFailure PROVE failCount' \in 0 .. FailLimit
  <2>1. failCount # FailLimit => failCount + 1 \in 0 .. FailLimit
    BY <1>0
  <2>2. failCount' = failCount \/ (failCount # FailLimit /\ failCount' = failCount + 1)
    BY <1>2 DEF CountFailure
  <2> QED
    BY ONLY <1>0, <2>1, <2>2, Zenon
<1>3. (IF rval THEN 1 ELSE 0) \in {0, 1}
  OBVIOUS
<1>4. ASSUME UNCHANGED <<reps, rep, qcnt, failCount, verblevel>> PROVE Counters'
  BY <1>0, <1>4, Zenon DEF Counters
<1>5. ASSUME NEW c \in Commands, NEW n \in 1..MaxReps, Start(c, n) PROVE Counters'
  <2>1. reps' = n /\ UNCHANGED <<rep, qcnt, failCount, verblevel>>
    BY <1>5 DEF Start
  <2> QED
    BY <1>0, <2>1, Zenon DEF Counters
<1>6. CASE exception_setup \/ exception_cancel \/ Call \/ LoopEnds \/ ShowLoop \/ QueueStep
  BY <1>6, <1>4 DEF exception_setup, exception_cancel, Call, LoopEnds, ShowLoop, QueueStep, MallocFails, HeapStep,
     ListStep, sessionVars
<1>7. CASE RemoveHeadNoBuffer
  BY <1>7, <1>4 DEF RemoveHeadNoBuffer
<1>8. CASE AfterCall
  <2>1. UNCHANGED <<reps, rep, verblevel>>
    BY <1>8 DEF AfterCall
  <2>2. CASE CountInsertion
    <3>1. qcnt' \in 0 .. (Modulus - 1)
      BY <1>1, <1>3, <2>2 DEF CountInsertion
    <3>2. failCount' \in 0 .. FailLimit
      BY <1>2, <2>2 DEF CountInsertion
    <3> QED
      BY <1>0, <2>1, <3>1, <3>2, Zenon DEF Counters
  <2>3. CASE CountRemoval
    <3>1. qcnt' \in 0 .. (Modulus - 1)
      BY <1>1, <1>3, <2>3 DEF CountRemoval
    <3>2. failCount' \in 0 .. FailLimit
      BY <1>2, <2>3 DEF CountRemoval
    <3> QED
      BY <1>0, <2>1, <3>1, <3>2, Zenon DEF Counters
  <2>4. CASE KeepValue
    BY <1>4, <2>1, <2>4 DEF KeepValue
  <2> QED
    BY <1>8, <2>2, <2>3, <2>4 DEF AfterCall
<1>9. CASE Check
  <2>1. UNCHANGED <<reps, qcnt, failCount, verblevel>> /\ rep' = rep + 1
    BY <1>9 DEF Check, sessionVars
  <2>2. rep + 1 \in 0 .. MaxReps
    <3>1. rep < reps
      BY <1>9 DEF Check, Goto, LandInv, LoopInv
    <3> QED
      BY <1>0, <3>1
  <2> QED
    BY <1>0, <2>1, <2>2, Zenon DEF Counters
<1>10. CASE After
  <2>1. AfterEffect
    BY <1>10, AfterSteps
  <2>2. UNCHANGED <<reps, rep, verblevel>>
    BY <2>1 DEF AfterEffect
  <2>3. qcnt' \in 0 .. (Modulus - 1)
    <3>1. qcnt' = 0 \/ qcnt' = qcnt \/ qcnt' = (qcnt - IF rval THEN 1 ELSE 0) % Modulus
      BY <2>1 DEF AfterEffect
    <3> QED
      BY ONLY <1>0, <1>1, <1>3, <3>1, Zenon
  <2>4. failCount' \in 0 .. FailLimit
    <3>1. failCount' = failCount \/ CountFailure
      BY <2>1 DEF AfterEffect
    <3>2. CASE failCount' = failCount
      BY <1>0, <3>2, Zenon
    <3> QED
      BY <1>2, <3>1, <3>2
  <2> QED
    BY <1>0, <2>2, <2>3, <2>4, Zenon DEF Counters
<1>11. CASE Return
  <2>1. ReturnEffect
    BY <1>11, ReturnSteps
  <2>2. UNCHANGED <<qcnt, failCount, verblevel>> /\ (UNCHANGED <<reps, rep>> \/ (reps' = 1 /\ rep' = 0))
    BY <2>1 DEF ReturnEffect
  <2>3. 1 \in 1 .. MaxReps /\ 0 \in 0 .. MaxReps
    BY <1>0
  <2>4. reps' \in 1 .. MaxReps /\ rep' \in 0 .. MaxReps
    BY ONLY <1>0, <2>2, <2>3, Zenon
  <2> QED
    BY <1>0, <2>2, <2>4, Zenon DEF Counters
<1>12. CASE sigalrmhandler
  <2>1. UNCHANGED <<reps, qcnt, verblevel, failCount>> /\ (rep' = rep \/ rep' \in 0 .. reps)
    BY <1>12, AlarmJumps DEF Jumped
  <2>2. \A r \in 0 .. reps : r \in 0 .. MaxReps
    BY <1>0
  <2>3. rep' \in 0 .. MaxReps
    BY ONLY <1>0, <2>1, <2>2, Zenon
  <2> QED
    BY <1>0, <2>1, <2>3, Zenon DEF Counters
<1>13. CASE UNCHANGED vars
  BY <1>13, <1>4 DEF vars, callVars, sessionVars
<1> QED
  BY <1>5, <1>6, <1>7, <1>8, <1>9, <1>10, <1>11, <1>12, <1>13 DEF Next, TesterStep

\* The queue grows by no more than the repetitions of a command, and once more
\* by as many when a time-out starts them over.
LEMMA NextLengths ==
  ASSUME TypeOK, StackInv, ControlInv, LoopInv, JumpInv, LandInv, TodoInv, LenInv, Lengths, [Next]_vars
  PROVE  Lengths'
<1> USE Typed DEF Goto
<1>0. /\ MaxReps \in Nat /\ MaxLen \in Nat /\ len \in 0 .. (MaxLen + MaxReps) /\ qSize \in Int
      /\ reps \in 1 .. MaxReps /\ rep \in Nat
  BY QTestAssumption DEF TypeOK
<1>1. ASSUME UNCHANGED <<len, qSize>> PROVE Lengths'
  BY <1>0, <1>1, Zenon DEF Lengths
<1>2. ASSUME NEW c \in Commands, NEW n \in 1..MaxReps, Start(c, n) PROVE Lengths'
  BY <1>2, <1>1 DEF Start, queueVars
<1>3. CASE exception_setup \/ exception_cancel \/ Call \/ LoopEnds \/ ShowLoop \/ Check \/ AfterCall \/ Return
  BY <1>3, <1>1 DEF exception_setup, exception_cancel, Call, LoopEnds, ShowLoop, Check, AfterCall, Return, queueVars
<1>4. CASE RemoveHeadNoBuffer \/ MallocFails \/ HeapStep
  BY <1>4, <1>1 DEF RemoveHeadNoBuffer, MallocFails, HeapStep, queueVars
<1>5. CASE After
  <2>1. AfterEffect
    BY <1>5, AfterSteps
  <2>2. UNCHANGED <<len, qSize>> \/ (len' = 0 /\ qSize' = 0)
    BY <2>1 DEF AfterEffect
  <2>3. 0 \in 0 .. (MaxLen + MaxReps) /\ 0 \in Int
    BY <1>0
  <2> QED
    BY <1>0, <2>2, <2>3, Zenon DEF Lengths
<1>6. CASE ListStep
  <2>1. ListEffect
    BY <1>6, ListSteps
  <2>2. /\ \/ len' = len
           \/ len' = len + 1 /\ fn \in Inserts /\ LinkDue = 1
           \/ len' = len - 1 /\ len > 0
        /\ pc = "call" /\ status = "running"
    BY <2>1 DEF ListEffect
  <2>3. fn \in Inserts /\ LinkDue = 1 => len + 1 \in 0 .. (MaxLen + MaxReps)
    <3>1. fn \in Inserts => len + LinkDue + (reps - rep - 1) <= MaxLen + Extra /\ rep < reps
      BY <2>2 DEF LenInv, LoopInv, Repeats
    <3>2. Extra \in Nat /\ Extra <= reps
      BY <1>0 DEF Extra
    <3> QED
      BY ONLY <1>0, <3>1, <3>2
  <2>4. len > 0 => len - 1 \in 0 .. (MaxLen + MaxReps)
    BY <1>0
  <2>5. len' \in 0 .. (MaxLen + MaxReps)
    BY ONLY <1>0, <2>2, <2>3, <2>4, Zenon
  <2>6. qSize' \in Int
    <3>1. qSize' = qSize \/ qSize' = qSize + 1 \/ qSize' = qSize - 1
      BY <1>6 DEF ListStep
    <3> QED
      BY <1>0, <3>1
  <2> QED
    BY <2>5, <2>6, Zenon DEF Lengths
<1>7. CASE sigalrmhandler
  <2>1. qSize' = qSize /\ (len' = len \/ len' \in 1 .. len)
    <3>1. qSize' = qSize /\ (len' = len \/ CutShort)
      BY <1>7, AlarmJumps
    <3> QED
      BY <3>1 DEF CutShort
  <2>2. \A m \in 1 .. len : m \in 0 .. (MaxLen + MaxReps)
    BY <1>0
  <2> QED
    BY <1>0, <2>1, <2>2, Zenon DEF Lengths
<1>8. CASE UNCHANGED vars
  BY <1>8, <1>1 DEF vars, queueVars
<1> QED
  BY <1>2, <1>3, <1>4, <1>5, <1>6, <1>7, <1>8 DEF Next, TesterStep, QueueStep

\* No block is taken off the list, or off its count, when none is there: this is
\* what the accounts of the blocks are kept for.
LEMMA NextBlocks ==
  ASSUME TypeOK, StackInv, ControlInv, JumpInv, LandInv, TodoInv, CutsInv, BlocksInv, Blocks, [Next]_vars
  PROVE  Blocks'
<1> USE Typed DEF Goto
<1>1. ASSUME UNCHANGED <<allocated, allocatedCount>> PROVE Blocks'
  BY <1>1 DEF Blocks
<1>2. ASSUME NEW c \in Commands, NEW n \in 1..MaxReps, Start(c, n) PROVE Blocks'
  BY <1>2, <1>1 DEF Start, heapVars
<1>3. CASE exception_setup \/ exception_cancel \/ Call \/ LoopEnds \/ ShowLoop \/ Check \/ AfterCall \/ After \/ Return
  BY <1>3, <1>1 DEF exception_setup, exception_cancel, Call, LoopEnds, ShowLoop, Check, AfterCall, After,
     Return, heapVars
<1>4. CASE RemoveHeadNoBuffer \/ MallocFails \/ ListStep
  BY <1>4, <1>1 DEF RemoveHeadNoBuffer, MallocFails, ListStep, heapVars
<1>5. CASE HeapStep
  <2>1. /\ pc = "call" /\ status = "running" /\ todo # <<>> /\ Store(Head(todo))
    BY <1>5 DEF HeapStep, InQueueCode
  <2>2. NextStore /\ Left \in Nat /\ Left > 0
    BY <2>1, NextStoreIs
  <2>3. /\ {allocated, allocatedCount, Owned, cuts} \subseteq Nat
        /\ {CountDue, ListDue, LinkDue, Target} \subseteq Int
        /\ Agree(allocatedCount + CountDue, allocated + ListDue, Target, cuts)
    BY <2>1, BlockTypes DEF BlocksInv
  <2>4. fn \in Commands
    <3>1. Depth # 0 /\ Depth \in 0 .. 2
      BY <2>1 DEF StackInv
    <3> QED
      BY <3>1, FrameOf
  <2>5. Head(todo) \in {"next", "uncounted"} => Target >= 0
    <3>1. CASE fn \in Frees
      <4>1. Target = 0
        BY <2>1, <3>1 DEF Target, Closing, Frees
      <4> QED
        BY <4>1
    <3>2. CASE fn \in Removes
      <4>1. fn \notin Frees /\ fn # "new" /\ fn \notin Inserts
        BY <2>4, <3>2, KindsOfCommands DEF Kinds
      <4>2. Target = Owned + 2 * LinkDue
        BY <2>1, <4>1 DEF Target, Closing
      <4>3. Head(todo) \in {"next", "uncounted"} => LinkDue = 0
        <5>1. Head(todo) \in {"next", "uncounted"} => ~(Left > 7)
          BY <2>2, <3>2, <4>1 DEF NextStore, Removes
        <5>2. ~(Left > 7) => One(Left > 7) = 0
          BY DEF One
        <5> QED
          BY <2>1, <3>2, <4>1, <5>1, <5>2 DEF LinkDue
      <4> QED
        BY <2>3, <4>2, <4>3
    <3>3. CASE fn \in Inserts
      <4>1. fn \notin Frees /\ fn # "new" /\ fn \notin Removes
        BY <2>4, <3>3, KindsOfCommands DEF Kinds
      <4>2. Target = Owned + 2 * LinkDue
        BY <2>1, <4>1 DEF Target, Closing
      <4>3. LinkDue >= 0
        BY <2>1, <3>3, DueBounds
      <4> QED
        BY <2>3, <4>2, <4>3
    <3>4. CASE fn \notin Frees \cup Removes \cup Inserts
      BY <2>2, <3>4 DEF NextStore
    <3> QED
      BY <3>1, <3>2, <3>3, <3>4
  <2>6. Head(todo) = "next" => ListDue <= -1
    <3> SUFFICES ASSUME Head(todo) = "next" PROVE ListDue <= -1
      OBVIOUS
    <3>1. CASE fn \in Frees
      <4>1. Left % 3 = 0
        BY <2>2, <2>4, <3>1, KindsOfCommands DEF NextStore, Kinds
      <4>2. ListDue = -(Left \div 3)
        BY <2>1, <2>4, <3>1, KindsOfCommands DEF ListDue, Kinds
      <4>3. Left \div 3 >= 1
        BY <2>2, <4>1
      <4>4. Left \div 3 \in Int
        BY <2>2
      <4> QED
        BY ONLY <4>2, <4>3, <4>4
    <3>2. CASE fn \in Removes
      <4>1. Left \in {3, 6}
        BY <2>2, <2>4, <3>2, KindsOfCommands DEF NextStore, Kinds
      <4>2. ListDue = -(One(Left > 2) + One(Left > 5))
        BY <2>1, <2>4, <3>2, KindsOfCommands DEF ListDue, Kinds
      <4> QED
        BY <4>1, <4>2 DEF One
    <3>3. CASE fn \in Inserts
      <4>1. Left = 3 /\ ~rval
        BY <2>2, <2>4, <3>3, KindsOfCommands DEF NextStore, Kinds
      <4>2. ListDue = -One(Left > 2)
        BY <2>1, <2>4, <3>3, <4>1, KindsOfCommands DEF ListDue, Kinds
      <4> QED
        BY <4>1, <4>2 DEF One
    <3>4. CASE fn \notin Frees \cup Removes \cup Inserts
      BY <2>2, <3>4 DEF NextStore
    <3> QED
      BY <3>1, <3>2, <3>3, <3>4
  <2>7. Head(todo) = "uncounted" => CountDue <= -1
    <3> SUFFICES ASSUME Head(todo) = "uncounted" PROVE CountDue <= -1
      OBVIOUS
    <3>1. CASE fn \in Frees
      <4>1. CountDue = -((Left + 2) \div 3)
        BY <2>1, <2>4, <3>1, KindsOfCommands DEF CountDue, Kinds
      <4>2. (Left + 2) \div 3 >= 1 /\ (Left + 2) \div 3 \in Int
        BY <2>2
      <4> QED
        BY ONLY <4>1, <4>2
    <3>2. CASE fn \in Removes
      <4>1. Left \in {1, 4}
        BY <2>2, <2>4, <3>2, KindsOfCommands DEF NextStore, Kinds
      <4>2. CountDue = -(One(Left > 0) + One(Left > 3))
        BY <2>1, <2>4, <3>2, KindsOfCommands DEF CountDue, Kinds
      <4> QED
        BY <4>1, <4>2 DEF One
    <3>3. CASE fn \in Inserts
      <4>1. Left = 1 /\ ~rval
        BY <2>2, <2>4, <3>3, KindsOfCommands DEF NextStore, Kinds
      <4>2. CountDue = -One(Left > 0)
        BY <2>1, <2>4, <3>3, <4>1, KindsOfCommands DEF CountDue, Kinds
      <4> QED
        BY <4>1, <4>2 DEF One
    <3>4. CASE fn \notin Frees \cup Removes \cup Inserts
      BY <2>2, <3>4 DEF NextStore
    <3> QED
      BY <3>1, <3>2, <3>3, <3>4
  <2>8. /\ Head(todo) = "next" => allocated >= 1
        /\ Head(todo) = "uncounted" => allocatedCount >= 1
    BY <2>3, <2>5, <2>6, <2>7 DEF Agree
  <2>9. /\ \/ allocated' = allocated
           \/ allocated' = allocated + 1
           \/ Head(todo) = "next" /\ allocated' = allocated - 1
        /\ \/ allocatedCount' = allocatedCount
           \/ allocatedCount' = allocatedCount + 1
           \/ Head(todo) = "uncounted" /\ allocatedCount' = allocatedCount - 1
    BY <2>1 DEF Store
  <2>10. /\ allocated \in Nat /\ allocated + 1 \in Nat /\ (allocated >= 1 => allocated - 1 \in Nat)
         /\ allocatedCount \in Nat /\ allocatedCount + 1 \in Nat
         /\ (allocatedCount >= 1 => allocatedCount - 1 \in Nat)
    BY <2>3
  <2> QED
    BY ONLY <2>8, <2>9, <2>10, Zenon DEF Blocks
<1>6. CASE sigalrmhandler
  BY <1>6, <1>1 DEF sigalrmhandler
<1>7. CASE UNCHANGED vars
  BY <1>7, <1>1 DEF vars, heapVars
<1> QED
  BY <1>2, <1>3, <1>4, <1>5, <1>6, <1>7 DEF Next, TesterStep, QueueStep
-----------------------------------------------------------------------------
(* The invariant *)

\* The tester starts with no queue, no command and no mode.
LEMMA InitIInv == Init => IInv
<1> SUFFICES ASSUME Init PROVE IInv
  OBVIOUS
<1>1. /\ stack = <<>> /\ pc = "idle" /\ status = "running" /\ Depth = 0
      /\ q = FALSE /\ len = 0 /\ qSize = 0 /\ qcnt = 0 /\ cuts = 0 /\ cut = FALSE /\ rep = 0 /\ reps = 1
      /\ allocated = 0 /\ allocatedCount = 0 /\ noBuffer = FALSE /\ todo = <<>> /\ result = NoResult
      /\ noallocate = FALSE /\ cautious = TRUE /\ jmpReady = FALSE /\ timeLimited = FALSE /\ alarm = FALSE
  BY DEF Init, HarnessInit, Depth
<1>2. StackInv
  BY <1>1 DEF StackInv
<1>3. TypeOK
  <2>1. Flags /\ Labels /\ Blocks
    BY DEF Init, HarnessInit, Flags, Labels, Blocks
  <2>2. Counters /\ Lengths
    BY QTestAssumption DEF Init, Counters, Lengths
  <2> QED
    BY <1>2, <2>1, <2>2, TypeParts
<1>4. ControlInv /\ LoopInv /\ JumpInv /\ LandInv /\ TodoInv
  BY <1>1 DEF ControlInv, LoopInv, JumpInv, LandInv, TodoInv
<1>5. BlocksInv
  <2>1. Target = Owned /\ NoneDue
    BY <1>1, TargetIs DEF Closing
  <2>2. Owned = 0
    BY <1>1 DEF Owned
  <2> QED
    BY <1>1, <2>1, <2>2 DEF BlocksInv, Agree, NoneDue
<1>6. EmptyInv /\ LenInv /\ CutsInv /\ CutShows
  BY <1>1 DEF EmptyInv, LenInv, CutsInv, CutShows
<1>7. AccountsInv
  <2>1. Inserted = 0 /\ Removed = 0 /\ NoneDue
    BY <1>1, NothingToCount
  <2> QED
    BY <1>1, <2>1, QTestAssumption DEF AccountsInv, Accounts, NoneDue
<1>8. TimeoutFails /\ AlarmFindsRegion
  BY <1>1 DEF TimeoutFails, AlarmFindsRegion, NoResult
<1> QED
  BY <1>2, <1>3, <1>4, <1>5, <1>6, <1>7, <1>8 DEF IInv

\* Every step keeps the types.
LEMMA NextTypeOK == ASSUME IInv, [Next]_vars PROVE TypeOK'
<1>1. /\ TypeOK /\ StackInv /\ ControlInv /\ LoopInv /\ JumpInv /\ LandInv /\ TodoInv /\ LenInv /\ BlocksInv /\ CutsInv
      /\ Flags /\ Labels /\ Counters /\ Lengths /\ Blocks
  BY TypeParts DEF IInv
<1>2. StackInv'
  BY <1>1, NextStackInv
<1>3. Flags'
  BY <1>1, NextFlags
<1>4. Labels'
  BY <1>1, NextLabels
<1>5. Counters'
  BY <1>1, NextCounters
<1>6. Lengths'
  BY <1>1, NextLengths
<1>7. Blocks'
  BY <1>1, NextBlocks
<1>8. (StackInv /\ Flags /\ Labels /\ Counters /\ Lengths /\ Blocks => TypeOK)'
  BY TypeParts, PTL
<1> QED
  BY <1>2, <1>3, <1>4, <1>5, <1>6, <1>7, <1>8

\* Every step keeps the invariant.
LEMMA NextIInv == IInv /\ [Next]_vars => IInv'
<1> SUFFICES ASSUME IInv, [Next]_vars PROVE IInv'
  OBVIOUS
<1>1. /\ TypeOK /\ StackInv /\ ControlInv /\ LoopInv /\ JumpInv /\ LandInv /\ TodoInv
      /\ BlocksInv /\ EmptyInv /\ LenInv /\ AccountsInv /\ CutsInv /\ CutShows
      /\ TimeoutFails /\ AlarmFindsRegion
  BY DEF IInv
<1>2. TypeOK'
  BY NextTypeOK
<1>3. StackInv'
  BY <1>1, NextStackInv
<1>4. ControlInv'
  BY <1>1, NextControlInv
<1>5. LoopInv'
  BY <1>1, <1>2, NextLoopInv
<1>6. JumpInv'
  BY <1>1, NextJumpInv
<1>7. LandInv'
  BY <1>1, NextLandInv
<1>8. TodoInv'
  BY <1>1, NextTodoInv
<1>9. CutsInv'
  BY <1>1, NextCutsInv
<1>10. BlocksInv'
  BY <1>1, <1>9, NextBlocksInv
<1>11. EmptyInv'
  BY <1>1, NextEmptyInv
<1>12. LenInv'
  BY <1>1, <1>2, NextLenInv
<1>13. AccountsInv'
  BY <1>1, NextAccountsInv
<1>14. CutShows'
  BY <1>1, NextCutShows
<1>15. TimeoutFails'
  BY <1>1, NextTimeoutFails
<1>16. AlarmFindsRegion'
  BY <1>1, NextFindsRegion
<1> QED
  BY <1>2, <1>3, <1>4, <1>5, <1>6, <1>7, <1>8, <1>9, <1>10, <1>11, <1>12, <1>13, <1>14, <1>15, <1>16 DEF IInv

\* The inductive invariant holds at every point the alarm may strike.
THEOREM SpecIInv == Spec => []IInv
BY InitIInv, NextIInv, PTL DEF Spec

-----------------------------------------------------------------------------
(* The properties *)

\* The alarm always finds a region to jump out of: neither trigger_exception nor a
\* mode left on ends the tester, and no jump goes to a command that has returned.
THEOREM SpecTesterInv == Spec => []TesterInv
<1>1. IInv => TesterInv
  BY DEF IInv, TesterInv
<1> QED
  BY <1>1, SpecIInv, PTL

\* Every command leaves the modes and the exception state as it found them,
\* wherever the alarm cut it short.
THEOREM SpecModesReset == Spec => []ModesReset
<1>1. IInv => ModesReset
  BY DEF IInv, ModesReset, ControlInv, JumpInv
<1> QED
  BY <1>1, SpecIInv, PTL

\* Between commands the blocks, qcnt and q_size agree with the queue; the count
\* never falls below the blocks in use, whatever the time-outs left behind.
THEOREM SpecCountsAgree == Spec => []CountsAgree
<1>1. IInv => CountsAgree
  <2> SUFFICES ASSUME IInv, pc = "idle", status = "running"
               PROVE  /\ allocatedCount >= Owned /\ allocated >= allocatedCount - cuts
                      /\ cuts = 0 => /\ {allocated, allocatedCount} = {Owned}
                                     /\ qcnt = len
                                     /\ q => qSize = len
    BY DEF CountsAgree
  <2>1. Target = Owned /\ NoneDue /\ Inserted = 0 /\ Removed = 0
    BY TargetIs, NothingToCount DEF Closing
  <2>2. /\ allocated \in Nat /\ allocatedCount \in Nat /\ cuts \in Nat /\ Owned \in Nat
        /\ len \in Nat /\ qcnt \in Nat /\ qSize \in Int
    BY BlockTypes, QTestAssumption DEF IInv, TypeOK
  <2>3. Agree(allocatedCount, allocated, Owned, cuts)
    BY <2>1, <2>2 DEF IInv, BlocksInv, NoneDue
  <2>4. cuts = 0 => Accounts(qcnt, 0, 0, qSize, 0, len, 0, q)
    BY <2>1 DEF IInv, AccountsInv, NoneDue
  <2>5. allocatedCount >= Owned /\ allocated >= allocatedCount - cuts
    BY ONLY <2>2, <2>3 DEF Agree
  <2>6. cuts = 0 => allocated = Owned /\ allocatedCount = Owned
    BY ONLY <2>3 DEF Agree
  <2>7. cuts = 0 => qcnt = len /\ (q => qSize = len)
    BY ONLY <2>2, <2>4 DEF Accounts
  <2> QED
    BY <2>5, <2>6, <2>7
<1> QED
  BY <1>1, SpecIInv, PTL

\* Below verbosity 3 a command that was timed out fails, but for the insertions
\* and show.
THEOREM SpecTimeoutFails == Spec => []TimeoutFails
<1>1. IInv => TimeoutFails
  BY DEF IInv
<1> QED
  BY <1>1, SpecIInv, PTL
=============================================================================
