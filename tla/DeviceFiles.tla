----------------------------- MODULE DeviceFiles -----------------------------
(***************************************************************************)
(* The file operations of the three drivers while their modules come and   *)
(* go.  echo and the calculator keep one message for all their files and   *)
(* no lock, so their handlers are split where another may get between.     *)
(*                                                                         *)
(* Clients use a file as the programs beside the drivers do: user.c writes *)
(* its message and reads it back; scripts/test.sh writes an expression     *)
(* through one file and reads the answer, until end of file, through       *)
(* another.  Readers ask for more bytes than an answer has.                *)
(***************************************************************************)
EXTENDS CharDevices, Integers, FiniteSetsExt

CONSTANTS
  Cases,         \* what clients write to the calculator: a text, its exact
                 \* value, a text with an error; bound: files opened since the
                 \* module was loaded
  MaxOpens,      \* bound: the same for the other modules
  Offsets,       \* offsets for lseek
  MAX_LENGTH     \* of fibdrv.c

(* expression.c, as main.c calls it: whether a text is an expression, what *)
(* calc makes of one, and of the digits of an answer; and whether an       *)
(* answer stands for an exact value.                                       *)
CONSTANTS IsExpression(_), ResultOf(_), ResultOfDigits(_), IsExactly(_, _)

ASSUME DeviceFilesAssumption ==
  /\ MAX_LENGTH \in Nat /\ Offsets \subseteq Int
  /\ MaxOpens \in Nat /\ \A k \in Cases : k.opens \in Nat
  /\ Cases # {}

VARIABLES
  pc,            \* where each client is in a handler, or what it did last
  opens,         \* files opened since the module was loaded
  overlap,       \* one of those open now has been open beside another, or
                 \* beside one that was
  fibLocked, fPos,               \* fib: fib_mutex, f_pos of the open file
  message, size, received,       \* echo: halves of the message, its size
  case,                          \* the case of this behaviour
  text, msgPtr, result, answers, \* message, msg_ptr, result
  written                        \* what files without overlap have written

fibVars == <<fibLocked, fPos>>
echoVars == <<message, size, received>>
calcVars == <<case, text, msgPtr, result, answers, written>>
fileVars == <<pc, opens, overlap, fibVars, echoVars, calcVars>>
vars == <<lifeVars, opened, fileVars>>

(* The calculator's message: nothing, an expression, or an answer; and     *)
(* bytes a reader may get that are none of these.                          *)
Nothing == [kind |-> "nothing", tokens |-> <<>>, answer |-> 0]
Expr(tokens) == [kind |-> "expression", tokens |-> tokens, answer |-> 0]
AnswerText(x) == [kind |-> "answer", tokens |-> <<>>, answer |-> x]
Mixture == [kind |-> "mixture", tokens |-> <<>>, answer |-> 0]

(* Whether an expression without error and whether any text was written    *)
(* last; files that overlap leave both unknown.                            *)
NothingWritten == [expression |-> "no", text |-> "no"]
Unknown == [expression |-> "unknown", text |-> "unknown"]

OpensAllowed == IF driver = "calc" THEN case.opens ELSE MaxOpens

TypeOK ==
  /\ LifeTypeOK
  /\ pc \in [Clients -> {"closed", "open", "copy", "strlen", "wrote", "read",
                         "copied", "done", "calc"}]
  /\ opened = {c \in Clients : pc[c] # "closed"}
  /\ opens \in 0..OpensAllowed /\ overlap \in BOOLEAN /\ fibLocked \in BOOLEAN
  /\ fPos \in 0..MAX_LENGTH
  /\ size \in {0, 2} /\ msgPtr \in {"start", "end", "stale"}
  /\ written \in [expression : {"no", "yes", "unknown"}, text : {"no", "yes", "unknown"}]

AnyCase == CHOOSE k \in Cases : TRUE
NoReads == [c \in Clients |-> <<>>]

Init ==
  /\ LifeInit
  /\ pc = [c \in Clients |-> "closed"] /\ opens = 0 /\ overlap = FALSE
  /\ fibLocked = FALSE /\ fPos = 0
  /\ message = <<"none", "none">> /\ size = 0 /\ received = NoReads
  /\ IF driver = "calc" THEN case \in Cases ELSE case = AnyCase
  /\ text = Nothing /\ msgPtr = "start" /\ result = 0 /\ answers = NoReads
  /\ written = NothingWritten

(* Static variables start anew with the module.                            *)
LoadModule ==
  /\ Load
  /\ opens' = 0 /\ overlap' = FALSE
  /\ fibLocked' = FALSE /\ fPos' = 0
  /\ message' = <<"none", "none">> /\ size' = 0 /\ received' = NoReads
  /\ text' = Nothing /\ msgPtr' = "start" /\ result' = 0 /\ answers' = NoReads
  /\ written' = NothingWritten
  /\ UNCHANGED <<pc, case>>

UnloadModule == Rmmod /\ UNCHANGED fileVars

-----------------------------------------------------------------------------
(* Files *)

Device(d) == driver = d /\ state = "live"
Moves(c, from, to) == pc[c] = from /\ pc' = [pc EXCEPT ![c] = to]
Alone == UNCHANGED <<lifeVars, opened, opens, overlap>>

(* The device file exists while the device is registered; every open and   *)
(* close runs through here.                                                *)
OpenFile(c, d) ==
  /\ Device(d) /\ "device" \in registered /\ opens < OpensAllowed
  /\ Moves(c, "closed", "open")
  /\ opened' = opened \cup {c} /\ opens' = opens + 1
  /\ overlap' = (overlap \/ opened # {})
  /\ UNCHANGED lifeVars

CloseFile(c, d, from) ==
  /\ Device(d) /\ pc[c] \in from
  /\ pc' = [pc EXCEPT ![c] = "closed"]
  /\ opened' = opened \ {c} /\ overlap' = (overlap /\ opened # {c})
  /\ UNCHANGED <<lifeVars, opens>>

(* A file of a module that did not wait for it to be closed.               *)
UseAfterUnload(c) ==
  /\ state = "absent" /\ c \in opened
  /\ state' = "oops"
  /\ UNCHANGED <<driver, registered, leaked, loads, opened, fileVars>>

-----------------------------------------------------------------------------
(* fibdrv.c.  fib_open returns EBUSY when the lock is taken.               *)

fib_open(c) ==
  /\ ~fibLocked /\ OpenFile(c, "fib")
  /\ fibLocked' = TRUE /\ fPos' = 0
  /\ UNCHANGED <<echoVars, calcVars>>

fib_release(c) ==
  /\ CloseFile(c, "fib", {"open"})
  /\ fibLocked' = FALSE
  /\ UNCHANGED <<fPos, echoVars, calcVars>>

\* mutant: a position below the first number is kept
fib_device_lseekBelow(c, offset, orig) ==
  /\ Device("fib") /\ pc[c] = "open"
  /\ LET pos == CASE orig = "SEEK_SET" -> offset
                  [] orig = "SEEK_CUR" -> fPos + offset
                  [] orig = "SEEK_END" -> MAX_LENGTH - offset
     IN  fPos' = Min({pos, MAX_LENGTH})
  /\ Alone /\ UNCHANGED <<pc, fibLocked, echoVars, calcVars>>

fib_device_lseek(c, offset, orig) ==
  /\ Device("fib") /\ pc[c] = "open"
  /\ LET pos == CASE orig = "SEEK_SET" -> offset
                  [] orig = "SEEK_CUR" -> fPos + offset
                  [] orig = "SEEK_END" -> MAX_LENGTH - offset
     IN  fPos' = Max({0, Min({pos, MAX_LENGTH})})
  /\ Alone /\ UNCHANGED <<pc, fibLocked, echoVars, calcVars>>

-----------------------------------------------------------------------------
(* echo.c.  Messages have the same length, two halves.                     *)

echo_open(c) ==
  /\ OpenFile(c, "echo")
  /\ received' = [received EXCEPT ![c] = <<>>]
  /\ UNCHANGED <<message, size, fibVars, calcVars>>

echo_write(c) ==
  /\ Device("echo")
  /\ \/ Moves(c, "open", "copy") /\ message' = [message EXCEPT ![1] = c]
        /\ UNCHANGED size
     \/ Moves(c, "copy", "strlen") /\ message' = [message EXCEPT ![2] = c]
        /\ UNCHANGED size
     \/ Moves(c, "strlen", "wrote") /\ size' = 2 /\ UNCHANGED message
  /\ Alone /\ UNCHANGED <<received, fibVars, calcVars>>

\* mutant: the size is reset before the message is copied
echo_readResetFirst(c) ==
  /\ Device("echo")
  /\ \/ Moves(c, "wrote", "copied") /\ size' = 0 /\ UNCHANGED received
     \/ Moves(c, "copied", "done") /\ UNCHANGED size
        /\ received' = [received EXCEPT ![c] = SubSeq(message, 1, size)]
  /\ Alone /\ UNCHANGED <<message, fibVars, calcVars>>

(* copy_to_user of the size found first; the value returned is 0.          *)
echo_read(c) ==
  /\ Device("echo")
  /\ \/ /\ pc[c] = "wrote"
        /\ pc' = [pc EXCEPT ![c] = IF size = 0 THEN "copied" ELSE "read"]
        /\ received' = [received EXCEPT ![c] = SubSeq(message, 1, Min({size, 1}))]
        /\ UNCHANGED size
     \/ /\ Moves(c, "read", "copied")
        /\ received' = [received EXCEPT ![c] = Append(@, message[2])]
        /\ UNCHANGED size
     \/ /\ Moves(c, "copied", "done")
        /\ size' = 0 /\ UNCHANGED received
  /\ Alone /\ UNCHANGED <<message, fibVars, calcVars>>

(* A client may die between any two calls.                                 *)
echo_release(c) ==
  /\ CloseFile(c, "echo", {"open", "wrote", "done"})
  /\ UNCHANGED <<echoVars, fibVars, calcVars>>

-----------------------------------------------------------------------------
(* main.c of kcalc *)

dev_open(c) ==
  /\ OpenFile(c, "calc")
  /\ msgPtr' = "start"
  /\ answers' = [answers EXCEPT ![c] = <<>>]
  /\ written' = IF overlap' THEN Unknown ELSE written
  /\ UNCHANGED <<case, text, result, fibVars, echoVars>>

(* msg_ptr is left where it was, which is the start of any message, but    *)
(* just some place in one that replaces the message it was the end of.     *)
KeepPlace == msgPtr' = IF msgPtr = "start" THEN "start" ELSE "stale"

(* A text of 256 bytes or more only clears the message.                    *)
dev_write(c) ==
  /\ Device("calc") /\ answers[c] = <<>>
  /\ \/ /\ Moves(c, "open", "calc")
        /\ \E t \in {case.text, case.bad} :
             /\ text' = Expr(t)
             /\ written' = IF overlap THEN Unknown
                           ELSE [text |-> "yes",
                                 expression |-> IF t = case.text THEN "yes"
                                                ELSE written.expression]
     \/ /\ Moves(c, "open", "done")
        /\ text' = Nothing
        /\ written' = IF overlap THEN Unknown ELSE [written EXCEPT !.text = "no"]
  /\ KeepPlace
  /\ Alone /\ UNCHANGED <<case, result, answers, fibVars, echoVars>>

(* The digits of an answer are an expression too.                          *)
calc(c) ==
  /\ Device("calc") /\ Moves(c, "calc", "done")
  /\ result' = CASE text.kind = "nothing" -> 0
                 [] text.kind = "answer" -> ResultOfDigits(text.answer)
                 [] text.kind = "expression" ->
                      IF IsExpression(text.tokens) THEN ResultOf(text.tokens)
                      ELSE result
  /\ Alone /\ UNCHANGED <<case, text, msgPtr, answers, written, fibVars, echoVars>>

(* Whether what msg_ptr points to is 0.                                    *)
AtEnd == CASE text = Nothing \/ msgPtr = "end" -> {TRUE}
           [] text # Nothing /\ msgPtr = "start" -> {FALSE}
           [] text # Nothing /\ msgPtr = "stale" -> BOOLEAN

(* The answer replaces the message and is copied from there; then the      *)
(* bytes from msg_ptr on are put over the start of the copy, and msg_ptr   *)
(* goes to their end.  In between the message may have become another, or  *)
(* longer or shorter than where msg_ptr is.                                *)
Delivered == CASE text.kind # "answer" -> {Mixture}
               [] text.kind = "answer" /\ msgPtr # "stale" -> {text}
               [] text.kind = "answer" /\ msgPtr = "stale" -> {text, Mixture}

PlaceAfter == CASE text = Nothing -> {msgPtr}
                [] text.kind = "answer" /\ msgPtr # "stale" -> {"end"}
                [] OTHER -> {"end", "stale"}

dev_read(c) ==
  /\ Device("calc") /\ Len(answers[c]) < 2
  /\ \/ /\ pc[c] = "open" /\ TRUE \in AtEnd
        /\ answers' = [answers EXCEPT ![c] = Append(@, Nothing)]
        /\ UNCHANGED <<pc, text, msgPtr>>
     \/ /\ Moves(c, "open", "copy") /\ FALSE \in AtEnd
        /\ text' = AnswerText(result)
        /\ UNCHANGED <<msgPtr, answers>>
     \/ /\ Moves(c, "copy", "open")
        /\ \E t \in Delivered : answers' = [answers EXCEPT ![c] = Append(@, t)]
        /\ msgPtr' \in PlaceAfter
        /\ UNCHANGED text
  /\ Alone /\ UNCHANGED <<case, result, written, fibVars, echoVars>>

dev_release(c) ==
  /\ CloseFile(c, "calc", {"open", "done"})
  /\ UNCHANGED <<calcVars, fibVars, echoVars>>

-----------------------------------------------------------------------------
Whences == {"SEEK_SET", "SEEK_CUR", "SEEK_END"}

Next ==
  \/ LoadModule \/ UnloadModule
  \/ \E c \in Clients :
       \/ UseAfterUnload(c)
       \/ fib_open(c) \/ fib_release(c)
       \/ \E o \in Offsets, w \in Whences : fib_device_lseek(c, o, w)
       \/ echo_open(c) \/ echo_write(c) \/ echo_read(c) \/ echo_release(c)
       \/ dev_open(c) \/ dev_write(c) \/ calc(c) \/ dev_read(c) \/ dev_release(c)

Spec == Init /\ [][Next]_vars

-----------------------------------------------------------------------------
(* Properties *)

(* A module that is gone, whichever call of its init function failed,      *)
(* leaves nothing behind that leads back into its code: device numbers and *)
(* the memory of a cdev may be lost, but no device, class or cdev.         *)
NothingReachable ==
  leaked \cap {"chrdev", "cdev", "class", "device"} = {}

(* fib: one file at a time, the lock is held exactly while there is one,   *)
(* and the module stays until it is closed.                                *)
FibExclusive ==
  driver = "fib" =>
    /\ Cardinality(opened) <= 1
    /\ opened # {} => state = "live"
    /\ state = "live" => (fibLocked <=> opened # {})

(* echo: a client that no other overlaps reads back what it wrote,         *)
(* whatever earlier ones left behind: a message never read, its size, or   *)
(* the mixture of several that did overlap.                                *)
EchoesOwn ==
  driver = "echo" /\ ~overlap =>
    \A c \in Clients : pc[c] = "done" => received[c] = <<c, c>>

(* calc: a file that no other overlaps gets an answer or end of file from  *)
(* its first read and end of file from its second, even where files that   *)
(* overlapped left the message and the read pointer in disorder.  Since    *)
(* then, what is written without overlap counts: the answer is the exact   *)
(* value of the last expression written without a syntax error, through    *)
(* whichever file, 0 if none was since the load, and end of file comes     *)
(* first exactly if the message is empty.                                  *)
IsAnswer(x) == CASE written.expression = "yes" -> IsExactly(x, case.value)
                 [] written.expression = "no" -> x = 0
                 [] OTHER -> TRUE

ReadsTheAnswer ==
  driver = "calc" /\ ~overlap =>
    \A c \in opened :
      /\ Len(answers[c]) >= 1 =>
           LET first == answers[c][1] IN
           /\ first # Nothing => first.kind = "answer" /\ IsAnswer(first.answer)
           /\ written.text = "yes" => first # Nothing
           /\ written.text = "no" => first = Nothing
      /\ Len(answers[c]) = 2 => answers[c][2] = Nothing
=============================================================================
