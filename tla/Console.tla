------------------------------ MODULE Console ------------------------------
(***************************************************************************)
(* The command console of 2021q1_lab0-c/console.c under main of qtest.c:   *)
(* lines come from a stack of input files that source commands push, or    *)
(* from standard input at a prompt; errors are counted up to a limit; quit *)
(* frees the command list and runs the helper that frees the queue.  A     *)
(* line is what it makes the console do: its words, and what a command     *)
(* does to the queue, are left out.  One line is read and interpreted in   *)
(* one step: the program has one thread.                                   *)
(***************************************************************************)
EXTENDS Naturals, Sequences, FiniteSets, SequencesExt

CONSTANTS MaxLines,     \* lines of each script, at most; a script sources
                        \* later ones only
          MaxTyped,     \* lines that come from standard input, at most
          DefaultLimit  \* initial err_limit

ASSUME ConsoleAssumption == /\ MaxLines \in Seq(Nat) /\ MaxLines # <<>>
                            /\ MaxTyped \in Nat /\ DefaultLimit \in Nat \ {0}

VARIABLES
  script, newline,              \* the lines of each file; does its last one
                                \* end in a newline?
  mode,                         \* what qtest reads: "file" or "missing" with
                                \* -f, else "terminal" or "pipe"
  buf_stack,                    \* open inputs, the innermost first
  quit_flag, err_cnt, err_limit,
  cmd_frees,                    \* times the command list has been freed
  leak,                         \* what queue_quit found: "unchecked" at first
  executed,                     \* history: the lines interpreted so far
  mainAt, exitStatus            \* of main: label, exit status

errors == <<quit_flag, err_cnt, err_limit>>
quitting == <<cmd_frees, leak>>
console == <<buf_stack, errors, quitting, executed>>
consoleVars == <<script, newline, mode, console, mainAt, exitStatus>>

Files == 1 .. Len(MaxLines)
STDIN == 0
NoFile == 0                     \* argument of a source that cannot be opened

\* What lines do.  "fail" is a command that returns false, or no command;
\* "option" lowers the error limit, "partial" does too and then meets a
\* parameter that does not exist; a timed line is run by the time command.
Line(cmd, arg, timed) == [cmd |-> cmd, arg |-> arg, timed |-> timed]
Plain == {Line(cmd, 1, FALSE) : cmd \in {"ok", "option", "partial"}}
           \cup {Line(cmd, 0, timed) : cmd \in {"fail", "quit"}, timed \in BOOLEAN}
Lines(i) == Plain \cup {Line("source", j, FALSE) : j \in {NoFile} \cup (i + 1 .. Len(MaxLines))}
Contents(i) == UNION {[1 .. n -> Lines(i)] : n \in 0 .. MaxLines[i]}

\* The line of a file may source later files only.
Scripts ==
  {s \in [Files -> UNION {Contents(i) : i \in Files}] : \A i \in Files : s[i] \in Contents(i)}

\* Scripts only matter with -f: from standard input no file is ever read.
ConsoleInit ==
  /\ mode \in {"file", "missing", "terminal", "pipe"}
  /\ IF mode = "file"
     THEN script \in Scripts
     ELSE script = [i \in Files |-> <<>>]
  /\ newline \in {n \in [Files -> BOOLEAN] : \A i \in Files : script[i] = <<>> => n[i]}
  /\ buf_stack = <<>>
  /\ quit_flag = FALSE /\ err_cnt = 0 /\ err_limit = DefaultLimit
  /\ cmd_frees = 0 /\ leak = "unchecked" /\ executed = <<>>
  /\ mainAt = "run_console" /\ exitStatus = 0

-----------------------------------------------------------------------------
(* Commands.  stack is what the reading of the line left of buf_stack.     *)

push_file(i, stack) == <<[file |-> i, pos |-> 1]>> \o stack

\* The time command passes on the failure its command has recorded, and
\* interpret_cmda records it again.
Failures(line) == IF line.timed THEN 2 ELSE 1

record_error(n, limit) == /\ err_cnt' = err_cnt + n
                          /\ quit_flag' = (quit_flag \/ (n > 0 /\ err_cnt + n >= limit))

Command(line, stack) ==
  /\ line.cmd \in {"ok", "fail"}
  /\ record_error(IF line.cmd = "fail" THEN Failures(line) ELSE 0, err_limit)
  /\ buf_stack' = stack
  /\ UNCHANGED <<err_limit, quitting>>

SourceUnderneath(line, stack) ==
  /\ line.cmd = "source"
  /\ record_error(IF line.arg = NoFile THEN Failures(line) ELSE 0, err_limit)
  /\ buf_stack' = IF line.arg = NoFile THEN stack
                  ELSE stack \o push_file(line.arg, <<>>)
  /\ UNCHANGED <<err_limit, quitting>>

do_source_cmd(line, stack) ==
  /\ line.cmd = "source"
  /\ record_error(IF line.arg = NoFile THEN Failures(line) ELSE 0, err_limit)
  /\ buf_stack' = IF line.arg = NoFile THEN stack ELSE push_file(line.arg, stack)
  /\ UNCHANGED <<err_limit, quitting>>

\* The limit is set before the next parameter turns out to be unknown.
do_option_cmd(line, stack) ==
  /\ line.cmd \in {"option", "partial"}
  /\ err_limit' = line.arg
  /\ record_error(IF line.cmd = "partial" THEN Failures(line) ELSE 0, line.arg)
  /\ buf_stack' = stack
  /\ UNCHANGED quitting

\* Frees the lists, pops every input and runs queue_quit, which may find
\* blocks that are still allocated.
do_quit_cmd(found) ==
  /\ cmd_frees' = cmd_frees + 1
  /\ buf_stack' = <<>>
  /\ leak' = found

Quit(line) ==
  /\ line.cmd = "quit"
  /\ \E found \in {"no", "yes"} :
       /\ do_quit_cmd(found)
       /\ err_cnt' = err_cnt + (IF found = "yes" THEN Failures(line) ELSE 0)
  /\ quit_flag' = TRUE
  /\ UNCHANGED err_limit

Run(line, stack) == \/ Command(line, stack)
                    \/ do_source_cmd(line, stack)
                    \/ do_option_cmd(line, stack)
                    \/ Quit(line)

Interpret(at, line, stack) == executed' = Append(executed, at) /\ Run(line, stack)

\* A line that comes after quit, or after the error limit, is dropped.
interpret_cmd(at, line, stack) ==
  \/ ~quit_flag /\ Interpret(at, line, stack)
  \/ quit_flag /\ buf_stack' = stack /\ UNCHANGED <<errors, quitting, executed>>

-----------------------------------------------------------------------------
cmd_done == buf_stack = <<>> \/ quit_flag

\* A file that cannot be opened ends the program without finish_cmd.
run_console ==
  /\ mainAt = "run_console"
  /\ IF mode = "missing"
     THEN mainAt' = "exit" /\ exitStatus' = 1 /\ UNCHANGED buf_stack
     ELSE /\ buf_stack' = push_file(IF mode = "file" THEN 1 ELSE STDIN, <<>>)
          /\ mainAt' = "loop" /\ UNCHANGED exitStatus
  /\ UNCHANGED <<script, newline, mode, errors, quitting, executed>>

EndOfFileStays == UNCHANGED buf_stack
EndOfFile == buf_stack' = Tail(buf_stack)

\* cmd_select: readline takes the next line of the innermost file.  At the
\* end of the file, also when it ends a line, the file is popped first.
cmd_select ==
  /\ mainAt = "loop" /\ mode = "file" /\ ~cmd_done
  /\ LET top == Head(buf_stack)
         lines == script[top.file]
         advanced == [buf_stack EXCEPT ![1].pos = @ + 1]
     IN  IF top.pos > Len(lines)
         THEN EndOfFile /\ UNCHANGED <<errors, quitting, executed>>
         ELSE interpret_cmd(<<top.file, top.pos>>, lines[top.pos],
                            IF top.pos = Len(lines) /\ ~newline[top.file]
                            THEN Tail(buf_stack) ELSE advanced)
  /\ UNCHANGED <<script, newline, mode, mainAt, exitStatus>>

\* A line from standard input.  Once quit has closed it, a terminal gives no
\* more, but a pipe still gives what stdio has buffered.  Neither quit_flag
\* nor the files that source commands have pushed are looked at.
linenoise ==
  /\ mainAt = "loop" /\ mode \in {"terminal", "pipe"}
  /\ mode = "terminal" => buf_stack # <<>>
  /\ Len(executed) < MaxTyped
  /\ \E line \in Lines(0) :
       interpret_cmd(<<STDIN, Len(executed) + 1>>, line, buf_stack)
  /\ UNCHANGED <<script, newline, mode, mainAt, exitStatus>>

\* The loop of run_console ends: no more input, or, with -f, cmd_done.
InputEnds ==
  /\ mainAt = "loop"
  /\ mode = "file" => cmd_done
  /\ IF err_cnt = 0 THEN mainAt' = "finish_cmd" /\ UNCHANGED exitStatus
                    ELSE mainAt' = "exit" /\ exitStatus' = 1
  /\ UNCHANGED <<script, newline, mode, console>>

FinishIgnoresHelper ==
  /\ mainAt = "finish_cmd" /\ mainAt' = "exit"
  /\ IF quit_flag THEN UNCHANGED <<buf_stack, quitting>>
     ELSE \E found \in {"no", "yes"} : do_quit_cmd(found)
  /\ quit_flag' = TRUE
  /\ exitStatus' = IF err_cnt = 0 THEN 0 ELSE 1
  /\ UNCHANGED <<script, newline, mode, err_cnt, err_limit, executed>>

\* finish_cmd: quits unless a quit command did; only a run without errors
\* comes here.
finish_cmd ==
  /\ mainAt = "finish_cmd" /\ mainAt' = "exit"
  /\ IF quit_flag THEN exitStatus' = 0 /\ UNCHANGED <<buf_stack, quitting>>
     ELSE \E found \in {"no", "yes"} :
            do_quit_cmd(found) /\ exitStatus' = IF found = "yes" THEN 1 ELSE 0
  /\ quit_flag' = TRUE
  /\ UNCHANGED <<script, newline, mode, err_cnt, err_limit, executed>>

\* main has returned.
Exited == mainAt = "exit" /\ UNCHANGED consoleVars

ConsoleNext == run_console \/ cmd_select \/ linenoise \/ InputEnds \/ finish_cmd \/ Exited

\* Files can always be read; nobody has to type.
ConsoleFairness ==
  /\ WF_consoleVars(run_console) /\ WF_consoleVars(cmd_select)
  /\ WF_consoleVars(mode = "file" /\ InputEnds) /\ WF_consoleVars(finish_cmd)
ConsoleSpec == ConsoleInit /\ [][ConsoleNext]_consoleVars /\ ConsoleFairness

-----------------------------------------------------------------------------
\* The lists of commands and parameters are freed once at most, the errors
\* never pass the last limit by more than one timed command, and the inputs
\* on the stack are files in the order of their nesting, or standard input.
ConsoleTypeOK ==
  /\ buf_stack \in Seq([file : Files \cup {STDIN}, pos : Nat \ {0}])
  /\ \A i \in 1 .. Len(buf_stack) - 1 :
        mode = "file" => buf_stack[i].file > buf_stack[i + 1].file
  /\ quit_flag \in BOOLEAN /\ err_limit \in {1, DefaultLimit}
  /\ err_cnt \in 0 .. DefaultLimit + 1
  /\ cmd_frees \in 0 .. 1 /\ leak \in {"unchecked", "no", "yes"}
  /\ executed \in Seq(({STDIN} \cup Files) \X (Nat \ {0}))
  /\ mainAt \in {"run_console", "loop", "finish_cmd", "exit"} /\ exitStatus \in 0 .. 1

\* The lines of a script with each sourced file in place of its command, as
\* the reader of the script expects them.
Flattened ==
  LET flat[i \in Files] ==
        FlattenSeq([p \in 1 .. Len(script[i]) |->
          <<<<i, p>>>> \o (IF script[i][p].cmd = "source" /\ script[i][p].arg # NoFile
                           THEN flat[script[i][p].arg] ELSE <<>>)])
  IN  flat[1]

\* readline and push_file: with -f the lines are interpreted in the order of
\* the flattened script, none twice and none left out, and when the loop ends
\* without quit or too many errors, all of them have been.
ScriptOrder == /\ mode = "file" => IsPrefix(executed, Flattened)
               /\ mode = "file" /\ mainAt = "finish_cmd" /\ ~quit_flag
                    => executed = Flattened

\* interpret_cmd, whose quit_flag test is all that guards the freed list: no
\* line is interpreted once the command list is gone, or once as many errors
\* have been counted as the limit allows at first (options only lower it),
\* wherever the line comes from.
NothingAfterQuit ==
  [][executed' # executed => cmd_frees = 0 /\ err_cnt < DefaultLimit]_consoleVars

\* main: the exit status is 0 exactly when the input could be opened, no
\* command has failed and the queue was freed without a leak, whether quit
\* came from the script, from standard input or from finish_cmd.
ExitTells ==
  mainAt = "exit" => (exitStatus = 0 <=> mode # "missing" /\ err_cnt = 0 /\ leak = "no")

\* What holds however the input ends, finish_cmd's second quit included
\* (console.c:268-294, :600-607).
ConsoleInv == ConsoleTypeOK /\ ExitTells

\* With -f the program ends: every file is popped at its end.
Termination == mode \in {"file", "missing"} => <>(mainAt = "exit")
=============================================================================
