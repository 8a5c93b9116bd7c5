------------------------------- MODULE Harness -------------------------------
(***************************************************************************)
(* harness.c of the lab: the allocator that the queue code is compiled     *)
(* against, its modes, and the time limit that jumps out of the queue      *)
(* code.  The alarm can be delivered between any two steps, so a step is   *)
(* one store whose order matters to whoever is interrupted there.          *)
(*                                                                         *)
(* The list of blocks is its length: no property needs to tell blocks      *)
(* apart.  An interruption between the two stores that link or unlink a    *)
(* block leaves pointers to a block that is gone; that is `torn'.          *)
(***************************************************************************)
EXTENDS Integers, Sequences

CONSTANT MallocMayFail     \* fail_probability > 0

ASSUME MallocMayFailAssumption == MallocMayFail \in BOOLEAN

VARIABLES
  allocated,         \* blocks on the list
  allocatedCount,    \* allocated_count, a store of its own
  torn,              \* the links were left half changed
  noallocate,        \* noallocate_mode
  cautious,          \* cautious_mode
  errorOccurred,     \* error_occurred, read and cleared by error_check
  jmpReady,          \* jmp_ready
  timeLimited,       \* time_limited
  alarm              \* the kernel's timer: SIGALRM is still to come

heapVars == <<allocated, allocatedCount, torn>>
modeVars == <<noallocate, cautious>>
jumpVars == <<jmpReady, timeLimited, alarm>>

HarnessTypeOK ==
  /\ {allocated, allocatedCount} \subseteq Nat
  /\ {torn, noallocate, cautious, errorOccurred} \subseteq BOOLEAN
  /\ {jmpReady, timeLimited, alarm} \subseteq BOOLEAN

HarnessInit ==
  /\ allocated = 0 /\ allocatedCount = 0 /\ torn = FALSE
  /\ noallocate = FALSE /\ cautious = TRUE /\ errorOccurred = FALSE
  /\ jmpReady = FALSE /\ timeLimited = FALSE /\ alarm = FALSE

\* What a call of test_malloc or test_free still has to store, in order.
test_malloc == <<"prev", "first", "counted">>
test_free == <<"next", "back", "uncounted">>

(* The effect of one store on the list and its count.                      *)
Store(s) ==
  /\ allocated' = CASE s = "first" -> allocated + 1
                    [] s = "next" -> allocated - 1
                    [] OTHER -> allocated
  /\ allocatedCount' = CASE s = "counted" -> allocatedCount + 1
                         [] s = "uncounted" -> allocatedCount - 1
                         [] OTHER -> allocatedCount
  /\ torn' = torn

(* Jumping away before this store leaves a neighbour that points to a      *)
(* block which is not, or no longer, on the list.                          *)
HalfLinked(s) == s \in {"first", "back"} /\ allocated > 0

error_check == errorOccurred' = FALSE

(* exception_setup and exception_cancel, store by store: between the first *)
(* and the last of them the alarm may arrive.                              *)
SetReady   == jmpReady' = TRUE /\ UNCHANGED <<timeLimited, alarm>>
\* mutant: the region runs without a limit
StartNoAlarm == UNCHANGED <<jmpReady, timeLimited, alarm>>
StartAlarm == alarm' = TRUE /\ UNCHANGED <<jmpReady, timeLimited>>
SetLimited == timeLimited' = TRUE /\ UNCHANGED <<jmpReady, alarm>>

StopAlarm ==
  /\ alarm' = (alarm /\ ~timeLimited)
  /\ timeLimited' = FALSE
  /\ UNCHANGED jmpReady

ClearReady == jmpReady' = FALSE /\ UNCHANGED <<timeLimited, alarm>>

(* trigger_exception up to the jump, and the error return of               *)
(* exception_setup up to its return.                                       *)
JumpBack ==
  /\ alarm' = FALSE
  /\ errorOccurred' = TRUE
  /\ jmpReady' = FALSE
  /\ timeLimited' = FALSE
=============================================================================
