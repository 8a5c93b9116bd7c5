------------------------------- MODULE MCLists -------------------------------
(***************************************************************************)
(* The repository's sequential list programs for TLC: lab0-c's queue,      *)
(* linuxlist's list.h with its sorts, and quiz1's quicksort.  They share   *)
(* nothing, so a behaviour is of one of them, chosen at the start, and     *)
(* leaves the others as they begin.                                        *)
(***************************************************************************)
EXTENDS LabQueue, LinuxList, QuickSort, TLC

VARIABLE part

ItemSymmetry == Permutations(Items)

\* The call made last is no part of a state: no step depends on it, and TLC compares
\* every step it generates with ImplementsQueue and ImplementsLists, those that lead
\* to a state it knows included.
WithoutCall == <<part, exists, queue, next, value, alloc, lists, stale, sortVars>>

Unsorted == key = [p \in Positions |-> CHOOSE k \in Keys : TRUE]

ListProgramsInit ==
  /\ part \in {"lab0", "linuxlist", "quiz1"}
  /\ Init /\ ListsInit /\ SortInit
  /\ part # "quiz1" => Unsorted

ListProgramsNext ==
  /\ UNCHANGED part
  /\ \/ part = "lab0" /\ Next /\ UNCHANGED <<listVars, sortVars>>
     \/ part = "linuxlist" /\ ListsNext /\ UNCHANGED <<vars, sortVars>>
     \/ part = "quiz1" /\ SortNext /\ UNCHANGED <<vars, listVars>>

ListProgramsSpec ==
  ListProgramsInit /\ [][ListProgramsNext]_<<part, vars, listVars, sortVars>>
=============================================================================
