----------------------------- MODULE CharDevices -----------------------------
(***************************************************************************)
(* Loading and unloading of the three character-device modules: echo,      *)
(* the Fibonacci driver and the calculator.  Each call of the init         *)
(* function into the kernel may fail; whoever loads the module may try     *)
(* again, and may unload it whenever the kernel lets them.                 *)
(***************************************************************************)
EXTENDS Naturals, FiniteSets, Sequences, SequencesExt

CONSTANTS
  Clients,       \* processes that open the device
  MaxLoads       \* bound: insmods

ASSUME CharDevicesAssumption == IsFiniteSet(Clients) /\ MaxLoads \in Nat

VARIABLES
  driver,        \* the module this is about
  state,         \* of the module: absent, loading, live, or the kernel oopsed
  registered,    \* what the kernel holds on the module's behalf
  leaked,        \* what it still holds of modules that are gone
  loads,         \* insmods so far
  opened         \* clients with an open file

lifeVars == <<driver, state, registered, leaked, loads>>

Modules == {"echo", "fib", "calc"}

(* The calls of the init functions, by what each registers.                *)
Calls == [d \in Modules |->
            IF d = "calc" THEN <<"chrdev", "class", "device">>
            ELSE <<"region", "memory", "cdev", "class", "device">>]

LifeTypeOK ==
  /\ driver \in Modules
  /\ state \in {"absent", "loading", "live", "oops"}
  /\ registered \cup leaked \subseteq Range(Calls[driver])
  /\ loads \in 0..MaxLoads
  /\ opened \subseteq Clients

LifeInit ==
  /\ driver \in Modules
  /\ state = "absent" /\ registered = {} /\ leaked = {}
  /\ loads = 0 /\ opened = {}

Insmod ==
  /\ state = "absent" /\ opened = {} /\ loads < MaxLoads
  /\ state' = "loading" /\ loads' = loads + 1
  /\ UNCHANGED <<driver, registered, leaked, opened>>

(* The module goes, having given back what it releases.                    *)
Leave(released) ==
  /\ registered' = {}
  /\ leaked' = leaked \cup (registered \ released)

NextCall == SelectInSeq(Calls[driver], LAMBDA r : r \notin registered)

(* A call succeeds; after the last one the module is live.                 *)
CallSucceeds ==
  /\ state = "loading"
  /\ LET r == Calls[driver][NextCall] IN
     /\ registered' = registered \cup {r}
     /\ state' = IF r = "device" THEN "live" ELSE "loading"
  /\ UNCHANGED <<driver, leaked, loads, opened>>

(* echo and fib: failures before the class go to failed_cdev, which gives  *)
(* the region back (the memory of the cdev stays).  class_create and       *)
(* device_create report errors in the pointer, which a test for NULL does  *)
(* not see, and device_create refuses such a class in the same way: the    *)
(* init function succeeds without a class or without a device.             *)
InitFails ==
  /\ state = "loading" /\ driver # "calc"
  /\ IF Calls[driver][NextCall] \in {"class", "device"}
     THEN state' = "live" /\ UNCHANGED <<registered, leaked>>
     ELSE state' = "absent" /\ Leave({"region"})
  /\ UNCHANGED <<driver, loads, opened>>

\* mutant: the class of a device that could not be created stays
calc_initFailsKeepsClass ==
  /\ state = "loading" /\ driver = "calc"
  /\ state' = "absent" /\ Leave({"chrdev"})
  /\ UNCHANGED <<driver, loads, opened>>

calc_initFails ==
  /\ state = "loading" /\ driver = "calc"
  /\ state' = "absent" /\ Leave({"chrdev", "class"})
  /\ UNCHANGED <<driver, loads, opened>>

\* mutant: fib's file operations do not name their module either
UnloadableUnpinned == state = "live"

(* Only fib's file operations name their module, so that an open file      *)
(* keeps it loaded.                                                        *)
Unloadable == state = "live" /\ (driver = "fib" => opened = {})

(* cdev_init has replaced the release function that cdev_alloc gave the    *)
(* cdev, so cdev_del does not free its memory.                             *)
exit_fib_dev == driver = "fib" /\ Leave({"device", "class", "cdev", "region"})

\* echo_exit forgets the region as well
echo_exit == driver = "echo" /\ Leave({"device", "class", "cdev"})

\* calc_exit unregisters the class twice, the second time after it is freed
calc_exit == driver = "calc" /\ Leave({"device", "class", "chrdev"})

(* device_destroy looks the device up in its class, if there is one.       *)
Rmmod ==
  /\ Unloadable
  /\ IF "class" \in registered
     THEN /\ exit_fib_dev \/ echo_exit \/ calc_exit
          /\ state' \in {"absent"} \cup IF driver = "calc" THEN {"oops"} ELSE {}
     ELSE state' = "oops" /\ UNCHANGED <<registered, leaked>>
  /\ UNCHANGED <<driver, loads, opened>>

Load == Insmod \/ CallSucceeds \/ InitFails \/ calc_initFails
=============================================================================
