---------------------------- MODULE DriverProofs ----------------------------
(***************************************************************************)
(* The three drivers for any clients, any number of loads and files, any   *)
(* texts and any offsets.                                                  *)
(*                                                                         *)
(* The argument: an init function that fails has made the calls before the *)
(* one that failed and no other, so what its error path gives back can be  *)
(* compared with what there is (Begun).  A message that all files share is *)
(* the business of one client as long as its file overlaps no other; what  *)
(* stands in it then, and what has been computed from it, follows from the *)
(* place of that client, whatever was there when it came (EchoInv), and    *)
(* with the calculator is left in order for the next one (CalcInv).        *)
(***************************************************************************)
EXTENDS DeviceFiles, TLAPS, FiniteSetTheorems

-----------------------------------------------------------------------------
(* The invariant *)

\* The first k calls of the init function have succeeded.
Called(k) == {Calls[driver][i] : i \in 1 .. k}

\* A module that is not loaded has nothing registered, one that is loading has what
\* its calls so far registered, and no file is open while it loads.
Begun ==
  /\ state = "absent" => registered = {}
  /\ state = "loading" => /\ opened = {}
                          /\ \E k \in 0 .. Len(Calls[driver]) - 1 : registered = Called(k)

\* Files that do not overlap: one at most is open.
Sole == ~overlap => \A c, d \in opened : c = d

FibInv ==
  driver = "fib" =>
    /\ \A c, d \in opened : c = d
    /\ \A c \in opened : pc[c] = "open"
    /\ opened # {} => state = "live"
    /\ state = "live" => (fibLocked <=> opened # {})

\* Where the client of echo is with the message that all files share.
EchoInv ==
  /\ DOMAIN received = Clients
  /\ message = <<message[1], message[2]>>
  /\ driver = "echo" /\ ~overlap =>
       \A c \in opened :
         /\ pc[c] \in {"open", "copy", "strlen", "wrote", "read", "copied", "done"}
         /\ pc[c] = "copy" => message[1] = c
         /\ pc[c] \in {"strlen", "wrote", "read"} => message = <<c, c>>
         /\ pc[c] = "wrote" => size = 2
         /\ pc[c] = "read" => received[c] = <<c>>
         /\ pc[c] \in {"copied", "done"} => received[c] = <<c, c>>

CaseInv == case \in Cases

IInv == TypeOK /\ NothingReachable /\ Begun /\ Sole /\ CaseInv /\ FibInv /\ EchoInv

-----------------------------------------------------------------------------
(* The calculator's message *)

\* The expression code is right about the texts of the case: it takes the expression
\* and computes its value, and it refuses the other text.
ExpressionsRight ==
  \A k \in Cases : /\ IsExpression(k.text) /\ IsExactly(ResultOf(k.text), k.value)
                   /\ ~IsExpression(k.bad)

\* Between two calls of calc the result is that of the last expression, and the message
\* is there if the last text was not too long.
Settled ==
  /\ IsAnswer(result)
  /\ written.text = "yes" => text # Nothing
  /\ written.text = "no" => text = Nothing

\* What a file has been given to read.
First == IF text = Nothing THEN Nothing ELSE AnswerText(result)
Reading(c) ==
  /\ answers[c] \in {<<>>, <<First>>, <<First, Nothing>>}
  /\ answers[c] = <<>> => msgPtr = "start"
  /\ answers[c] # <<>> => text = First /\ (text # Nothing => msgPtr = "end")

\* Where a file that overlaps no other is with the message.
CalcPlace(c) ==
  /\ pc[c] \in {"open", "calc", "copy", "done"}
  /\ pc[c] = "open" => Reading(c)
  /\ pc[c] = "calc" =>
       /\ answers[c] = <<>> /\ written.text = "yes"
       /\ \/ text = Expr(case.text) /\ written.expression = "yes"
          \/ text = Expr(case.bad) /\ IsAnswer(result)
  /\ pc[c] = "copy" => answers[c] = <<>> /\ msgPtr = "start" /\ text = AnswerText(result)
  /\ pc[c] = "done" => answers[c] = <<>>

CalcInv ==
  /\ DOMAIN answers = Clients
  /\ driver = "calc" /\ overlap => written = Unknown
  /\ driver = "calc" /\ ~overlap =>
       /\ (\A c \in opened : pc[c] # "calc") => Settled
       /\ \A c \in opened : CalcPlace(c)

-----------------------------------------------------------------------------
(* Loading *)

\* The init functions call each registration once, and the device comes last.
LEMMA CallsInOrder ==
  ASSUME NEW d \in Modules
  PROVE  /\ Len(Calls[d]) \in Nat \ {0}
         /\ \A i, j \in 1 .. Len(Calls[d]) : Calls[d][i] = Calls[d][j] => i = j
         /\ \A i \in 1 .. Len(Calls[d]) : Calls[d][i] = "device" <=> i = Len(Calls[d])
         /\ Range(Calls[d]) = {Calls[d][i] : i \in 1 .. Len(Calls[d])}
<1>1. CASE d = "calc"
  <2>1. Calls[d] = <<"chrdev", "class", "device">>
    BY <1>1 DEF Calls, Modules
  <2> QED
    BY <2>1 DEF Range
<1>2. CASE d # "calc"
  <2>1. Calls[d] = <<"region", "memory", "cdev", "class", "device">>
    BY <1>2 DEF Calls, Modules
  <2> QED
    BY <2>1 DEF Range
<1> QED
  BY <1>1, <1>2

\* The next call is the one after those that have been made.
LEMMA NextCallIs ==
  ASSUME driver \in Modules, NEW k \in 0 .. Len(Calls[driver]) - 1, registered = Called(k)
  PROVE  NextCall = k + 1
<1> DEFINE s == Calls[driver]
           I == {i \in 1 .. Len(s) : s[i] \notin registered}
<1>1. Len(s) \in Nat /\ \A i, j \in 1 .. Len(s) : s[i] = s[j] => i = j
  BY CallsInOrder
<1>2. \A i \in 1 .. Len(s) : s[i] \notin registered <=> i > k
  BY <1>1 DEF Called
<1> HIDE DEF s
<1>3. k + 1 \in I /\ \A i \in I : k + 1 <= i
  BY <1>2 DEF s
<1>4. Min(I) = k + 1
  BY <1>3 DEF Min
<1>5. NextCall = IF I # {} THEN Min(I) ELSE 0
  BY DEF NextCall, SelectInSeq, s
<1> QED
  BY <1>3, <1>4, <1>5

\* What echo and fib have registered before their cdev, and the calculator before its end.
LEMMA BeforeLast ==
  ASSUME driver \in Modules, NEW k \in 0 .. Len(Calls[driver]) - 1
  PROVE  /\ driver = "calc" => Called(k) \subseteq {"chrdev", "class"}
         /\ driver # "calc" /\ Calls[driver][k + 1] \notin {"class", "device"} =>
              Called(k) \subseteq {"region", "memory"}
<1>1. CASE driver = "calc"
  <2>1. Calls[driver] = <<"chrdev", "class", "device">>
    BY <1>1 DEF Calls, Modules
  <2> QED
    BY <1>1, <2>1 DEF Called
<1>2. CASE driver # "calc"
  <2>1. Calls[driver] = <<"region", "memory", "cdev", "class", "device">>
    BY <1>2 DEF Calls, Modules
  <2> QED
    BY <1>2, <2>1 DEF Called
<1> QED
  BY <1>1, <1>2

\* Loading a module: all of it, up to the step that fails or makes it live.
LEMMA LoadLife ==
  ASSUME IInv, Load
  PROVE  /\ opened = {} /\ opened' = opened /\ driver' = driver /\ state' \in {"loading", "live", "absent"}
         /\ LifeTypeOK' /\ NothingReachable' /\ Begun'
<1>1. /\ driver \in Modules /\ registered \subseteq Range(Calls[driver]) /\ leaked \subseteq Range(Calls[driver])
      /\ loads \in 0 .. MaxLoads /\ opened \subseteq Clients
  BY DEF IInv, TypeOK, LifeTypeOK
<1>2. CASE Insmod
  <2>1. registered = {} /\ Len(Calls[driver]) \in Nat \ {0}
    BY <1>1, <1>2, CallsInOrder DEF Insmod, IInv, Begun
  <2>2. 0 \in 0 .. Len(Calls[driver]) - 1 /\ Called(0) = {}
    BY <2>1 DEF Called
  <2>3. Begun'
    BY <1>2, <2>1, <2>2 DEF Insmod, Begun, Called
  <2>4. loads' \in 0 .. MaxLoads
    BY <1>1, <1>2, CharDevicesAssumption DEF Insmod
  <2> QED
    BY <1>1, <1>2, <2>3, <2>4 DEF Insmod, LifeTypeOK, IInv, NothingReachable
<1>3. ASSUME state = "loading"
      PROVE  /\ opened = {}
             /\ \E k \in 0 .. Len(Calls[driver]) - 1 : registered = Called(k) /\ NextCall = k + 1
  BY <1>1, <1>3, NextCallIs DEF IInv, Begun
<1>4. CASE CallSucceeds
  <2>1. PICK k \in 0 .. Len(Calls[driver]) - 1 : registered = Called(k) /\ NextCall = k + 1
    BY <1>3, <1>4 DEF CallSucceeds
  <2>2. Len(Calls[driver]) \in Nat /\ k + 1 \in 1 .. Len(Calls[driver])
    BY <1>1, CallsInOrder
  <2>3. /\ registered' = registered \cup {Calls[driver][k + 1]}
        /\ state' = IF Calls[driver][k + 1] = "device" THEN "live" ELSE "loading"
        /\ UNCHANGED <<driver, leaked, loads, opened>>
    BY <1>4, <2>1 DEF CallSucceeds
  <2>4. registered' = Called(k + 1)
    BY <2>1, <2>2, <2>3 DEF Called
  <2>5. Called(k + 1) \subseteq Range(Calls[driver])
    BY <1>1, <2>2, CallsInOrder DEF Called
  <2>6. state' = "loading" => k + 1 \in 0 .. Len(Calls[driver]) - 1
    BY <1>1, <2>2, <2>3, CallsInOrder
  <2>7. Begun'
    <3>1. opened' = {} /\ state' # "absent"
      BY <1>3, <1>4, <2>3 DEF CallSucceeds
    <3>2. state' = "loading" => \E j \in 0 .. Len(Calls[driver]) - 1 : registered' = Called(j)
      BY <2>4, <2>6
    <3>3. Calls[driver]' = Calls[driver] /\ \A j \in 0 .. Len(Calls[driver]) - 1 : Called(j)' = Called(j)
      BY <2>3 DEF Called
    <3> QED
      BY <3>1, <3>2, <3>3 DEF Begun
  <2> QED
    BY <1>1, <1>3, <1>4, <2>3, <2>4, <2>5, <2>7 DEF CallSucceeds, LifeTypeOK, IInv, NothingReachable
<1>5. CASE InitFails
  <2>1. PICK k \in 0 .. Len(Calls[driver]) - 1 : registered = Called(k) /\ NextCall = k + 1
    BY <1>3, <1>5 DEF InitFails
  <2>2. /\ UNCHANGED <<driver, loads, opened>> /\ driver # "calc"
        /\ \/ state' = "live" /\ UNCHANGED <<registered, leaked>>
           \/ /\ Calls[driver][k + 1] \notin {"class", "device"}
              /\ state' = "absent" /\ registered' = {} /\ leaked' = leaked \cup (registered \ {"region"})
    BY <1>5, <2>1 DEF InitFails, Leave
  <2>3. NothingReachable'
    BY <1>1, <2>1, <2>2, BeforeLast DEF IInv, NothingReachable
  <2> QED
    BY <1>1, <1>3, <1>5, <2>2, <2>3 DEF InitFails, LifeTypeOK, Begun
<1>6. CASE calc_initFails
  <2>1. PICK k \in 0 .. Len(Calls[driver]) - 1 : registered = Called(k)
    BY <1>3, <1>6 DEF calc_initFails
  <2>2. /\ UNCHANGED <<driver, loads, opened>> /\ driver = "calc" /\ state' = "absent"
        /\ registered' = {} /\ leaked' = leaked \cup (registered \ {"chrdev", "class"})
    BY <1>6 DEF calc_initFails, Leave
  <2>3. leaked' = leaked
    BY <1>1, <2>1, <2>2, BeforeLast
  <2> QED
    BY <1>1, <1>3, <1>6, <2>2, <2>3 DEF calc_initFails, LifeTypeOK, Begun, IInv, NothingReachable
<1> QED
  BY <1>2, <1>4, <1>5, <1>6 DEF Load

\* Unloading: the memory of a cdev stays behind, and echo's region.
LEMMA RmmodLife ==
  ASSUME IInv, Rmmod
  PROVE  /\ UNCHANGED <<driver, opened>> /\ state = "live" /\ state' \in {"absent", "oops"}
         /\ driver = "fib" => opened = {}
         /\ LifeTypeOK' /\ NothingReachable' /\ Begun'
<1>1. /\ driver \in Modules /\ registered \subseteq Range(Calls[driver]) /\ leaked \subseteq Range(Calls[driver])
      /\ loads \in 0 .. MaxLoads /\ opened \subseteq Clients
  BY DEF IInv, TypeOK, LifeTypeOK
<1>2. /\ UNCHANGED <<driver, loads, opened>> /\ state = "live" /\ (driver = "fib" => opened = {})
      /\ \/ state' \in {"absent", "oops"} /\ (exit_fib_dev \/ echo_exit \/ calc_exit)
         \/ state' = "oops" /\ UNCHANGED <<registered, leaked>>
  BY DEF Rmmod, Unloadable
<1>3. ASSUME exit_fib_dev \/ echo_exit \/ calc_exit
      PROVE  /\ registered' = {} /\ leaked' \subseteq leaked \cup registered
             /\ leaked' \cap {"chrdev", "cdev", "class", "device"} = {}
  <2>1. leaked \cap {"chrdev", "cdev", "class", "device"} = {}
    BY DEF IInv, NothingReachable
  <2>2. CASE exit_fib_dev
    BY <2>1, <2>2, <1>1, CallsInOrder DEF exit_fib_dev, Leave, Calls, Modules, Range
  <2>3. CASE echo_exit
    BY <2>1, <2>3, <1>1 DEF echo_exit, Leave, Calls, Modules, Range
  <2>4. CASE calc_exit
    BY <2>1, <2>4, <1>1 DEF calc_exit, Leave, Calls, Modules, Range
  <2> QED
    BY <1>3, <2>2, <2>3, <2>4
<1>4. NothingReachable'
  BY <1>2, <1>3 DEF IInv, NothingReachable
<1>5. Begun'
  BY <1>2, <1>3 DEF Begun
<1>6. LifeTypeOK'
  BY <1>1, <1>2, <1>3 DEF LifeTypeOK
<1> QED
  BY <1>2, <1>4, <1>5, <1>6

-----------------------------------------------------------------------------
(* Opening, using and closing files *)

\* What does not depend on a message or on fib's lock.
Common ==
  /\ LifeTypeOK /\ NothingReachable /\ Begun /\ Sole /\ CaseInv
  /\ pc \in [Clients -> {"closed", "open", "copy", "strlen", "wrote", "read",
                         "copied", "done", "calc"}]
  /\ opened = {c \in Clients : pc[c] # "closed"}
  /\ opens \in 0 .. OpensAllowed /\ overlap \in BOOLEAN

\* What every step of a file needs of the invariant.
LEMMA CommonOfIInv == IInv => Common
BY DEF IInv, TypeOK, Common

\* The bound on opens is a number.
LEMMA OpensAllowedIsNat == ASSUME CaseInv PROVE OpensAllowed \in Nat
BY DeviceFilesAssumption DEF CaseInv, OpensAllowed

\* Opening a file, of any module.
LEMMA OpenCommon ==
  ASSUME Common, NEW c \in Clients, NEW d, OpenFile(c, d), UNCHANGED case
  PROVE  /\ Common' /\ driver = d /\ state = "live"
         /\ pc[c] = "closed" /\ pc' = [pc EXCEPT ![c] = "open"]
         /\ UNCHANGED lifeVars /\ opened' = opened \cup {c}
         /\ ~overlap' => ~overlap /\ opened = {} /\ opened' = {c}
<1>1. /\ driver = d /\ state = "live" /\ pc[c] = "closed" /\ pc' = [pc EXCEPT ![c] = "open"]
      /\ UNCHANGED lifeVars /\ opened' = opened \cup {c} /\ opens < OpensAllowed /\ opens' = opens + 1
      /\ overlap' = (overlap \/ opened # {})
  BY DEF OpenFile, Device, Moves
<1>2. OpensAllowed' = OpensAllowed
  BY <1>1 DEF OpensAllowed, lifeVars
<1>3. PICK n \in Nat, m \in Nat : n = OpensAllowed /\ m = opens /\ m \in 0 .. n
  BY OpensAllowedIsNat DEF Common
<1>4. opens' \in 0 .. OpensAllowed'
  <2>1. m + 1 \in 0 .. n
    BY <1>1, <1>3
  <2> QED
    BY <1>1, <1>2, <1>3, <2>1
<1>5. pc' \in [Clients -> {"closed", "open", "copy", "strlen", "wrote", "read",
                         "copied", "done", "calc"}]
      /\ opened' = {x \in Clients : pc'[x] # "closed"}
  BY <1>1 DEF Common
<1>6. LifeTypeOK' /\ NothingReachable' /\ Begun' /\ CaseInv'
  BY <1>1 DEF Common, LifeTypeOK, NothingReachable, Begun, CaseInv, lifeVars, Calls
<1>7. overlap' \in BOOLEAN /\ (~overlap' => ~overlap /\ opened = {})
  BY <1>1
<1>8. Sole' /\ (~overlap' => opened' = {c})
  BY <1>1, <1>7 DEF Sole
<1> QED
  BY <1>1, <1>4, <1>5, <1>6, <1>7, <1>8 DEF Common

\* Closing a file, of any module.
LEMMA CloseCommon ==
  ASSUME Common, NEW c \in Clients, NEW d, NEW from, CloseFile(c, d, from), UNCHANGED case
  PROVE  /\ Common' /\ driver = d /\ state = "live" /\ pc[c] \in from
         /\ pc' = [pc EXCEPT ![c] = "closed"]
         /\ UNCHANGED lifeVars /\ opened' = opened \ {c}
         /\ ~overlap' => ~overlap \/ opened = {c}
         /\ overlap' => overlap
<1>1. /\ driver = d /\ state = "live" /\ pc' = [pc EXCEPT ![c] = "closed"] /\ pc[c] \in from
      /\ UNCHANGED <<lifeVars, opens>> /\ opened' = opened \ {c}
      /\ overlap' = (overlap /\ opened # {c})
  BY DEF CloseFile, Device
<1>2. OpensAllowed' = OpensAllowed
  BY <1>1 DEF OpensAllowed, lifeVars
<1>3. pc' \in [Clients -> {"closed", "open", "copy", "strlen", "wrote", "read",
                         "copied", "done", "calc"}]
      /\ opened' = {x \in Clients : pc'[x] # "closed"}
  BY <1>1 DEF Common
<1>4. LifeTypeOK' /\ NothingReachable' /\ Begun' /\ CaseInv' /\ Sole'
  BY <1>1 DEF Common, LifeTypeOK, NothingReachable, Begun, CaseInv, Sole, lifeVars, Calls
<1>5. overlap' \in BOOLEAN
  BY <1>1
<1> QED
  BY <1>1, <1>2, <1>3, <1>4, <1>5 DEF Common

\* A step of a client in the file it has open; to itself, when to is where it is.
LEMMA StepCommon ==
  ASSUME Common, NEW c \in Clients, state = "live", Alone, UNCHANGED case,
         pc[c] # "closed",
         NEW to \in {"open", "copy", "strlen", "wrote", "read", "copied", "done", "calc"},
         pc' = [pc EXCEPT ![c] = to]
  PROVE  /\ Common' /\ c \in opened /\ UNCHANGED <<lifeVars, opened, overlap>>
         /\ ~overlap' => opened = {c} /\ opened' = {c}
<1>1. /\ UNCHANGED <<lifeVars, opened, opens, overlap>> /\ c \in opened
  BY DEF Alone, Common
<1>2. OpensAllowed' = OpensAllowed
  BY <1>1 DEF OpensAllowed, lifeVars
<1>3. pc' \in [Clients -> {"closed", "open", "copy", "strlen", "wrote", "read",
                         "copied", "done", "calc"}]
      /\ opened' = {x \in Clients : pc'[x] # "closed"}
  BY <1>1 DEF Common
<1>4. LifeTypeOK' /\ NothingReachable' /\ Begun' /\ CaseInv' /\ Sole'
  BY <1>1 DEF Common, LifeTypeOK, NothingReachable, Begun, CaseInv, Sole, lifeVars, Calls
<1>5. ~overlap' => opened = {c} /\ opened' = {c}
  BY <1>1 DEF Common, Sole
<1> QED
  BY <1>1, <1>2, <1>3, <1>4, <1>5 DEF Common

-----------------------------------------------------------------------------
(* Steps of a module as a whole *)

\* Nothing is loaded at first.
LEMMA InitIInv == Init => IInv
<1> SUFFICES ASSUME Init PROVE IInv
  OBVIOUS
<1>1. /\ driver \in Modules /\ state = "absent" /\ registered = {} /\ leaked = {} /\ loads = 0 /\ opened = {}
  BY DEF Init, LifeInit
<1>2. LifeTypeOK
  BY <1>1, CharDevicesAssumption DEF LifeTypeOK
<1>3. CaseInv
  BY DeviceFilesAssumption DEF Init, CaseInv, AnyCase
<1>4. opens \in 0 .. OpensAllowed
  BY <1>3, OpensAllowedIsNat DEF Init
<1>5. TypeOK
  <2>1. 0 \in 0 .. MAX_LENGTH
    BY DeviceFilesAssumption
  <2>2. written \in [expression : {"no", "yes", "unknown"}, text : {"no", "yes", "unknown"}]
        /\ fibLocked \in BOOLEAN /\ overlap \in BOOLEAN
    BY DEF Init, NothingWritten
  <2>3. pc = [c \in Clients |-> "closed"] /\ fPos = 0 /\ size = 0 /\ msgPtr = "start"
    BY DEF Init
  <2> QED
    BY <1>1, <1>2, <1>4, <2>1, <2>2, <2>3 DEF TypeOK
<1>6. NothingReachable /\ Begun /\ Sole /\ FibInv
  BY <1>1 DEF NothingReachable, Begun, Sole, FibInv
<1>7. EchoInv
  BY <1>1 DEF Init, EchoInv, NoReads
<1> QED
  BY <1>3, <1>5, <1>6, <1>7 DEF IInv

\* A call of an init function: no file is open, and static variables start anew.
LEMMA LoadInv == ASSUME IInv, LoadModule PROVE IInv'
<1>1. Load /\ UNCHANGED <<pc, case>> /\ opens' = 0 /\ overlap' = FALSE /\ fibLocked' = FALSE
      /\ fPos' = 0 /\ message' = <<"none", "none">> /\ size' = 0 /\ received' = NoReads
      /\ text' = Nothing /\ msgPtr' = "start" /\ written' = NothingWritten
  BY DEF LoadModule
<1>2. /\ opened' = {} /\ opened = {} /\ LifeTypeOK' /\ NothingReachable' /\ Begun'
  BY <1>1, LoadLife
<1>3. CaseInv'
  BY <1>1 DEF IInv, CaseInv
<1>4. opens' \in 0 .. OpensAllowed'
  <2>1. OpensAllowed' \in Nat
    BY <1>3, DeviceFilesAssumption DEF CaseInv, OpensAllowed
  <2> QED
    BY <1>1, <2>1
<1>5. TypeOK'
  <2>1. 0 \in 0 .. MAX_LENGTH
    BY DeviceFilesAssumption
  <2>2. written' \in [expression : {"no", "yes", "unknown"}, text : {"no", "yes", "unknown"}]
        /\ fibLocked' \in BOOLEAN /\ overlap' \in BOOLEAN
    BY <1>1 DEF NothingWritten
  <2>3. pc' = pc /\ pc \in [Clients -> {"closed", "open", "copy", "strlen", "wrote", "read",
                                      "copied", "done", "calc"}]
        /\ opened' = {c \in Clients : pc'[c] # "closed"}
    BY <1>1, <1>2 DEF IInv, TypeOK
  <2> QED
    BY <1>1, <1>2, <1>4, <2>1, <2>2, <2>3 DEF TypeOK
<1>6. Sole' /\ FibInv'
  BY <1>1, <1>2 DEF Sole, FibInv
<1>7. EchoInv'
  BY <1>1, <1>2 DEF EchoInv, NoReads
<1> QED
  BY <1>2, <1>3, <1>5, <1>6, <1>7 DEF IInv

\* rmmod leaves the files alone; fib's has been closed.
LEMMA UnloadInv == ASSUME IInv, UnloadModule PROVE IInv'
<1>1. Rmmod /\ UNCHANGED fileVars
  BY DEF UnloadModule
<1>2. /\ UNCHANGED <<driver, opened>> /\ state' \in {"absent", "oops"} /\ (driver = "fib" => opened = {})
      /\ LifeTypeOK' /\ NothingReachable' /\ Begun'
  BY <1>1, RmmodLife
<1>3. OpensAllowed' = OpensAllowed /\ CaseInv'
  BY <1>1, <1>2 DEF IInv, CaseInv, OpensAllowed, fileVars, calcVars
<1>4. TypeOK'
  BY <1>1, <1>2, <1>3 DEF IInv, TypeOK, fileVars, fibVars, echoVars, calcVars
<1>5. Sole' /\ FibInv'
  BY <1>1, <1>2 DEF IInv, Sole, FibInv, fileVars, fibVars
<1>6. EchoInv'
  BY <1>1, <1>2 DEF IInv, EchoInv, fileVars, echoVars
<1> QED
  BY <1>2, <1>3, <1>4, <1>5, <1>6 DEF IInv

\* A file used after its module is gone.
LEMMA UseInv == ASSUME IInv, NEW c \in Clients, UseAfterUnload(c) PROVE IInv'
<1>1. /\ state = "absent" /\ c \in opened /\ state' = "oops"
      /\ UNCHANGED <<driver, registered, leaked, loads, opened, fileVars>>
  BY DEF UseAfterUnload
<1>2. driver # "fib"
  BY <1>1 DEF IInv, FibInv
<1>3. OpensAllowed' = OpensAllowed /\ CaseInv'
  BY <1>1 DEF IInv, CaseInv, OpensAllowed, fileVars, calcVars
<1>4. LifeTypeOK' /\ NothingReachable' /\ Begun'
  BY <1>1 DEF IInv, TypeOK, LifeTypeOK, NothingReachable, Begun
<1>5. TypeOK'
  BY <1>1, <1>3, <1>4 DEF IInv, TypeOK, fileVars, fibVars, echoVars, calcVars
<1>6. Sole' /\ FibInv'
  BY <1>1, <1>2 DEF IInv, Sole, FibInv, fileVars
<1>7. EchoInv'
  BY <1>1 DEF IInv, EchoInv, fileVars, echoVars
<1> QED
  BY <1>3, <1>4, <1>5, <1>6, <1>7 DEF IInv

-----------------------------------------------------------------------------
(* fibdrv.c *)

\* The clamps of lseek keep the position among the numbers there are.
LEMMA Clamped ==
  ASSUME NEW n \in Nat, NEW pos \in Int
  PROVE  Max({0, Min({pos, n})}) \in 0 .. n
<1>1. PICK low : low = Min({pos, n})
  OBVIOUS
<1>2. low \in Int /\ low <= n
  <2>1. \E x \in {pos, n} : \A y \in {pos, n} : x <= y
    OBVIOUS
  <2> QED
    BY <1>1, <2>1 DEF Min
<1>3. \E x \in {0, low} : \A y \in {0, low} : x >= y
  BY <1>2
<1>4. Max({0, low}) \in {0, low} /\ Max({0, low}) >= 0
  BY <1>2, <1>3 DEF Max
<1> QED
  BY <1>1, <1>2, <1>4

\* fib_open finds the lock free, so no file is open.
LEMMA FibOpenInv == ASSUME IInv, NEW c \in Clients, fib_open(c) PROVE IInv'
<1>1. /\ OpenFile(c, "fib") /\ ~fibLocked /\ fibLocked' = TRUE /\ fPos' = 0
      /\ UNCHANGED <<echoVars, calcVars>>
  BY DEF fib_open
<1>2. /\ Common' /\ driver = "fib" /\ state = "live" /\ pc' = [pc EXCEPT ![c] = "open"]
      /\ UNCHANGED lifeVars /\ opened' = opened \cup {c}
  BY <1>1, CommonOfIInv, OpenCommon DEF calcVars
<1>3. opened = {} /\ opened' = {c} /\ pc'[c] = "open"
  BY <1>1, <1>2 DEF IInv, FibInv, TypeOK
<1>4. FibInv'
  BY <1>1, <1>2, <1>3 DEF FibInv, lifeVars
<1>5. EchoInv'
  BY <1>1, <1>2 DEF IInv, EchoInv, echoVars, lifeVars
<1>6. 0 \in 0 .. MAX_LENGTH
  BY DeviceFilesAssumption
<1>7. TypeOK'
  BY <1>1, <1>2, <1>6 DEF IInv, TypeOK, Common, echoVars, calcVars
<1> QED
  BY <1>2, <1>4, <1>5, <1>7 DEF IInv, Common

\* fib_release was called by the one file.
LEMMA FibReleaseInv == ASSUME IInv, NEW c \in Clients, fib_release(c) PROVE IInv'
<1>1. /\ CloseFile(c, "fib", {"open"}) /\ fibLocked' = FALSE
      /\ UNCHANGED <<fPos, echoVars, calcVars>>
  BY DEF fib_release
<1>2. /\ Common' /\ driver = "fib" /\ state = "live" /\ pc[c] = "open" /\ pc' = [pc EXCEPT ![c] = "closed"]
      /\ UNCHANGED lifeVars /\ opened' = opened \ {c}
  BY <1>1, CommonOfIInv, CloseCommon DEF calcVars
<1>3. opened' = {}
  BY <1>2 DEF IInv, FibInv, TypeOK
<1>4. FibInv'
  BY <1>1, <1>2, <1>3 DEF FibInv
<1>5. EchoInv'
  BY <1>1, <1>2 DEF IInv, EchoInv, echoVars, lifeVars
<1>6. TypeOK'
  BY <1>1, <1>2 DEF IInv, TypeOK, Common, echoVars, calcVars
<1> QED
  BY <1>2, <1>4, <1>5, <1>6 DEF IInv, Common

\* fib_device_lseek keeps the position within the numbers.
LEMMA FibSeekInv ==
  ASSUME IInv, NEW c \in Clients, NEW o \in Offsets, NEW w \in Whences, fib_device_lseek(c, o, w)
  PROVE  IInv'
<1> DEFINE pos == CASE w = "SEEK_SET" -> o
                    [] w = "SEEK_CUR" -> fPos + o
                    [] w = "SEEK_END" -> MAX_LENGTH - o
<1>1. /\ driver = "fib" /\ state = "live" /\ pc[c] = "open" /\ fPos' = Max({0, Min({pos, MAX_LENGTH})})
      /\ Alone /\ UNCHANGED <<pc, fibLocked, echoVars, calcVars>>
  BY DEF fib_device_lseek, Device
<1>2. pc' = [pc EXCEPT ![c] = "open"]
  BY <1>1 DEF IInv, TypeOK
<1>3. /\ Common' /\ UNCHANGED <<lifeVars, opened>>
  BY <1>1, <1>2, CommonOfIInv, StepCommon DEF calcVars
<1>4. pos \in Int
  <2>1. o \in Int /\ MAX_LENGTH \in Int /\ fPos \in Int
    BY DeviceFilesAssumption DEF IInv, TypeOK
  <2> QED
    BY <2>1 DEF Whences
<1> HIDE DEF pos
<1>5. fPos' \in 0 .. MAX_LENGTH
  BY <1>1, <1>4, Clamped, DeviceFilesAssumption
<1>6. FibInv'
  BY <1>1, <1>3 DEF IInv, FibInv, lifeVars
<1>7. EchoInv'
  BY <1>1, <1>3 DEF IInv, EchoInv, echoVars, lifeVars
<1>8. TypeOK'
  BY <1>1, <1>3, <1>5 DEF IInv, TypeOK, Common, echoVars, calcVars
<1> QED
  BY <1>3, <1>6, <1>7, <1>8 DEF IInv, Common

-----------------------------------------------------------------------------
(* echo.c *)

\* echo_open: a client that overlaps nobody starts with no half written.
LEMMA EchoOpenInv == ASSUME IInv, NEW c \in Clients, echo_open(c) PROVE IInv'
<1>1. /\ OpenFile(c, "echo") /\ received' = [received EXCEPT ![c] = <<>>]
      /\ UNCHANGED <<message, size, fibVars, calcVars>>
  BY DEF echo_open
<1>2. /\ Common' /\ driver = "echo" /\ pc' = [pc EXCEPT ![c] = "open"] /\ UNCHANGED lifeVars
      /\ (~overlap' => ~overlap /\ opened = {} /\ opened' = {c})
  BY <1>1, CommonOfIInv, OpenCommon DEF calcVars
<1>3. pc'[c] = "open"
  BY <1>2 DEF IInv, TypeOK
<1>4. EchoInv'
  <2>1. DOMAIN received' = Clients /\ message' = <<message'[1], message'[2]>>
    BY <1>1 DEF IInv, EchoInv
  <2> QED
    BY <1>2, <1>3, <2>1 DEF EchoInv
<1>5. FibInv'
  BY <1>2 DEF FibInv, lifeVars
<1>6. TypeOK'
  BY <1>1, <1>2 DEF IInv, TypeOK, Common, fibVars, calcVars
<1> QED
  BY <1>2, <1>4, <1>5, <1>6 DEF IInv, Common

\* echo_write, half by half, then the size.
LEMMA EchoWriteInv == ASSUME IInv, NEW c \in Clients, echo_write(c) PROVE IInv'
<1>1. /\ driver = "echo" /\ state = "live" /\ Alone /\ UNCHANGED <<received, fibVars, calcVars>>
  BY DEF echo_write, Device
<1>2. PICK to \in {"copy", "strlen", "wrote"} : pc' = [pc EXCEPT ![c] = to]
  BY DEF echo_write, Moves
<1>3. pc[c] # "closed" /\ pc'[c] = to
  BY <1>2 DEF echo_write, Moves, IInv, TypeOK
<1>4. /\ Common' /\ c \in opened /\ UNCHANGED <<lifeVars, opened, overlap>>
      /\ (~overlap' => opened = {c} /\ opened' = {c})
  BY <1>1, <1>2, <1>3, CommonOfIInv, StepCommon DEF calcVars
<1>5. \/ pc[c] = "open" /\ to = "copy" /\ message' = [message EXCEPT ![1] = c] /\ size' = size
      \/ pc[c] = "copy" /\ to = "strlen" /\ message' = [message EXCEPT ![2] = c] /\ size' = size
      \/ pc[c] = "strlen" /\ to = "wrote" /\ size' = 2 /\ message' = message
  BY <1>2, <1>3 DEF echo_write, Moves, IInv, TypeOK
<1>6. EchoInv'
  <2>1. DOMAIN received' = Clients /\ message' = <<message'[1], message'[2]>>
    BY <1>1, <1>5 DEF IInv, EchoInv
  <2>2. ASSUME ~overlap' PROVE driver' = "echo" /\ ~overlap /\ opened' = {c}
    BY <1>1, <1>4, <2>2 DEF lifeVars
  <2>3. ASSUME ~overlap' PROVE to = "copy" => message'[1] = c
    BY <1>5 DEF IInv, EchoInv
  <2>4. ASSUME ~overlap' PROVE to \in {"strlen", "wrote"} => message' = <<c, c>>
    BY <1>1, <1>4, <1>5, <2>2, <2>4 DEF IInv, EchoInv
  <2> QED
    BY <1>3, <1>5, <2>1, <2>2, <2>3, <2>4 DEF EchoInv
<1>7. FibInv'
  BY <1>1, <1>4 DEF FibInv, lifeVars
<1>8. TypeOK'
  BY <1>1, <1>4, <1>5 DEF IInv, TypeOK, Common, fibVars, calcVars
<1> QED
  BY <1>4, <1>6, <1>7, <1>8 DEF IInv, Common

\* echo_read copies the halves that were written, then resets the size.
LEMMA EchoReadInv == ASSUME IInv, NEW c \in Clients, echo_read(c) PROVE IInv'
<1>1. /\ driver = "echo" /\ state = "live" /\ Alone /\ UNCHANGED <<message, fibVars, calcVars>>
  BY DEF echo_read, Device
<1>2. PICK to \in {"read", "copied", "done"} : pc' = [pc EXCEPT ![c] = to]
  BY DEF echo_read, Moves
<1>3. pc[c] # "closed" /\ pc'[c] = to
  BY <1>2 DEF echo_read, Moves, IInv, TypeOK
<1>4. /\ Common' /\ c \in opened /\ UNCHANGED <<lifeVars, opened, overlap>>
      /\ (~overlap' => opened = {c} /\ opened' = {c})
  BY <1>1, <1>2, <1>3, CommonOfIInv, StepCommon DEF calcVars
<1>5. \/ /\ pc[c] = "wrote" /\ to = (IF size = 0 THEN "copied" ELSE "read") /\ size' = size
         /\ received' = [received EXCEPT ![c] = SubSeq(message, 1, Min({size, 1}))]
      \/ /\ pc[c] = "read" /\ to = "copied" /\ size' = size
         /\ received' = [received EXCEPT ![c] = Append(received[c], message[2])]
      \/ pc[c] = "copied" /\ to = "done" /\ size' = 0 /\ received' = received
  BY <1>2, <1>3 DEF echo_read, Moves, IInv, TypeOK
<1>6. EchoInv'
  <2>1. DOMAIN received' = Clients /\ message' = <<message'[1], message'[2]>>
    BY <1>1, <1>5 DEF IInv, EchoInv
  <2>2. ASSUME ~overlap' PROVE driver' = "echo" /\ ~overlap /\ opened' = {c}
    BY <1>1, <1>4, <2>2 DEF lifeVars
  <2>3. ASSUME ~overlap', pc[c] = "wrote"
        PROVE  to = "read" /\ message = <<c, c>> /\ message' = <<c, c>> /\ received'[c] = <<c>>
    <3>1. message = <<c, c>> /\ size = 2
      BY <1>1, <1>4, <2>2, <2>3 DEF IInv, EchoInv
    <3>2. Min({2, 1}) = 1
      <4>1. \E x \in {2, 1} : \A y \in {2, 1} : x <= y
        OBVIOUS
      <4>2. Min({2, 1}) \in {2, 1} /\ \A y \in {2, 1} : Min({2, 1}) <= y
        BY <4>1 DEF Min
      <4> QED
        BY <4>2
    <3>3. SubSeq(<<c, c>>, 1, 1) = <<c>>
      <4>1. <<c, c>> \in Seq({c}) /\ <<c>> \in Seq({c})
        OBVIOUS
      <4>2. Len(SubSeq(<<c, c>>, 1, 1)) = 1 /\ SubSeq(<<c, c>>, 1, 1)[1] = c
        BY <4>1
      <4>3. SubSeq(<<c, c>>, 1, 1) \in Seq({c})
        BY <4>1
      <4>4. \A s \in Seq({c}) : Len(s) = 1 /\ s[1] = c => s = [i \in 1 .. 1 |-> c]
        OBVIOUS
      <4>5. <<c>> = [i \in 1 .. 1 |-> c]
        BY <4>1, <4>4
      <4> QED
        BY <4>2, <4>3, <4>4, <4>5
    <3> QED
      BY <1>1, <1>5, <2>3, <3>1, <3>2, <3>3 DEF IInv, EchoInv
  <2>4. ASSUME ~overlap', pc[c] = "read"
        PROVE  to = "copied" /\ received'[c] = <<c, c>>
    <3>1. message = <<c, c>> /\ received[c] = <<c>>
      BY <1>1, <1>4, <2>2, <2>4 DEF IInv, EchoInv
    <3> QED
      BY <1>5, <2>4, <3>1 DEF IInv, EchoInv
  <2>5. ASSUME ~overlap', pc[c] = "copied"
        PROVE  to = "done" /\ received'[c] = <<c, c>>
    BY <1>1, <1>4, <1>5, <2>2, <2>5 DEF IInv, EchoInv
  <2> QED
    BY <1>3, <1>5, <2>1, <2>2, <2>3, <2>4, <2>5 DEF EchoInv
<1>7. FibInv'
  BY <1>1, <1>4 DEF FibInv, lifeVars
<1>8. TypeOK'
  BY <1>1, <1>4, <1>5 DEF IInv, TypeOK, Common, fibVars, calcVars
<1> QED
  BY <1>4, <1>6, <1>7, <1>8 DEF IInv, Common

\* echo_release leaves the message as it is.
LEMMA EchoReleaseInv == ASSUME IInv, NEW c \in Clients, echo_release(c) PROVE IInv'
<1>1. /\ CloseFile(c, "echo", {"open", "wrote", "done"}) /\ UNCHANGED <<echoVars, fibVars, calcVars>>
  BY DEF echo_release
<1>2. /\ Common' /\ driver = "echo" /\ pc' = [pc EXCEPT ![c] = "closed"]
      /\ UNCHANGED lifeVars /\ opened' = opened \ {c} /\ (~overlap' => ~overlap \/ opened' = {})
  BY <1>1, CommonOfIInv, CloseCommon DEF calcVars
<1>3. \A d \in opened' : d \in opened /\ pc'[d] = pc[d]
  BY <1>2 DEF IInv, TypeOK
<1>4. EchoInv'
  BY <1>1, <1>2, <1>3 DEF IInv, EchoInv, echoVars, lifeVars
<1>5. FibInv'
  BY <1>2 DEF FibInv, lifeVars
<1>6. TypeOK'
  BY <1>1, <1>2 DEF IInv, TypeOK, Common, echoVars, fibVars, calcVars
<1> QED
  BY <1>2, <1>4, <1>5, <1>6 DEF IInv, Common

-----------------------------------------------------------------------------
(* main.c of kcalc: what does not depend on the message *)

\* dev_open keeps what the three drivers have in common.
LEMMA CalcOpenInv == ASSUME IInv, NEW c \in Clients, dev_open(c) PROVE IInv'
<1>1. /\ OpenFile(c, "calc") /\ msgPtr' = "start" /\ UNCHANGED <<case, fibVars, echoVars>>
      /\ written' \in {Unknown, written}
  BY DEF dev_open
<1>2. /\ Common' /\ driver = "calc" /\ UNCHANGED lifeVars
  BY <1>1, CommonOfIInv, OpenCommon
<1>3. EchoInv' /\ FibInv'
  BY <1>1, <1>2 DEF IInv, EchoInv, FibInv, echoVars, lifeVars
<1>4. TypeOK'
  BY <1>1, <1>2 DEF IInv, TypeOK, Common, fibVars, echoVars, Unknown
<1> QED
  BY <1>2, <1>3, <1>4 DEF IInv, Common

\* dev_release likewise.
LEMMA CalcReleaseInv == ASSUME IInv, NEW c \in Clients, dev_release(c) PROVE IInv'
<1>1. /\ CloseFile(c, "calc", {"open", "done"}) /\ UNCHANGED <<calcVars, fibVars, echoVars>>
  BY DEF dev_release
<1>2. /\ Common' /\ driver = "calc" /\ UNCHANGED lifeVars
  BY <1>1, CommonOfIInv, CloseCommon DEF calcVars
<1>3. EchoInv' /\ FibInv'
  BY <1>1, <1>2 DEF IInv, EchoInv, FibInv, echoVars, lifeVars
<1>4. TypeOK'
  BY <1>1, <1>2 DEF IInv, TypeOK, Common, fibVars, echoVars, calcVars
<1> QED
  BY <1>2, <1>3, <1>4 DEF IInv, Common

\* Likewise the handlers of the calculator between open and release.
LEMMA CalcStepInv ==
  ASSUME IInv, NEW c \in Clients, dev_write(c) \/ calc(c) \/ dev_read(c)
  PROVE  IInv' /\ driver = "calc" /\ c \in opened /\ UNCHANGED <<lifeVars, opened, overlap>>
         /\ (~overlap' => opened = {c} /\ opened' = {c})
<1>1. /\ driver = "calc" /\ state = "live" /\ Alone /\ UNCHANGED <<case, fibVars, echoVars>>
  BY DEF dev_write, calc, dev_read, Device
<1>2. PICK to \in {"open", "copy", "calc", "done"} : pc' = [pc EXCEPT ![c] = to]
  <2>1. CASE pc' = pc
    <3>1. pc[c] = "open"
      BY <2>1 DEF dev_write, calc, dev_read, Moves, IInv, TypeOK
    <3>2. pc' = [pc EXCEPT ![c] = "open"]
      BY <2>1, <3>1 DEF IInv, TypeOK
    <3> QED
      BY <3>2
  <2>2. CASE pc' # pc
    BY <2>2 DEF dev_write, calc, dev_read, Moves
  <2> QED
    BY <2>1, <2>2
<1>3. pc[c] # "closed"
  BY DEF dev_write, calc, dev_read, Moves
<1>4. /\ Common' /\ c \in opened /\ UNCHANGED <<lifeVars, opened, overlap>>
      /\ (~overlap' => opened = {c} /\ opened' = {c})
  BY <1>1, <1>2, <1>3, CommonOfIInv, StepCommon
<1>5. EchoInv' /\ FibInv'
  BY <1>1, <1>4 DEF IInv, EchoInv, FibInv, echoVars, lifeVars
<1>6. written' \in [expression : {"no", "yes", "unknown"}, text : {"no", "yes", "unknown"}]
  <2>1. CASE written' \in {written, Unknown}
    BY <2>1 DEF IInv, TypeOK, Unknown
  <2>2. CASE written' = [written EXCEPT !.text = "no"]
    BY <2>2 DEF IInv, TypeOK
  <2>3. CASE written' \in {[text |-> "yes", expression |-> "yes"],
                          [text |-> "yes", expression |-> written.expression]}
    BY <2>3 DEF IInv, TypeOK
  <2> QED
    BY <2>1, <2>2, <2>3 DEF dev_write, calc, dev_read
<1>7. msgPtr' \in {"start", "end", "stale"}
  BY DEF dev_write, KeepPlace, calc, dev_read, PlaceAfter, IInv, TypeOK
<1>8. TypeOK'
  BY <1>1, <1>4, <1>6, <1>7 DEF IInv, TypeOK, Common, fibVars, echoVars
<1> QED
  BY <1>1, <1>4, <1>5, <1>8 DEF IInv, Common

-----------------------------------------------------------------------------
\* Every step keeps the invariant.
LEMMA NextIInv == IInv /\ [Next]_vars => IInv'
<1> SUFFICES ASSUME IInv, [Next]_vars PROVE IInv'
  OBVIOUS
<1>1. CASE UNCHANGED vars
  <2>1. OpensAllowed' = OpensAllowed
    BY <1>1 DEF OpensAllowed, vars, lifeVars, fileVars, calcVars
  <2>2. TypeOK'
    BY <1>1, <2>1 DEF IInv, TypeOK, LifeTypeOK, vars, lifeVars, fileVars, fibVars, echoVars, calcVars
  <2>3. NothingReachable' /\ Begun' /\ Sole' /\ CaseInv'
    BY <1>1 DEF IInv, NothingReachable, Begun, Called, Sole, CaseInv, vars, lifeVars, fileVars, calcVars
  <2>4. FibInv' /\ EchoInv'
    BY <1>1 DEF IInv, FibInv, EchoInv, vars, lifeVars, fileVars, fibVars, echoVars
  <2> QED
    BY <2>2, <2>3, <2>4 DEF IInv
<1>2. CASE LoadModule \/ UnloadModule
  BY <1>2, LoadInv, UnloadInv
<1>3. ASSUME NEW c \in Clients, UseAfterUnload(c) PROVE IInv'
  BY <1>3, UseInv
<1>4. ASSUME NEW c \in Clients,
             \/ fib_open(c) \/ fib_release(c)
             \/ \E o \in Offsets, w \in Whences : fib_device_lseek(c, o, w)
      PROVE  IInv'
  BY <1>4, FibOpenInv, FibReleaseInv, FibSeekInv
<1>5. ASSUME NEW c \in Clients, echo_open(c) \/ echo_write(c) \/ echo_read(c) \/ echo_release(c)
      PROVE  IInv'
  BY <1>5, EchoOpenInv, EchoWriteInv, EchoReadInv, EchoReleaseInv
<1>6. ASSUME NEW c \in Clients,
             dev_open(c) \/ dev_write(c) \/ calc(c) \/ dev_read(c) \/ dev_release(c)
      PROVE  IInv'
  BY <1>6, CalcOpenInv, CalcStepInv, CalcReleaseInv
<1> QED
  BY <1>1, <1>2, <1>3, <1>4, <1>5, <1>6 DEF Next

\* The invariant of the drivers.
THEOREM SpecIInv == Spec => []IInv
BY InitIInv, NextIInv, PTL DEF Spec

\* Every variable of the drivers keeps its type: at every load the positions, sizes and
\* places in the handlers of echo.c, fibdrv.c and main.c are among those they know.
THEOREM SpecTypeOK == Spec => []TypeOK
<1>1. IInv => TypeOK
  BY DEF IInv
<1> QED
  BY <1>1, SpecIInv, PTL

\* Whichever call of init_fib_dev, echo_init or calc_init fails, and however often it is
\* tried, no device, class or cdev is left behind.
THEOREM SpecNothingReachable == Spec => []NothingReachable
<1>1. IInv => NothingReachable
  BY DEF IInv
<1> QED
  BY <1>1, SpecIInv, PTL

\* fib_open lets one file at a time in, for any number of processes, and the module
\* stays while it is open.
THEOREM SpecFibExclusive == Spec => []FibExclusive
<1>1. ASSUME IInv PROVE FibExclusive
  <2>1. SUFFICES ASSUME driver = "fib" PROVE Cardinality(opened) <= 1
    BY <1>1 DEF IInv, FibInv, FibExclusive
  <2>2. \A c, d \in opened : c = d
    BY <1>1, <2>1 DEF IInv, FibInv
  <2>3. CASE opened = {}
    BY <2>3, FS_EmptySet
  <2>4. CASE opened # {}
    <3>1. PICK c : opened = {c}
      BY <2>2, <2>4
    <3> QED
      BY <3>1, FS_Singleton
  <2> QED
    BY <2>3, <2>4
<1> QED
  BY <1>1, SpecIInv, PTL

\* A client of echo that no other overlaps reads what it wrote, whatever earlier clients,
\* those that did overlap or died half way included, left in the message and its size, for
\* any number of clients and loads.
THEOREM SpecEchoesOwn == Spec => []EchoesOwn
<1>1. ASSUME IInv PROVE EchoesOwn
  BY <1>1 DEF IInv, TypeOK, EchoInv, EchoesOwn
<1> QED
  BY <1>1, SpecIInv, PTL

-----------------------------------------------------------------------------
(* The calculator's answers *)

\* The answer read second.
LEMMA SecondOf == ASSUME NEW x, NEW y PROVE Append(<<x>>, y) = <<x, y>>
<1>1. <<x>> \in Seq({x, y}) /\ <<x, y>> \in Seq({x, y})
  OBVIOUS
<1>2. /\ Append(<<x>>, y) \in Seq({x, y}) /\ Len(Append(<<x>>, y)) = 2
      /\ Append(<<x>>, y)[1] = x /\ Append(<<x>>, y)[2] = y
  BY <1>1
<1>3. \A s \in Seq({x, y}) : Len(s) = 2 /\ s[1] = x /\ s[2] = y => s = [i \in 1 .. 2 |-> IF i = 1 THEN x ELSE y]
  OBVIOUS
<1>4. <<x, y>> = [i \in 1 .. 2 |-> IF i = 1 THEN x ELSE y]
  BY <1>1, <1>3
<1> QED
  BY <1>2, <1>3, <1>4

\* A step that leaves the message and the place of every open file alone.
LEMMA CalcUntouched ==
  ASSUME CalcInv, UNCHANGED <<driver, overlap, calcVars, pc>>, opened' = opened
  PROVE  CalcInv'
<1>1. UNCHANGED <<driver, overlap, case, text, msgPtr, result, answers, written, pc, opened>>
  BY DEF calcVars
<1>2. Settled' = Settled /\ IsAnswer(result)' = IsAnswer(result)
  BY <1>1 DEF Settled, IsAnswer
<1>3. \A c \in opened : CalcPlace(c) => CalcPlace(c)'
  BY <1>1, <1>2 DEF CalcPlace, Reading, First
<1> QED
  BY <1>1, <1>2, <1>3 DEF CalcInv

\* The message as the module is loaded.
LEMMA CalcFresh ==
  ASSUME opened = {}, text = Nothing, result = 0, answers = NoReads,
         written = NothingWritten, ~overlap
  PROVE  CalcInv
BY DEF CalcInv, Settled, IsAnswer, NoReads, NothingWritten

\* A load clears the calculator's message and result.
LEMMA CalcFreshNext ==
  ASSUME opened' = {}, text' = Nothing, result' = 0, answers' = NoReads,
         written' = NothingWritten, ~overlap'
  PROVE  CalcInv'
BY DEF CalcInv, Settled, IsAnswer, NoReads, NothingWritten

\* A file that opens alone reads from the start, whatever it finds; one that opens
\* beside another leaves everything unknown.
LEMMA CalcOpen == ASSUME IInv, CalcInv, NEW c \in Clients, dev_open(c) PROVE CalcInv'
<1>1. /\ OpenFile(c, "calc") /\ msgPtr' = "start" /\ answers' = [answers EXCEPT ![c] = <<>>]
      /\ UNCHANGED <<case, text, result>> /\ written' = IF overlap' THEN Unknown ELSE written
  BY DEF dev_open
<1>2. /\ driver = "calc" /\ driver' = driver /\ pc' = [pc EXCEPT ![c] = "open"]
      /\ (~overlap' => ~overlap /\ opened = {} /\ opened' = {c})
  BY <1>1, CommonOfIInv, OpenCommon DEF lifeVars
<1>3. pc'[c] = "open" /\ answers'[c] = <<>> /\ DOMAIN answers' = Clients
  BY <1>1, <1>2 DEF IInv, TypeOK, CalcInv
<1>4. ASSUME ~overlap' PROVE Settled'
  <2>1. Settled /\ written' = written
    BY <1>1, <1>2, <1>4 DEF CalcInv
  <2> QED
    BY <1>1, <2>1 DEF Settled, IsAnswer
<1>5. CalcPlace(c)'
  BY <1>1, <1>3 DEF CalcPlace, Reading
<1> QED
  BY <1>1, <1>2, <1>3, <1>4, <1>5 DEF CalcInv

\* A file that closes alone leaves the message settled; the last of several that
\* overlapped leaves nothing to be promised.
LEMMA CalcRelease == ASSUME IInv, CalcInv, NEW c \in Clients, dev_release(c) PROVE CalcInv'
<1>1. /\ CloseFile(c, "calc", {"open", "done"})
      /\ UNCHANGED <<case, text, msgPtr, result, answers, written>>
  BY DEF dev_release, calcVars
<1>2. /\ driver = "calc" /\ driver' = driver /\ pc[c] \in {"open", "done"}
      /\ opened' = opened \ {c} /\ (overlap' => overlap) /\ (~overlap' => ~overlap \/ opened = {c})
  BY <1>1, CommonOfIInv, CloseCommon DEF lifeVars
<1>3. ASSUME ~overlap' PROVE opened' = {} /\ Settled
  <2>1. c \in opened
    BY <1>2 DEF IInv, TypeOK
  <2>2. opened = {c}
    BY <1>2, <1>3, <2>1 DEF IInv, Sole
  <2>3. CASE overlap
    <3>1. written.expression = "unknown" /\ written.text = "unknown"
      BY <1>2, <2>3 DEF CalcInv, Unknown
    <3>2. IsAnswer(result)
      BY <3>1 DEF IsAnswer
    <3> QED
      BY <1>2, <2>2, <3>1, <3>2 DEF Settled
  <2>4. CASE ~overlap
    BY <1>2, <2>2, <2>4 DEF CalcInv
  <2> QED
    BY <1>2, <2>2, <2>3, <2>4
<1>4. Settled' = Settled
  BY <1>1 DEF Settled, IsAnswer
<1> QED
  BY <1>1, <1>2, <1>3, <1>4 DEF CalcInv

\* dev_write replaces the message by the expression, by the other text or by nothing.
LEMMA CalcWrite ==
  ASSUME ExpressionsRight, IInv, CalcInv, NEW c \in Clients, dev_write(c)
  PROVE  CalcInv'
<1>1. /\ driver = "calc" /\ c \in opened /\ UNCHANGED <<lifeVars, opened, overlap>>
      /\ (~overlap' => opened = {c} /\ opened' = {c})
  BY CalcStepInv
<1>2. pc[c] = "open" /\ answers[c] = <<>> /\ UNCHANGED <<case, result, answers>>
  BY DEF dev_write, Moves
<1>3. overlap' => written' = Unknown
  BY <1>1 DEF dev_write
<1> SUFFICES ASSUME ~overlap' PROVE CalcInv'
  BY <1>2, <1>3 DEF CalcInv
<1>4. /\ opened' = {c} /\ opened = {c} /\ driver' = "calc" /\ answers'[c] = <<>>
      /\ DOMAIN answers' = Clients /\ ~overlap
  BY <1>1, <1>2 DEF CalcInv, lifeVars
<1>5. Settled
  BY <1>1, <1>2, <1>4 DEF CalcInv
<1>6. CASE Moves(c, "open", "calc")
  <2>1. PICK t \in {case.text, case.bad} :
          /\ text' = Expr(t)
          /\ written' = [text |-> "yes",
                         expression |-> IF t = case.text THEN "yes" ELSE written.expression]
    BY <1>2, <1>4, <1>6 DEF dev_write, Moves, IInv, TypeOK
  <2>2. pc'[c] = "calc"
    BY <1>6 DEF Moves, IInv, TypeOK
  <2>3. written'.text = "yes" /\ written'.expression = IF t = case.text THEN "yes" ELSE written.expression
    BY <2>1
  <2>4. CalcPlace(c)'
    <3>1. CASE t = case.text
      BY <1>2, <1>4, <2>1, <2>2, <2>3, <3>1 DEF CalcPlace
    <3>2. CASE t # case.text
      <4>1. text' = Expr(case'.bad) /\ IsAnswer(result)'
        BY <1>2, <1>5, <2>1, <2>3, <3>2 DEF Settled, IsAnswer
      <4> QED
        BY <1>4, <2>2, <2>3, <4>1 DEF CalcPlace
    <3> QED
      BY <3>1, <3>2
  <2> QED
    BY <1>4, <2>2, <2>4 DEF CalcInv
<1>7. CASE ~Moves(c, "open", "calc")
  <2>1. pc'[c] = "done" /\ text' = Nothing /\ written' = [written EXCEPT !.text = "no"]
    BY <1>4, <1>7 DEF dev_write, Moves, IInv, TypeOK
  <2>2. written'.text = "no" /\ written'.expression = written.expression
    BY <2>1 DEF IInv, TypeOK
  <2>3. Settled'
    BY <1>2, <1>5, <2>1, <2>2 DEF Settled, IsAnswer
  <2>4. CalcPlace(c)'
    BY <1>4, <2>1 DEF CalcPlace
  <2> QED
    BY <1>4, <2>3, <2>4 DEF CalcInv
<1> QED
  BY <1>6, <1>7

\* calc evaluates the expression that was written, and keeps the result for the other text.
LEMMA CalcCalc ==
  ASSUME ExpressionsRight, IInv, CalcInv, NEW c \in Clients, calc(c)
  PROVE  CalcInv'
<1>1. /\ driver = "calc" /\ c \in opened /\ UNCHANGED <<lifeVars, opened, overlap>>
      /\ (~overlap' => opened = {c} /\ opened' = {c})
  BY CalcStepInv
<1>2. /\ pc[c] = "calc" /\ pc'[c] = "done" /\ UNCHANGED <<case, text, msgPtr, answers, written>>
  BY DEF calc, Moves, IInv, TypeOK
<1>3. result' = CASE text.kind = "nothing" -> 0
                  [] text.kind = "answer" -> ResultOfDigits(text.answer)
                  [] text.kind = "expression" ->
                       IF IsExpression(text.tokens) THEN ResultOf(text.tokens) ELSE result
  BY DEF calc
<1> SUFFICES ASSUME ~overlap' PROVE CalcInv'
  BY <1>1, <1>2 DEF CalcInv
<1>4. opened' = {c} /\ ~overlap /\ driver' = "calc" /\ DOMAIN answers' = Clients
  BY <1>1, <1>2 DEF CalcInv, lifeVars
<1>5. /\ answers[c] = <<>> /\ written.text = "yes"
      /\ \/ text = Expr(case.text) /\ written.expression = "yes"
         \/ text = Expr(case.bad) /\ IsAnswer(result)
  BY <1>1, <1>2, <1>4 DEF CalcInv, CalcPlace
<1>6. text.kind = "expression"
  BY <1>5 DEF Expr
<1>7. result' = IF IsExpression(text.tokens) THEN ResultOf(text.tokens) ELSE result
  BY <1>3, <1>6
<1>8. IsAnswer(result')
  <2>1. CASE text = Expr(case.text) /\ written.expression = "yes"
    BY <1>7, <2>1 DEF ExpressionsRight, Expr, IsAnswer, IInv, CaseInv
  <2>2. CASE text = Expr(case.bad) /\ IsAnswer(result)
    BY <1>7, <2>2 DEF ExpressionsRight, Expr, IInv, CaseInv
  <2> QED
    BY <1>5, <2>1, <2>2
<1>9. Settled'
  BY <1>2, <1>5, <1>6, <1>8 DEF Settled, IsAnswer, Nothing
<1>10. CalcPlace(c)'
  BY <1>2, <1>5 DEF CalcPlace
<1> QED
  BY <1>4, <1>9, <1>10 DEF CalcInv

\* dev_read answers with the result, then with end of file.
LEMMA CalcRead ==
  ASSUME IInv, CalcInv, NEW c \in Clients, dev_read(c)
  PROVE  CalcInv'
<1>1. /\ driver = "calc" /\ c \in opened /\ UNCHANGED <<lifeVars, opened, overlap>>
      /\ (~overlap' => opened = {c} /\ opened' = {c})
  BY CalcStepInv
<1>2. Len(answers[c]) < 2 /\ UNCHANGED <<case, result, written>>
  BY DEF dev_read
<1>3. DOMAIN answers' = Clients
  BY DEF dev_read, CalcInv
<1> SUFFICES ASSUME ~overlap' PROVE CalcInv'
  BY <1>1, <1>2, <1>3 DEF CalcInv
<1>4. opened' = {c} /\ opened = {c} /\ driver' = "calc" /\ ~overlap
  BY <1>1 DEF lifeVars
<1>5. pc[c] \in {"open", "copy"} /\ Settled
  <2>1. pc[c] \in {"open", "copy"}
    BY DEF dev_read, Moves
  <2> QED
    BY <1>1, <1>4, <2>1 DEF CalcInv
<1>6. CalcPlace(c)
  BY <1>1, <1>4 DEF CalcInv
<1>7. CASE /\ pc[c] = "open" /\ TRUE \in AtEnd
           /\ answers' = [answers EXCEPT ![c] = Append(@, Nothing)] /\ UNCHANGED <<pc, text, msgPtr>>
  <2>1. answers'[c] = Append(answers[c], Nothing) /\ Reading(c)
    BY <1>6, <1>7 DEF CalcInv, CalcPlace
  <2>2. answers[c] = <<>> => text = Nothing
    BY <1>7, <2>1 DEF Reading, AtEnd
  <2>3. text = First
    BY <2>1, <2>2 DEF Reading, First
  <2>4. answers'[c] \in {<<First>>, <<First, Nothing>>}
    <3>1. CASE answers[c] = <<>>
      BY <2>1, <2>2, <3>1 DEF First
    <3>2. CASE answers[c] # <<>>
      <4>1. answers[c] = <<First>>
        BY <1>2, <2>1, <3>2 DEF Reading
      <4> QED
        BY <2>1, <4>1, SecondOf
    <3> QED
      BY <3>1, <3>2
  <2>5. answers'[c] # <<>> /\ (text # Nothing => msgPtr = "end")
    BY <2>1, <2>2, <2>4 DEF Reading
  <2>6. Reading(c)'
    <3>1. First' = First
      BY <1>2, <1>7 DEF First
    <3> QED
      BY <1>7, <2>3, <2>4, <2>5, <3>1 DEF Reading
  <2>7. Settled'
    BY <1>2, <1>5, <1>7 DEF Settled, IsAnswer
  <2>8. CalcPlace(c)'
    BY <1>7, <2>6 DEF CalcPlace
  <2> QED
    BY <1>3, <1>4, <2>7, <2>8 DEF CalcInv
<1>8. CASE /\ Moves(c, "open", "copy") /\ FALSE \in AtEnd
           /\ text' = AnswerText(result) /\ UNCHANGED <<msgPtr, answers>>
  <2>1. pc[c] = "open" /\ pc'[c] = "copy" /\ Reading(c)
    BY <1>6, <1>8 DEF Moves, IInv, TypeOK, CalcPlace
  <2>2. text # Nothing /\ msgPtr # "end"
    BY <1>8 DEF AtEnd
  <2>3. written.text # "no"
    BY <1>5, <2>2 DEF Settled
  <2>4. answers[c] = <<>> /\ msgPtr = "start"
    BY <2>1, <2>2 DEF Reading
  <2>5. Settled'
    BY <1>2, <1>5, <1>8, <2>3 DEF Settled, IsAnswer, AnswerText, Nothing
  <2>6. CalcPlace(c)'
    BY <1>2, <1>8, <2>1, <2>4 DEF CalcPlace, AnswerText
  <2> QED
    BY <1>3, <1>4, <2>5, <2>6 DEF CalcInv
<1>9. CASE /\ Moves(c, "copy", "open")
           /\ \E t \in Delivered : answers' = [answers EXCEPT ![c] = Append(@, t)]
           /\ msgPtr' \in PlaceAfter /\ UNCHANGED text
  <2>1. pc[c] = "copy" /\ pc'[c] = "open"
    BY <1>9 DEF Moves, IInv, TypeOK
  <2>2. answers[c] = <<>> /\ msgPtr = "start" /\ text = AnswerText(result)
    BY <1>6, <2>1 DEF CalcPlace
  <2>3. text # Nothing /\ Delivered = {text} /\ PlaceAfter = {"end"}
    BY <2>2 DEF AnswerText, Nothing, Delivered, PlaceAfter
  <2>4. text = First /\ answers'[c] = <<First>> /\ msgPtr' = "end"
    BY <1>9, <2>2, <2>3 DEF First, CalcInv
  <2>5. Reading(c)'
    <3>1. First' = First
      BY <1>2, <1>9 DEF First
    <3>2. text' = First' /\ msgPtr' = "end" /\ answers'[c] = <<First'>>
      BY <1>9, <2>4, <3>1
    <3>3. answers'[c] # <<>>
      BY <3>2
    <3> QED
      BY <3>2, <3>3 DEF Reading
  <2>6. Settled'
    BY <1>2, <1>5, <1>9 DEF Settled, IsAnswer
  <2>7. CalcPlace(c)'
    BY <2>1, <2>5 DEF CalcPlace
  <2> QED
    BY <1>3, <1>4, <2>6, <2>7 DEF CalcInv
<1> QED
  BY <1>7, <1>8, <1>9 DEF dev_read

\* Every step keeps what the calculator promises, if the expressions are evaluated right.
LEMMA NextCalcInv == ExpressionsRight /\ IInv /\ CalcInv /\ [Next]_vars => CalcInv'
<1> SUFFICES ASSUME ExpressionsRight, IInv, CalcInv, [Next]_vars PROVE CalcInv'
  OBVIOUS
<1>1. CASE UNCHANGED vars
  BY <1>1, CalcUntouched DEF vars, lifeVars, fileVars
<1>2. CASE LoadModule
  BY <1>2, LoadLife, CalcFreshNext DEF LoadModule
<1>3. CASE UnloadModule
  BY <1>3, RmmodLife, CalcUntouched DEF UnloadModule, fileVars
<1>4. ASSUME NEW c \in Clients, UseAfterUnload(c) PROVE CalcInv'
  BY <1>4, CalcUntouched DEF UseAfterUnload, fileVars
<1>5. ASSUME NEW c \in Clients,
             \/ fib_open(c) \/ fib_release(c)
             \/ \E o \in Offsets, w \in Whences : fib_device_lseek(c, o, w)
             \/ echo_open(c) \/ echo_write(c) \/ echo_read(c) \/ echo_release(c)
      PROVE  CalcInv'
  <2>1. driver' # "calc"
    BY <1>5 DEF fib_open, fib_release, fib_device_lseek, echo_open, echo_write, echo_read, echo_release,
                OpenFile, CloseFile, Alone, Device, lifeVars
  <2>2. answers' = answers
    BY <1>5 DEF fib_open, fib_release, fib_device_lseek, echo_open, echo_write, echo_read, echo_release, calcVars
  <2> QED
    BY <2>1, <2>2 DEF CalcInv
<1>6. ASSUME NEW c \in Clients,
             dev_open(c) \/ dev_write(c) \/ calc(c) \/ dev_read(c) \/ dev_release(c)
      PROVE  CalcInv'
  BY <1>6, CalcOpen, CalcWrite, CalcCalc, CalcRead, CalcRelease
<1> QED
  BY <1>1, <1>2, <1>3, <1>4, <1>5, <1>6 DEF Next

\* Granted that expression.c evaluates an expression rightly and refuses the other text,
\* what dev_read gives a file that overlaps no other is the answer to the expression
\* written last, then end of file, for any number of files and however often the module
\* is loaded; after files that overlapped it is some answer until an expression has been
\* written again.
THEOREM SpecReadsTheAnswer == ExpressionsRight => (Spec => []ReadsTheAnswer)
<1> SUFFICES ASSUME ExpressionsRight PROVE Spec => []ReadsTheAnswer
  OBVIOUS
<1>1. Init => CalcInv
  BY CalcFresh DEF Init, LifeInit
<1>2. IInv /\ CalcInv /\ [Next]_vars => CalcInv'
  BY NextCalcInv
<1>3. ASSUME IInv, CalcInv PROVE ReadsTheAnswer
  <2>1. SUFFICES ASSUME driver = "calc", ~overlap, NEW c \in opened
        PROVE  /\ Len(answers[c]) >= 1 =>
                    /\ answers[c][1] # Nothing =>
                         answers[c][1].kind = "answer" /\ IsAnswer(answers[c][1].answer)
                    /\ written.text = "yes" => answers[c][1] # Nothing
                    /\ written.text = "no" => answers[c][1] = Nothing
               /\ Len(answers[c]) = 2 => answers[c][2] = Nothing
    BY DEF ReadsTheAnswer
  <2>2. CASE pc[c] # "open"
    <3>1. answers[c] = <<>>
      BY <1>3, <2>1, <2>2 DEF CalcInv, CalcPlace
    <3> QED
      BY <3>1
  <2>3. CASE pc[c] = "open"
    <3>1. Reading(c)
      BY <1>3, <2>1, <2>3 DEF CalcInv, CalcPlace
    <3>2. opened = {c}
      BY <1>3, <2>1 DEF IInv, Sole
    <3>3. Settled
      BY <1>3, <2>1, <2>3, <3>2 DEF CalcInv
    <3>4. /\ First # Nothing => First.kind = "answer" /\ IsAnswer(First.answer)
          /\ written.text = "yes" => First # Nothing
          /\ written.text = "no" => First = Nothing
      BY <3>3 DEF First, Settled, AnswerText, Nothing
    <3> QED
      BY <3>1, <3>4 DEF Reading
  <2> QED
    BY <2>2, <2>3
<1> QED
  BY <1>1, <1>2, <1>3, SpecIInv, PTL DEF Spec
=============================================================================
