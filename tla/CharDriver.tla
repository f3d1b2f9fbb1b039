------------------------------ MODULE CharDriver ------------------------------
(***************************************************************************)
(* The life of a character device of this repository: the module is loaded *)
(* and its platform device probed, programs open and close the device file *)
(* while that goes on, the module is removed and perhaps loaded again.     *)
(* Every function is run step by step from the table in CharDevices; steps *)
(* of different threads interleave.                                        *)
(*                                                                         *)
(* External: the kernel's registries (one class of a name, one owner of an *)
(* interrupt), the driver core, which gives back devm_ioremap's mappings   *)
(* when a device is unbound, and the module loader, which refuses to       *)
(* remove a module whose cdev has an owner while the device is open.       *)
(***************************************************************************)
EXTENDS CharDevices, Integers, FiniteSets

CONSTANTS
  Drivers,   (* the drivers a behaviour may be about                       *)
  Programs,  (* processes that open and close the device                   *)
  MaxCalls,  (* bound: opens and loads of the module in a behaviour        *)
  MaxFaults  (* bound: kinds of things the kernel refuses                  *)

ASSUME DriverAssumption ==
  /\ Drivers \subseteq DOMAIN Code /\ "core" \notin Programs
  /\ MaxCalls \in Nat /\ MaxFaults \in Nat

Threads == Programs \cup {"core"}

Resources ==
  {"chrdev", "region", "cdev", "class", "device", "map", "irq", "buffer", "tx", "rx",
   "channels", "event buffer", "convst trigger", "sample trigger", "clk", "iio"}

(* Of these there can be only one; these the driver core gives back.       *)
Unique == {"class", "device", "irq"}
Devm   == {"map"}

VARIABLES
  drv,   \* the driver
  at,    \* what each thread is doing: the loader and driver core, the programs
  todo,  \* steps left of the function it is in
  bad,   \* that function has failed
  live,  \* how many of each resource are taken
  ref,   \* the driver's variable for it holds one of them
  busy,  \* s_device_open, busy or is_open
  hist   \* history, see Init

vars == <<drv, at, todo, bad, live, ref, busy, hist>>

Init ==
  /\ drv \in Drivers
  /\ at = [t \in Threads |-> IF t = "core" THEN "out" ELSE "closed"]
  /\ todo = [t \in Threads |-> <<>>]
  /\ bad = [t \in Threads |-> FALSE]
  /\ live = [r \in Resources |-> 0]
  /\ ref = [r \in Resources |-> FALSE]
  /\ busy = 0
  /\ hist = [calls |-> 0,
             failed |-> {},     \* resources that could not be taken
             stray |-> {},      \* resources given back that were not held
             denied |-> FALSE,  \* an open has failed with EPERM
             broken |-> FALSE,  \* a probe has failed
             mixed |-> {},      \* programs whose call overlapped another's
             mess |-> FALSE]    \* there has been one

-----------------------------------------------------------------------------
(* Steps                                                                   *)

Steps(rs) == [i \in 1 .. Len(rs) |-> Put(rs[i])]

Enter(t, place, steps) ==
  /\ at' = [at EXCEPT ![t] = place]
  /\ todo' = [todo EXCEPT ![t] = steps]
  /\ bad' = [bad EXCEPT ![t] = FALSE]

Doing(t, kinds) == todo[t] # <<>> /\ Head(todo[t]).do \in kinds
Advance(t) == todo' = [todo EXCEPT ![t] = Tail(@)]

(* The function fails: what its error path gives back comes first. An "ok" *)
(* at the end of that path reports success.                                *)
Fail(t, undo) ==
  LET told == undo = <<>> \/ undo[Len(undo)] # "ok"
      given == IF told THEN undo ELSE SubSeq(undo, 1, Len(undo) - 1)
  IN  /\ todo' = [todo EXCEPT ![t] = Steps(given)]
      /\ bad' = [bad EXCEPT ![t] = told]

MayFail(r) ==
  \/ r \in Unique /\ live[r] > 0
  \/ Cardinality(hist.failed \cup {r}) <= MaxFaults

Taken(t) ==
  /\ Doing(t, {"get", "try", "chan"})
  /\ LET r == Head(todo[t]).what
     IN  /\ r \in Unique => live[r] = 0
         /\ live' = [live EXCEPT ![r] = @ + 1]
         /\ ref' = [ref EXCEPT ![r] = TRUE]
  /\ Advance(t)
  /\ UNCHANGED <<drv, at, bad, busy, hist>>

(* A failure nobody sees leaves NULL in the variable; an interrupt has no  *)
(* variable, the one taken before stays.                                   *)
Missed(t) ==
  /\ Doing(t, {"try", "chan"})
  /\ LET r == Head(todo[t]).what
         lost == r # "irq" \/ ~ref[r]
     IN  /\ MayFail(r)
         /\ ref' = [ref EXCEPT ![r] = @ /\ ~lost]
         /\ hist' = [hist EXCEPT !.failed = IF lost THEN @ \cup {r} ELSE @]
  /\ Advance(t)
  /\ UNCHANGED <<drv, at, bad, live, busy>>

Refused(t) ==
  /\ Doing(t, {"get", "chan", "check"}) /\ MayFail(Head(todo[t]).what)
  /\ Fail(t, Head(todo[t]).undo)
  /\ hist' = [hist EXCEPT !.failed = @ \cup {Head(todo[t]).what}]
  /\ UNCHANGED <<drv, at, live, ref, busy>>

Found(t) ==
  /\ Doing(t, {"check"})
  /\ Advance(t)
  /\ UNCHANGED <<drv, at, bad, live, ref, busy, hist>>

Given(t) ==
  /\ Doing(t, {"put"})
  /\ LET r == Head(todo[t]).what
     IN  /\ live' = [live EXCEPT ![r] = IF ref[r] THEN @ - 1 ELSE @]
         /\ ref' = [ref EXCEPT ![r] = FALSE]
         /\ hist' = [hist EXCEPT !.stray = IF ref[r] THEN @ ELSE @ \cup {r}]
  /\ Advance(t)
  /\ UNCHANGED <<drv, at, bad, busy>>

(* The counter. Between its test and its increment, which the compiler may *)
(* turn into a store of 1, another processor may do the same.              *)
Counter(t) ==
  /\ \/ Doing(t, {"zero"}) /\ busy' = 0 /\ Advance(t) /\ UNCHANGED bad
     \/ Doing(t, {"test"}) /\ busy = 0 /\ Advance(t) /\ UNCHANGED <<busy, bad>>
     \/ Doing(t, {"test"}) /\ busy # 0 /\ Fail(t, Head(todo[t]).undo) /\ UNCHANGED busy
     \/ Doing(t, {"take"}) /\ busy' = 1 /\ Advance(t) /\ UNCHANGED bad
     \/ /\ Doing(t, {"drop"})
        /\ busy' = busy - 1
        /\ IF busy = 1 THEN Advance(t) ELSE todo' = [todo EXCEPT ![t] = <<>>]
        /\ UNCHANGED bad
  /\ UNCHANGED <<drv, at, live, ref, hist>>

Permitted(t) ==
  /\ Doing(t, {"perm"})
  /\ \/ Advance(t) /\ UNCHANGED <<bad, hist>>
     \/ Fail(t, <<>>) /\ hist' = [hist EXCEPT !.denied = TRUE]
  /\ UNCHANGED <<drv, at, live, ref, busy>>

-----------------------------------------------------------------------------
(* Programs                                                                *)

(* Its open resets the counter, so that it never fails with EBUSY.         *)
Resets == \E i \in DOMAIN Code[drv].open : Code[drv].open[i].do = "zero"

Disturbs(q) == at[q] \in {"opening", "closing"} \/ (at[q] = "open" /\ Resets)
Mix(ps) == [hist EXCEPT !.mixed = @ \cup ps, !.mess = @ \/ ps # {}]

CallOpen(p) ==
  LET others == {q \in Programs \ {p} : Disturbs(q)}
      clash == \/ others # {} \/ at["core"] \in {"probing", "removing"}
               \/ \E q \in Programs \ {p} : at[q] # "closed" /\ q \in hist.mixed
  IN  /\ at[p] = "closed" /\ at["core"] # "out" /\ hist.calls < MaxCalls
      /\ ref["chrdev"] \/ ref["cdev"]
      /\ Enter(p, "opening", Code[drv].open)
      /\ hist' = [Mix(others \cup (IF clash THEN {p} ELSE {})) EXCEPT !.calls = @ + 1]
      /\ UNCHANGED <<drv, live, ref, busy>>

CallClose(p) ==
  /\ at[p] = "open"
  /\ Enter(p, "closing", Code[drv].release)
  /\ hist' = Mix({q \in Programs \ {p} : at[q] = "opening"})
  /\ UNCHANGED <<drv, live, ref, busy>>

(* open or release is over; release is not called for a failed open.       *)
Return(p) ==
  /\ at[p] \in {"opening", "closing"} /\ todo[p] = <<>>
  /\ LET opened == at[p] = "opening" /\ ~bad[p]
     IN  /\ at' = [at EXCEPT ![p] = IF opened THEN "open" ELSE "closed"]
         /\ hist' = [hist EXCEPT !.mixed = IF opened THEN @ ELSE @ \ {p}]
  /\ bad' = [bad EXCEPT ![p] = FALSE]
  /\ UNCHANGED <<drv, todo, live, ref, busy>>

-----------------------------------------------------------------------------
(* Loader and driver core                                                  *)

(* The module's variables start from 0.                                    *)
Insmod ==
  /\ at["core"] = "out" /\ hist.calls < MaxCalls
  /\ Enter("core", "probing", Code[drv].probe)
  /\ busy' = 0
  /\ ref' = [r \in Resources |-> FALSE]
  /\ hist' = [hist EXCEPT !.calls = @ + 1]
  /\ UNCHANGED <<drv, live>>

Unbound == [r \in Resources |-> IF r \in Devm THEN 0 ELSE live[r]]

Probed ==
  /\ at["core"] = "probing" /\ todo["core"] = <<>>
  /\ at' = [at EXCEPT !["core"] = IF bad["core"] THEN "failed" ELSE "bound"]
  /\ live' = IF bad["core"] THEN Unbound ELSE live
  /\ ref' = [r \in Resources |-> ref[r] /\ ~(bad["core"] /\ r \in Devm)]
  /\ hist' = [hist EXCEPT !.broken = @ \/ bad["core"]]
  /\ UNCHANGED <<drv, todo, bad, busy>>

(* Only the cdev of a driver names its owner: a module with a file of      *)
(* register_chrdev goes away under the programs that have it open.         *)
Owned == \E i \in DOMAIN Code[drv].probe : Code[drv].probe[i].what = "cdev"

Rmmod ==
  /\ at["core"] \in {"bound", "failed"}
  /\ Owned => \A p \in Programs : at[p] = "closed"
  /\ Enter("core", "removing", IF at["core"] = "bound" THEN Code[drv].remove ELSE <<>>)
  /\ hist' = Mix({p \in Programs : at[p] = "opening"})
  /\ UNCHANGED <<drv, live, ref, busy>>

Removed ==
  /\ at["core"] = "removing" /\ todo["core"] = <<>>
  /\ at' = [t \in Threads |-> IF t = "core" THEN "out"
                              ELSE IF at[t] = "closed" THEN "closed" ELSE "orphan"]
  /\ todo' = [t \in Threads |-> <<>>]
  /\ bad' = [t \in Threads |-> FALSE]
  /\ live' = Unbound
  /\ UNCHANGED <<drv, ref, busy, hist>>

-----------------------------------------------------------------------------
Run(t) ==
  \/ Taken(t) \/ Missed(t) \/ Refused(t) \/ Found(t) \/ Given(t)
  \/ Counter(t) \/ Permitted(t)

Next ==
  \/ Insmod \/ Probed \/ Rmmod \/ Removed
  \/ \E t \in Threads : Run(t)
  \/ \E p \in Programs : CallOpen(p) \/ CallClose(p) \/ Return(p)

Spec == Init /\ [][Next]_vars

-----------------------------------------------------------------------------
(* A program that holds the device has what its open asked for - the       *)
(* interrupt, the registers, the ring - until it closes it, also while     *)
(* others try to open it or probe and removal go on: its own requests may  *)
(* fail unnoticed. Excepted is a program whose open overlapped another     *)
(* call, and, where open resets the counter, another open at any time.     *)
Asked == {Code[drv].open[i].what : i \in {j \in DOMAIN Code[drv].open :
                                            Code[drv].open[j].do = "try"}}
HeldWhileOpen ==
  \A p \in Programs \ hist.mixed :
    at[p] = "open" => \A r \in Asked : ref[r] \/ r \in hist.failed

(* Such a program is alone, and the counter says so: its release will be   *)
(* the one that gives everything back.                                     *)
Alone ==
  \A p \in Programs \ hist.mixed :
    at[p] = "open" => busy = 1 /\ \A q \in Programs \ {p} : at[q] # "open"

(* What is given back was taken, and everything is: after a removal, and   *)
(* for the XADC after a failed probe. Excepted are the char-device numbers *)
(* (no driver with a cdev frees them), the interrupt and ring of a program *)
(* that was denied the device or shared it, triggers and buffer of an XADC *)
(* whose interrupt is refused, and the channel example 1 releases twice.   *)
Excused ==
  hist.failed \cup (IF hist.mess THEN Resources ELSE {})
              \cup (IF drv = "xadc" THEN {"clk"} ELSE {})
              \cup (IF drv = "ex1" /\ "rx" \in hist.failed THEN {"tx"} ELSE {})
Leaked ==
  (IF Owned THEN {"region"} ELSE {})
    \cup (IF hist.denied \/ hist.mess THEN {"irq", "buffer"} ELSE {})
    \cup (IF drv = "xadc" /\ "irq" \in hist.failed
          THEN {"sample trigger", "convst trigger", "event buffer"} ELSE {})
GivenBack ==
  /\ hist.stray \subseteq Excused
  /\ (at["core"] = "out" \/ (drv = "xadc" /\ at["core"] = "failed")) =>
       \/ hist.broken /\ drv # "xadc"
       \/ \A r \in Resources \ Leaked : live[r] = 0
=============================================================================
