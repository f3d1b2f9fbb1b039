------------------------------ MODULE RpadcFifo ------------------------------
(***************************************************************************)
(* The Red Pitaya ADC character driver (rfx_nioadc/linux/src/rpadc_fifo.c) *)
(* on a dual-core Zynq: the interrupt handler IRQ_cb, any number of        *)
(* threads in device_read, and one thread in open, ioctl or release.       *)
(* Every step is one access to state that another core can see; the        *)
(* spin-locked sections of writeBuf and readBuf take two steps, because    *)
(* ARM and STOP overwrite the ring's counters without taking the lock.     *)
(*                                                                         *)
(* External, modelled from how the driver uses it: the AXI-stream FIFO     *)
(* core that holds the samples (fifo, isr, ier), the edge-triggered        *)
(* interrupt line (pend), and the recorder behind the command register     *)
(* (rec). The second FIFO core, with the trigger times, shares no state    *)
(* with the sample path: what RESET, CLEAR, ARM and LAST_TIME do to it is  *)
(* in RpadcControl. mit_jasadc's rpadc_fifo.c, for another board, is the   *)
(* same text but for the addresses that open maps.                         *)
(***************************************************************************)
EXTENDS Integers, Sequences, FiniteSets

CONSTANTS
  Readers,     (* threads that call read()                                 *)
  FifoLen,     (* FIFO_LEN: words the AXI FIFO can hold                    *)
  ProgFull,    (* occupancy at which the FIFO reports "half full"          *)
  BufSize,     (* BUFSIZE: the ring's size after open                      *)
  BufSizes,    (* sizes a program asks for with SET_BUFSIZE                *)
  ReadLens,    (* words a program asks for with one read()                 *)
  Modes,       (* interrupt modes a program asks for: TRUE is half size    *)
  NonBlock,    (* the descriptor was opened with O_NONBLOCK                *)
  MaxSamples,  (* bound: samples the recorder emits in a behaviour         *)
  Junk         (* contents of memory or a register nobody has written      *)

ASSUME FifoAssumption ==
  /\ FifoLen \in Nat \ {0}
  /\ ProgFull \in 1 .. FifoLen
  /\ BufSize \in Nat \ {0}
  /\ BufSizes \subseteq Nat \ {0}
  /\ ReadLens \subseteq Nat \ {0}
  /\ Modes \subseteq BOOLEAN /\ NonBlock \in BOOLEAN
  /\ MaxSamples \in Nat
  /\ Junk \notin Nat

VARIABLES
  \* the FPGA side
  rec,               \* the recorder: "IDLE", "ARMED" or "RUNNING"
  next,              \* number of the next sample the recorder emits
  fifo,              \* words in the sample FIFO
  isr, ier, pend,    \* status and enable bits, latched interrupt edge
  \* struct rpadc_fifo_dev
  busy, armed, fifoOverflow, fifoHalfInterrupt,
  fifoBuffer, bufSize, wIdx, rIdx, bufCount,
  \* IRQ_cb: program counter, iterations left, word in hand, loaded bufCount, wIdx
  hpc, hocc, cur, hcnt, hidx,
  \* device_read, per thread: counter, iterations left, loaded bufCount, rIdx
  rpc, rem, rcnt, ridx,
  \* the thread in open, ioctl or release: counter, occupancy ARM has read
  cpc, cocc

devVars  == <<rec, next, fifo, isr, ier, pend>>
flagVars == <<busy, armed, fifoOverflow, fifoHalfInterrupt>>
idxVars  == <<wIdx, rIdx, bufCount>>
memVars  == <<fifoBuffer, bufSize>>
irqVars  == <<hpc, hocc, cur, hcnt, hidx>>
readVars == <<rpc, rem, rcnt, ridx>>
ctlVars  == <<cpc, cocc>>
vars == <<devVars, flagVars, idxVars, memVars, irqVars, readVars, ctlVars>>

Word == Nat \cup {Junk}       \* 0 is what an underflow returns; samples count from 1
Bits == {"RC", "RFPF"}        \* receive complete; programmable full

-----------------------------------------------------------------------------
(* Status and enable bits take new values. The interrupt line is high while *)
(* an enabled status bit is set; when it rises, the controller latches an   *)
(* edge.                                                                    *)
Line(s, e) == s \cap e # {}
SetBits(s, e) ==
  /\ isr' = s /\ ier' = e
  /\ pend' = (pend \/ (~Line(isr, ier) /\ Line(s, e)))

(* One read of the data register: the oldest word, or whatever an empty    *)
(* FIFO returns.                                                           *)
Front == IF fifo = <<>> THEN Junk ELSE Head(fifo)
Rest  == IF fifo = <<>> THEN <<>> ELSE Tail(fifo)

(* kmalloc returns memory nobody has written. An index that was valid for  *)
(* a larger buffer reads and writes outside this one.                      *)
Fresh(n)       == [i \in 0 .. n - 1 |-> Junk]
Load(b, i)     == IF i \in DOMAIN b THEN b[i] ELSE Junk
Store(b, i, v) == IF i \in DOMAIN b THEN [b EXCEPT ![i] = v] ELSE b

(* Mutant of LockFree: writeBuf and readBuf without the spinlock.           *)
NoLock == TRUE

(* The spinlock is held between the two steps of writeBuf and of readBuf.  *)
LockFree == hpc # "store" /\ \A r \in Readers : rpc[r] # "take"

(* wake_up: every thread sleeping on readq tests its condition again.      *)
Woken == [r \in Readers |-> IF rpc[r] = "sleep" THEN "wait" ELSE rpc[r]]

(* The enable mask that the handler and CLEAR write.                       *)
EnableMask == IF fifoHalfInterrupt THEN {"RFPF"} ELSE {"RC"}

-----------------------------------------------------------------------------
(* The recorder emits a sample; the FIFO keeps it if it has room ...       *)
Emit ==
  /\ rec = "RUNNING" /\ next <= MaxSamples /\ Len(fifo) < FifoLen
  /\ fifo' = Append(fifo, next)
  /\ next' = next + 1
  /\ SetBits(isr \cup {"RC"} \cup (IF Len(fifo) + 1 >= ProgFull THEN {"RFPF"} ELSE {}), ier)
  /\ UNCHANGED <<rec, flagVars, idxVars, memVars, irqVars, readVars, ctlVars>>

(* ... and loses it if it has none: the recorder ignores m_axis_tready.    *)
EmitLost ==
  /\ rec = "RUNNING" /\ next <= MaxSamples /\ Len(fifo) = FifoLen
  /\ next' = next + 1
  /\ UNCHANGED <<rec, fifo, isr, ier, pend, flagVars, idxVars, memVars,
                 irqVars, readVars, ctlVars>>

(* A trigger on the recorder's input pin.                                  *)
TriggerIn ==
  /\ rec = "ARMED" /\ rec' = "RUNNING"
  /\ UNCHANGED <<next, fifo, isr, ier, pend, flagVars, idxVars, memVars,
                 irqVars, readVars, ctlVars>>

-----------------------------------------------------------------------------
(* IRQ_cb. The kernel never runs it twice at once.                         *)

(* Mutant of IrqEnter: the status bits are not acknowledged.               *)
IrqEnterNoAck ==
  /\ busy = 1 /\ pend /\ hpc = "idle"
  /\ pend' = FALSE /\ hpc' = "mask"
  /\ UNCHANGED <<rec, next, fifo, isr, ier, flagVars, idxVars, memVars, hocc, cur,
                 hcnt, hidx, readVars, ctlVars>>

(* Entry: acknowledge every status bit.                                    *)
IrqEnter ==
  /\ busy = 1 /\ pend /\ hpc = "idle"
  /\ pend' = FALSE /\ isr' = {} /\ hpc' = "mask"
  /\ UNCHANGED <<rec, next, fifo, ier, flagVars, idxVars, memVars, hocc, cur,
                 hcnt, hidx, readVars, ctlVars>>

(* Disable the interrupts, read the occupancy.                             *)
IrqMask ==
  /\ hpc = "mask"
  /\ ier' = {} /\ hocc' = Len(fifo) /\ hpc' = "check"
  /\ UNCHANGED <<rec, next, fifo, isr, pend, flagVars, idxVars, memVars, cur,
                 hcnt, hidx, readVars, ctlVars>>

(* A full FIFO has lost samples: set the flag, wake the readers, go on.    *)
IrqCheck ==
  /\ hpc = "check" /\ hpc' = "loop"
  /\ IF hocc >= FifoLen
       THEN fifoOverflow' = TRUE /\ rpc' = Woken
       ELSE UNCHANGED <<fifoOverflow, rpc>>
  /\ UNCHANGED <<devVars, busy, armed, fifoHalfInterrupt, idxVars, memVars,
                 hocc, cur, hcnt, hidx, rem, rcnt, ridx, ctlVars>>

(* One iteration of the readout loop: pop a word, ...                      *)
IrqPop ==
  /\ hpc = "loop" /\ hocc > 0
  /\ cur' = Front /\ fifo' = Rest /\ hocc' = hocc - 1 /\ hpc' = "lock"
  /\ UNCHANGED <<rec, next, isr, ier, pend, flagVars, idxVars, memVars, hcnt,
                 hidx, readVars, ctlVars>>

(* Mutant of WriteBufLock: the ring is full one word too late.              *)
WriteBufLockLate ==
  /\ hpc = "lock" /\ LockFree /\ bufCount <= bufSize
  /\ hcnt' = bufCount /\ hidx' = wIdx /\ hpc' = "store"
  /\ UNCHANGED <<devVars, flagVars, idxVars, memVars, hocc, cur, readVars, ctlVars>>

(* ... writeBuf: take the lock, there is room, ...                         *)
WriteBufLock ==
  /\ hpc = "lock" /\ LockFree /\ bufCount < bufSize
  /\ hcnt' = bufCount /\ hidx' = wIdx /\ hpc' = "store"
  /\ UNCHANGED <<devVars, flagVars, idxVars, memVars, hocc, cur, readVars, ctlVars>>

(* ... store the word, advance, unlock.                                    *)
WriteBufStore ==
  /\ hpc = "store" /\ hpc' = "loop"
  /\ fifoBuffer' = Store(fifoBuffer, hidx, cur)
  /\ wIdx' = (hidx + 1) % bufSize
  /\ bufCount' = hcnt + 1
  /\ cur' = Junk /\ hcnt' = 0 /\ hidx' = 0
  /\ UNCHANGED <<devVars, flagVars, rIdx, bufSize, hocc, readVars, ctlVars>>

(* writeBuf found the ring full: the word in hand is gone, interrupts stay *)
(* disabled, nobody is woken.                                              *)
IrqAbort ==
  /\ hpc = "lock" /\ LockFree /\ bufCount >= bufSize
  /\ ier' = {} /\ hpc' = "idle" /\ hocc' = 0 /\ cur' = Junk
  /\ UNCHANGED <<rec, next, fifo, isr, pend, flagVars, idxVars, memVars, hcnt,
                 hidx, readVars, ctlVars>>

(* Mutants of IrqExit: no wake_up; interrupts stay disabled.                *)
IrqExitNoWake ==
  /\ hpc = "loop" /\ hocc = 0
  /\ SetBits(isr, EnableMask) /\ hpc' = "idle"
  /\ UNCHANGED <<rec, next, fifo, flagVars, idxVars, memVars, hocc, cur, hcnt,
                 hidx, readVars, ctlVars>>
IrqExitMasked ==
  /\ hpc = "loop" /\ hocc = 0
  /\ rpc' = Woken /\ hpc' = "idle"
  /\ UNCHANGED <<devVars, flagVars, idxVars, memVars, hocc, cur, hcnt, hidx, rem,
                 rcnt, ridx, ctlVars>>

(* The loop is over: wake the readers, enable the interrupts again.        *)
IrqExit ==
  /\ hpc = "loop" /\ hocc = 0
  /\ rpc' = Woken /\ SetBits(isr, EnableMask) /\ hpc' = "idle"
  /\ UNCHANGED <<rec, next, fifo, flagVars, idxVars, memVars, hocc, cur,
                 hcnt, hidx, rem, rcnt, ridx, ctlVars>>

Irq == \/ IrqEnter \/ IrqMask \/ IrqCheck \/ IrqPop \/ WriteBufLock
       \/ WriteBufStore \/ IrqAbort \/ IrqExit

-----------------------------------------------------------------------------
(* device_read. The return of -1 after an overflow changes nothing: no step. *)

Goto(r, l) == rpc' = [rpc EXCEPT ![r] = l]

ReadCall(r) ==
  /\ busy = 1 /\ cpc # "release" /\ rpc[r] = "user" /\ ~fifoOverflow
  /\ Goto(r, "test")
  /\ UNCHANGED <<devVars, flagVars, idxVars, memVars, irqVars, rem, rcnt, ridx, ctlVars>>

(* while (bufCount == 0): wait on readq, or return -EAGAIN.                *)
ReadTest(r) ==
  /\ rpc[r] = "test"
  /\ Goto(r, IF bufCount > 0 THEN "occ" ELSE IF NonBlock THEN "user" ELSE "wait")
  /\ UNCHANGED <<devVars, flagVars, idxVars, memVars, irqVars, rem, rcnt, ridx, ctlVars>>

(* wait_event_interruptible queues the thread before it tests, so the test *)
(* and going to sleep are one step.                                        *)
ReadWait(r) ==
  /\ rpc[r] = "wait"
  /\ Goto(r, IF bufCount > 0 THEN "woken" ELSE "sleep")
  /\ UNCHANGED <<devVars, flagVars, idxVars, memVars, irqVars, rem, rcnt, ridx, ctlVars>>

(* After the wait: end of data if the device is no longer armed.           *)
ReadWoken(r) ==
  /\ rpc[r] = "woken"
  /\ Goto(r, IF armed THEN "test" ELSE "user")
  /\ UNCHANGED <<devVars, flagVars, idxVars, memVars, irqVars, rem, rcnt, ridx, ctlVars>>

(* A signal ends the wait with -ERESTARTSYS.                               *)
ReadSignal(r) ==
  /\ rpc[r] = "sleep"
  /\ Goto(r, "user")
  /\ UNCHANGED <<devVars, flagVars, idxVars, memVars, irqVars, rem, rcnt, ridx, ctlVars>>

(* Mutant of ReadOcc: the loop runs for the length asked for.               *)
ReadOccLength(r) ==
  /\ rpc[r] = "occ"
  /\ \E n \in ReadLens : rem' = [rem EXCEPT ![r] = n]
  /\ Goto(r, "loop")
  /\ UNCHANGED <<devVars, flagVars, idxVars, memVars, irqVars, rcnt, ridx, ctlVars>>

(* occ = bufCount bounds the loop, with the length asked for.              *)
ReadOcc(r) ==
  /\ rpc[r] = "occ"
  /\ \E n \in ReadLens : rem' = [rem EXCEPT ![r] = IF n < bufCount THEN n ELSE bufCount]
  /\ Goto(r, "loop")
  /\ UNCHANGED <<devVars, flagVars, idxVars, memVars, irqVars, rcnt, ridx, ctlVars>>

(* readBuf: take the lock and load the count, ...                          *)
ReadBufLock(r) ==
  /\ rpc[r] = "loop" /\ rem[r] > 0 /\ LockFree
  /\ rcnt' = [rcnt EXCEPT ![r] = bufCount] /\ ridx' = [ridx EXCEPT ![r] = rIdx]
  /\ Goto(r, "take")
  /\ UNCHANGED <<devVars, flagVars, idxVars, memVars, irqVars, rem, ctlVars>>

(* The word readBuf hands to put_user.                                     *)
Data(r) == IF rcnt[r] > 0 THEN Load(fifoBuffer, ridx[r]) ELSE 0

(* Mutant of ReadBufTake: no test for underflow.                            *)
ReadBufTakeAlways(r) ==
  /\ rpc[r] = "take"
  /\ rIdx' = (ridx[r] + 1) % bufSize /\ bufCount' = rcnt[r] - 1
  /\ rem' = [rem EXCEPT ![r] = @ - 1]
  /\ rcnt' = [rcnt EXCEPT ![r] = 0] /\ ridx' = [ridx EXCEPT ![r] = 0]
  /\ Goto(r, "loop")
  /\ UNCHANGED <<devVars, flagVars, wIdx, memVars, irqVars, ctlVars>>

(* ... take a word, or report an underflow and return 0; unlock.           *)
ReadBufTake(r) ==
  /\ rpc[r] = "take"
  /\ IF rcnt[r] > 0
       THEN rIdx' = (ridx[r] + 1) % bufSize /\ bufCount' = rcnt[r] - 1
       ELSE UNCHANGED <<rIdx, bufCount>>
  /\ rem' = [rem EXCEPT ![r] = @ - 1]
  /\ rcnt' = [rcnt EXCEPT ![r] = 0] /\ ridx' = [ridx EXCEPT ![r] = 0]
  /\ Goto(r, "loop")
  /\ UNCHANGED <<devVars, flagVars, wIdx, memVars, irqVars, ctlVars>>

ReadReturn(r) ==
  /\ rpc[r] = "loop" /\ rem[r] = 0
  /\ Goto(r, "user")
  /\ UNCHANGED <<devVars, flagVars, idxVars, memVars, irqVars, rem, rcnt, ridx, ctlVars>>

(* What a thread inside read() does.                                       *)
Reading(r) == \/ ReadTest(r) \/ ReadWait(r) \/ ReadWoken(r) \/ ReadOcc(r)
              \/ ReadBufLock(r) \/ ReadBufTake(r) \/ ReadReturn(r)

-----------------------------------------------------------------------------
(* open, release and the ioctls, called by one thread.                     *)

(* The descriptor is not shared by a second open. Interrupt mode, overflow *)
(* flag and the FPGA keep what the previous program left.                  *)
Open ==
  /\ busy = 0
  /\ busy' = 1 /\ armed' = FALSE
  /\ wIdx' = 0 /\ rIdx' = 0 /\ bufCount' = 0
  /\ bufSize' = BufSize /\ fifoBuffer' = Fresh(BufSize)
  /\ UNCHANGED <<devVars, fifoOverflow, fifoHalfInterrupt, irqVars, readVars, ctlVars>>

(* The kernel calls release when no thread is inside the driver any more,  *)
(* and lets none in again.                                                 *)
ReleaseMask ==
  /\ busy = 1 /\ cpc = "user" /\ \A r \in Readers : rpc[r] = "user"
  /\ ier' = {} /\ cpc' = "release"
  /\ UNCHANGED <<rec, next, fifo, isr, pend, flagVars, idxVars, memVars,
                 irqVars, readVars, cocc>>

(* free_irq waits for a handler that is running.                           *)
ReleaseFree ==
  /\ cpc = "release" /\ hpc = "idle"
  /\ busy' = 0 /\ fifoBuffer' = Fresh(bufSize) /\ cpc' = "user"
  /\ UNCHANGED <<devVars, armed, fifoOverflow, fifoHalfInterrupt, idxVars,
                 bufSize, irqVars, readVars, cocc>>

(* An ioctl enters the driver at label l.                                  *)
Ioctl(l) == busy = 1 /\ cpc = "user" /\ cpc' = l

(* RESET: clear the status bits and the FIFO, then the overflow flag.      *)
Reset ==
  /\ Ioctl("reset_flag")
  /\ isr' = {} /\ fifo' = <<>>
  /\ UNCHANGED <<rec, next, ier, pend, flagVars, idxVars, memVars, irqVars, readVars, cocc>>

ResetFlag ==
  /\ cpc = "reset_flag" /\ cpc' = "user"
  /\ fifoOverflow' = FALSE
  /\ UNCHANGED <<devVars, busy, armed, fifoHalfInterrupt, idxVars, memVars,
                 irqVars, readVars, cocc>>

(* CLEAR: clear the FIFO, then enable the interrupts.                      *)
Clear ==
  /\ Ioctl("clear_ier")
  /\ fifo' = <<>>
  /\ UNCHANGED <<rec, next, isr, ier, pend, flagVars, idxVars, memVars, irqVars,
                 readVars, cocc>>

ClearIer ==
  /\ cpc = "clear_ier" /\ cpc' = "user"
  /\ SetBits(isr, EnableMask)
  /\ UNCHANGED <<rec, next, fifo, flagVars, idxVars, memVars, irqVars, readVars, cocc>>

GetSr ==
  /\ Ioctl("user")
  /\ isr' = {}
  /\ UNCHANGED <<rec, next, fifo, ier, pend, flagVars, idxVars, memVars, irqVars,
                 readVars, cocc>>

(* FIFO_INT_HALF_SIZE and FIFO_INT_FIRST_SAMPLE.                           *)
SetInterrupt ==
  /\ Ioctl("user")
  /\ fifoHalfInterrupt' \in Modes
  /\ UNCHANGED <<devVars, busy, armed, fifoOverflow, idxVars, memVars, irqVars,
                 readVars, cocc>>

(* SET_BUFSIZE: refused while armed; indices and count stay as they are.   *)
SetBufSize ==
  /\ Ioctl("user") /\ ~armed
  /\ bufSize' \in BufSizes /\ fifoBuffer' = Fresh(bufSize')
  /\ UNCHANGED <<devVars, flagVars, idxVars, irqVars, readVars, cocc>>

(* TRIGGER: a level in the command register, seen only by an armed recorder. *)
Trigger ==
  /\ Ioctl("user")
  /\ rec' = IF rec = "ARMED" THEN "RUNNING" ELSE rec
  /\ UNCHANGED <<next, fifo, isr, ier, pend, flagVars, idxVars, memVars, irqVars,
                 readVars, cocc>>

(* ARM: clearFifoAndBuf reads the occupancy and pops that many words, ...  *)
Arm ==
  /\ Ioctl("arm_pop")
  /\ cocc' = Len(fifo)
  /\ UNCHANGED <<devVars, flagVars, idxVars, memVars, irqVars, readVars>>

(* Mutant of ArmPop: the words that were counted are left in the FIFO.      *)
ArmPopNothing ==
  /\ cpc = "arm_pop" /\ cocc > 0
  /\ cocc' = 0
  /\ UNCHANGED <<devVars, flagVars, idxVars, memVars, irqVars, readVars, cpc>>

ArmPop ==
  /\ cpc = "arm_pop" /\ cocc > 0
  /\ fifo' = Rest /\ cocc' = cocc - 1
  /\ UNCHANGED <<rec, next, isr, ier, pend, flagVars, idxVars, memVars, irqVars,
                 readVars, cpc>>

(* ... clears the indices and then the count, without the lock. A store    *)
(* that falls inside another core's locked section is overwritten by it.   *)
ArmIndex ==
  /\ cpc = "arm_pop" /\ cocc = 0 /\ cpc' = "arm_count"
  /\ wIdx' = 0 /\ rIdx' = 0
  /\ UNCHANGED <<devVars, flagVars, bufCount, memVars, irqVars, readVars, cocc>>

ArmCount ==
  /\ cpc = "arm_count" /\ cpc' = "arm_cmd"
  /\ bufCount' = 0
  /\ UNCHANGED <<devVars, flagVars, wIdx, rIdx, memVars, irqVars, readVars, cocc>>

(* Then the recorder is armed, and last the flag is set.                   *)
ArmCmd ==
  /\ cpc = "arm_cmd" /\ cpc' = "arm_flag"
  /\ rec' = IF rec = "IDLE" THEN "ARMED" ELSE rec
  /\ UNCHANGED <<next, fifo, isr, ier, pend, flagVars, idxVars, memVars, irqVars,
                 readVars, cocc>>

ArmFlag ==
  /\ cpc = "arm_flag" /\ cpc' = "user"
  /\ armed' = TRUE
  /\ UNCHANGED <<devVars, busy, fifoOverflow, fifoHalfInterrupt, idxVars,
                 memVars, irqVars, readVars, cocc>>

(* STOP: stop the recorder, claim one word is there so that the readers'   *)
(* condition holds, wake them, and only then clear the flag they test.     *)
Stop ==
  /\ Ioctl("stop_wake")
  /\ rec' = "IDLE" /\ bufCount' = 1
  /\ UNCHANGED <<next, fifo, isr, ier, pend, flagVars, wIdx, rIdx, memVars,
                 irqVars, readVars, cocc>>

(* Mutant of StopWake: no wake_up.                                          *)
StopNoWake ==
  /\ cpc = "stop_wake" /\ cpc' = "stop_flag"
  /\ UNCHANGED <<devVars, flagVars, idxVars, memVars, irqVars, readVars, cocc>>

StopWake ==
  /\ cpc = "stop_wake" /\ cpc' = "stop_flag"
  /\ rpc' = Woken
  /\ UNCHANGED <<devVars, flagVars, idxVars, memVars, irqVars, rem, rcnt, ridx, cocc>>

StopFlag ==
  /\ cpc = "stop_flag" /\ cpc' = "user"
  /\ armed' = FALSE
  /\ UNCHANGED <<devVars, busy, fifoOverflow, fifoHalfInterrupt, idxVars,
                 memVars, irqVars, readVars, cocc>>

(* The steps that finish a call already made.                              *)
Calling == \/ ReleaseFree \/ ResetFlag \/ ClearIer \/ ArmPop \/ ArmIndex
           \/ ArmCount \/ ArmCmd \/ ArmFlag \/ StopWake \/ StopFlag

-----------------------------------------------------------------------------
(* After rfx_rpadc_fifo_probe: the device is closed, its interrupts off.   *)
Init ==
  /\ rec = "IDLE" /\ next = 1 /\ fifo = <<>>
  /\ isr = {} /\ ier = {} /\ pend = FALSE
  /\ busy = 0 /\ armed = FALSE /\ fifoOverflow = FALSE /\ fifoHalfInterrupt = FALSE
  /\ fifoBuffer = Fresh(BufSize) /\ bufSize = BufSize
  /\ wIdx = 0 /\ rIdx = 0 /\ bufCount = 0
  /\ hpc = "idle" /\ hocc = 0 /\ cur = Junk /\ hcnt = 0 /\ hidx = 0
  /\ rpc = [r \in Readers |-> "user"]
  /\ rem = [r \in Readers |-> 0] /\ rcnt = [r \in Readers |-> 0] /\ ridx = [r \in Readers |-> 0]
  /\ cpc = "user" /\ cocc = 0

Next ==
  \/ Emit \/ EmitLost \/ TriggerIn
  \/ Irq
  \/ \E r \in Readers : ReadCall(r) \/ Reading(r) \/ ReadSignal(r)
  \/ Open \/ ReleaseMask \/ Reset \/ Clear \/ GetSr \/ SetInterrupt
  \/ SetBufSize \/ Trigger \/ Arm \/ Stop
  \/ Calling

Spec == Init /\ [][Next]_vars

-----------------------------------------------------------------------------
(* Types, group by group, without bounds on the ring's indices and count:  *)
(* SET_BUFSIZE may leave them beyond a smaller ring until the next ARM.    *)
DevTypes ==
  /\ rec \in {"IDLE", "ARMED", "RUNNING"}
  /\ next \in Nat
  /\ fifo \in Seq(Word) /\ Len(fifo) <= FifoLen
  /\ isr \subseteq Bits /\ ier \subseteq Bits /\ pend \in BOOLEAN
FlagTypes ==
  /\ busy \in {0, 1}
  /\ armed \in BOOLEAN /\ fifoOverflow \in BOOLEAN /\ fifoHalfInterrupt \in BOOLEAN
IdxTypes == wIdx \in Nat /\ rIdx \in Nat /\ bufCount \in Nat
MemTypes == bufSize \in Nat \ {0} /\ fifoBuffer \in [0 .. bufSize - 1 -> Word]
IrqTypes ==
  /\ hpc \in {"idle", "mask", "check", "loop", "lock", "store"}
  /\ hocc \in 0 .. FifoLen /\ cur \in Word /\ hcnt \in Nat /\ hidx \in Nat
ReadTypes ==
  /\ rpc \in [Readers -> {"user", "test", "wait", "sleep", "woken", "occ", "loop", "take"}]
  /\ rem \in [Readers -> Nat] /\ rcnt \in [Readers -> Nat] /\ ridx \in [Readers -> Nat]
CtlTypes ==
  /\ cpc \in {"user", "release", "reset_flag", "clear_ier", "arm_pop", "arm_count",
              "arm_cmd", "arm_flag", "stop_wake", "stop_flag"}
  /\ cocc \in 0 .. FifoLen
TypeOK == /\ DevTypes /\ FlagTypes /\ IdxTypes /\ MemTypes
          /\ IrqTypes /\ ReadTypes /\ CtlTypes

(* ARM and STOP store the ring's indices and count without the spinlock    *)
(* and may race with writeBuf and readBuf. If the ring keeps its size,     *)
(* whatever the race leaves behind still addresses the ring: the indices   *)
(* stay below bufSize and the count does not exceed it.                    *)
RingBounds ==
  BufSizes \subseteq {BufSize} =>
    /\ wIdx < bufSize /\ rIdx < bufSize /\ bufCount <= bufSize
    /\ hpc = "store" => hidx < bufSize /\ hcnt < bufSize
    /\ \A r \in Readers : rpc[r] = "take" => ridx[r] < bufSize /\ rcnt[r] <= bufSize

(* The interrupt line cannot stay high unnoticed: whenever an enabled      *)
(* status bit is set, the edge it caused is latched and IRQ_cb will run,   *)
(* because IRQ_cb acknowledges before it can have consumed another edge.   *)
EdgeLatched == Line(isr, ier) => pend
=============================================================================
