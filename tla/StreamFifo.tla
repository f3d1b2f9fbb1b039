------------------------------ MODULE StreamFifo ------------------------------
(***************************************************************************)
(* The two older stream drivers, which have no ARM and no STOP and whose   *)
(* source runs freely: axi_stream_fifo.c (rfx_spdgauss; the hsi template   *)
(* fpga/hsi/.../axi_stream_fifo.c is the same text) and rfx_rpadc's        *)
(* rpadc_fifo.c. They differ in what a full ring does: the first gives the *)
(* interrupt up, the second drops the word and goes on.                    *)
(*                                                                         *)
(* A driver is used by one program in the order of rpadc_fifo_test.c:      *)
(* open, RESET, interrupt mode, CLEAR, then select and read, then close.   *)
(* writeBuf and readBuf hold the spinlock, and nothing else writes the     *)
(* ring's counters while they run: each is one step.                       *)
(*                                                                         *)
(* External: the AXI-stream FIFO core and the edge-triggered interrupt.    *)
(***************************************************************************)
EXTENDS Integers, Sequences, SequencesExt

CONSTANTS
  FifoLen,     (* FIFO_LEN: words the AXI FIFO can hold                    *)
  ProgFull,    (* occupancy at which the FIFO reports "half full"          *)
  BufSize,     (* BUFSIZE                                                  *)
  BufSizes,    (* sizes a program asks for with SET_BUFSIZE                *)
  Careful,     (* it asks only after open, and when the driver is at rest  *)
  ReadLens,    (* words a program asks for with one read()                 *)
  MaxSamples,  (* bound: samples the source emits in a behaviour           *)
  Junk         (* contents of memory or a register nobody has written      *)

ASSUME StreamAssumption ==
  /\ FifoLen \in Nat \ {0} /\ ProgFull \in 1 .. FifoLen
  /\ BufSize \in Nat \ {0} /\ BufSizes \subseteq Nat \ {0}
  /\ Careful \in BOOLEAN /\ ReadLens \subseteq Nat \ {0}
  /\ MaxSamples \in Nat /\ Junk \notin Nat

VARIABLES
  kind,   \* which of the two drivers
  fpga,   \* next sample, FIFO, status and enable bits, latched edge
  dev,    \* struct rpadc_fifo_dev
  irq,    \* IRQ_cb: place, iterations left, word in hand
  rd,     \* the program in select or read: place, iterations left, O_NONBLOCK
  prog,   \* how far the program has come
  hist    \* history: words given, words gone and why, a loss not yet told

vars == <<kind, fpga, dev, irq, rd, prog, hist>>

Stream == kind = "axi_stream_fifo"

Kinds == {"axi_stream_fifo", "rfx_rpadc"}
Word  == Nat \cup {Junk}
Fresh(n) == [i \in 0 .. n - 1 |-> Junk]

(* Nothing ever sets armed: open clears it, and it is only tested.         *)
Armed == FALSE

-----------------------------------------------------------------------------
(* New status and enable bits; a rising line is latched as an edge.        *)
SetBits(s, e) ==
  [fpga EXCEPT !.isr = s, !.ier = e,
               !.pend = @ \/ (fpga.isr \cap fpga.ier = {} /\ s \cap e # {})]

(* The source emits a sample, which a full FIFO loses.                     *)
Emit ==
  /\ fpga.next <= MaxSamples
  /\ LET n == fpga.next
         room == Len(fpga.fifo) < FifoLen
         full == Len(fpga.fifo) + 1 >= ProgFull
         s == fpga.isr \cup {"RC"} \cup (IF full THEN {"RFPF"} ELSE {})
     IN IF room
          THEN /\ fpga' = [SetBits(s, fpga.ier) EXCEPT !.next = n + 1, !.fifo = Append(@, n)]
               /\ UNCHANGED hist
          ELSE /\ fpga' = [fpga EXCEPT !.next = n + 1]
               /\ hist' = [hist EXCEPT !.gone = @ \cup {n},
                                       !.untold = @ \/ irq.pc \in {"idle", "mask"}]
  /\ UNCHANGED <<kind, dev, irq, rd, prog>>

(* One read of the data register.                                          *)
Popped == IF fpga.fifo = <<>> THEN Junk ELSE Head(fpga.fifo)
Left   == IF fpga.fifo = <<>> THEN <<>> ELSE Tail(fpga.fifo)

EnableMask == IF dev.half THEN {"RFPF"} ELSE {"RC"}

(* wake_up on readq: sleepers in read and in select test again.            *)
Woken == [rd EXCEPT !.pc = CASE @ = "asleep" -> "wait" [] @ = "polling" -> "select" [] OTHER -> @]

-----------------------------------------------------------------------------
(* IRQ_cb: acknowledge, ...                                                *)
IrqEnter ==
  /\ dev.busy = 1 /\ fpga.pend /\ irq.pc = "idle"
  /\ fpga' = [fpga EXCEPT !.pend = FALSE, !.isr = {}]
  /\ irq' = [irq EXCEPT !.pc = "mask"]
  /\ UNCHANGED <<kind, dev, rd, prog, hist>>

(* ... disable the interrupts, read the occupancy, ...                     *)
IrqMask ==
  /\ irq.pc = "mask"
  /\ fpga' = [fpga EXCEPT !.ier = {}]
  /\ irq' = [irq EXCEPT !.pc = "check", !.occ = Len(fpga.fifo)]
  /\ UNCHANGED <<kind, dev, rd, prog, hist>>

(* Mutant of IrqCheck: overflow is more words than the FIFO can hold.       *)
IrqCheckBeyond ==
  /\ irq.pc = "check"
  /\ irq' = [irq EXCEPT !.pc = "loop"]
  /\ IF irq.occ > FifoLen
       THEN dev' = [dev EXCEPT !.overflow = TRUE] /\ rd' = Woken
       ELSE UNCHANGED <<dev, rd>>
  /\ UNCHANGED <<kind, fpga, prog, hist>>

(* ... report an overflow, ...                                             *)
IrqCheck ==
  /\ irq.pc = "check"
  /\ irq' = [irq EXCEPT !.pc = "loop"]
  /\ IF irq.occ >= FifoLen
       THEN dev' = [dev EXCEPT !.overflow = TRUE] /\ rd' = Woken
       ELSE UNCHANGED <<dev, rd>>
  /\ UNCHANGED <<kind, fpga, prog, hist>>

(* ... pop a word ...                                                      *)
IrqPop ==
  /\ irq.pc = "loop" /\ irq.occ > 0
  /\ irq' = [pc |-> "put", occ |-> irq.occ - 1, cur |-> Popped]
  /\ fpga' = [fpga EXCEPT !.fifo = Left]
  /\ UNCHANGED <<kind, dev, rd, prog, hist>>

(* ... and put it into the ring (writeBuf).                                *)
IrqPut ==
  /\ irq.pc = "put" /\ dev.bufCount < dev.bufSize
  /\ dev' = [dev EXCEPT !.fifoBuffer[dev.wIdx] = irq.cur,
                        !.wIdx = (@ + 1) % dev.bufSize, !.bufCount = @ + 1]
  /\ irq' = [irq EXCEPT !.pc = "loop", !.cur = Junk]
  /\ UNCHANGED <<kind, fpga, rd, prog, hist>>

(* A full ring: rfx_rpadc drops the word and nobody is told ...            *)
IrqDrop ==
  /\ irq.pc = "put" /\ dev.bufCount >= dev.bufSize /\ ~Stream
  /\ irq' = [irq EXCEPT !.pc = "loop", !.cur = Junk]
  /\ hist' = [hist EXCEPT !.gone = @ \cup {irq.cur}]
  /\ UNCHANGED <<kind, fpga, dev, rd, prog>>

(* ... axi_stream_fifo leaves with the interrupts off, wakes nobody and    *)
(* leaves the rest of the words in the FIFO.                               *)
IrqAbort ==
  /\ irq.pc = "put" /\ dev.bufCount >= dev.bufSize /\ Stream
  /\ fpga' = [fpga EXCEPT !.ier = {}]
  /\ irq' = [pc |-> "idle", occ |-> 0, cur |-> Junk]
  /\ hist' = [hist EXCEPT !.gone = @ \cup {irq.cur}, !.aborted = TRUE]
  /\ UNCHANGED <<kind, dev, rd, prog>>

(* Mutant of IrqExit: the interrupts stay off.                              *)
IrqExitMasked ==
  /\ irq.pc = "loop" /\ irq.occ = 0
  /\ rd' = Woken /\ irq' = [irq EXCEPT !.pc = "idle"]
  /\ UNCHANGED <<kind, fpga, dev, prog, hist>>

(* The loop is over: wake the readers, enable the interrupts.              *)
IrqExit ==
  /\ irq.pc = "loop" /\ irq.occ = 0
  /\ rd' = Woken
  /\ fpga' = SetBits(fpga.isr, EnableMask)
  /\ irq' = [irq EXCEPT !.pc = "idle"]
  /\ UNCHANGED <<kind, dev, prog, hist>>

Irq == IrqEnter \/ IrqMask \/ IrqCheck \/ IrqPop \/ IrqPut \/ IrqDrop \/ IrqAbort \/ IrqExit

-----------------------------------------------------------------------------
(* device_poll and device_read; the program's loop selects before it reads *)
(* if it has opened the device with O_NONBLOCK.                            *)
At(here, there) == rd.pc = here /\ rd' = [rd EXCEPT !.pc = there]

Call ==
  /\ prog = "run" /\ At("user", IF rd.nonblock THEN "select" ELSE "test")
  /\ rd.nonblock \/ ~dev.overflow
  /\ UNCHANGED <<kind, fpga, dev, irq, prog, hist>>

(* device_poll says POLLIN, or the program sleeps on readq.                *)
Select ==
  /\ At("select", IF dev.bufCount > 0 THEN "ready" ELSE "polling")
  /\ UNCHANGED <<kind, fpga, dev, irq, prog, hist>>

(* After select, read: -1 after an overflow.                               *)
ReadReady ==
  /\ At("ready", IF dev.overflow THEN "user" ELSE "test")
  /\ UNCHANGED <<kind, fpga, dev, irq, prog, hist>>

ReadTest ==
  /\ At("test", IF dev.bufCount > 0 THEN "occ" ELSE IF rd.nonblock THEN "user" ELSE "wait")
  /\ UNCHANGED <<kind, fpga, dev, irq, prog, hist>>

(* Queued on readq before it tests: test and sleep are one step.           *)
ReadWait ==
  /\ At("wait", IF dev.bufCount > 0 THEN "woken" ELSE "asleep")
  /\ UNCHANGED <<kind, fpga, dev, irq, prog, hist>>

(* axi_stream_fifo takes "not armed" for the end of the data: a read that  *)
(* has slept returns 0 although a word is there.                           *)
ReadWoken ==
  /\ At("woken", IF Stream /\ ~Armed THEN "user" ELSE "test")
  /\ UNCHANGED <<kind, fpga, dev, irq, prog, hist>>

(* A signal ends the sleep, in read or in select.                          *)
ReadSignal ==
  /\ At("asleep", "user") \/ At("polling", "user")
  /\ UNCHANGED <<kind, fpga, dev, irq, prog, hist>>

ReadOcc ==
  /\ rd.pc = "occ"
  /\ \E n \in ReadLens :
       rd' = [rd EXCEPT !.pc = "take", !.rem = IF n < dev.bufCount THEN n ELSE dev.bufCount]
  /\ UNCHANGED <<kind, fpga, dev, irq, prog, hist>>

(* Mutant of ReadTake: the index is not taken round the ring.               *)
ReadTakeStuck ==
  /\ rd.pc = "take" /\ rd.rem > 0
  /\ dev' = [dev EXCEPT !.bufCount = @ - 1]
  /\ hist' = [hist EXCEPT !.given = Append(@, dev.fifoBuffer[dev.rIdx])]
  /\ rd' = [rd EXCEPT !.rem = @ - 1]
  /\ UNCHANGED <<kind, fpga, irq, prog>>

(* readBuf: a word, or 0 if the ring is empty.                             *)
ReadTake ==
  /\ rd.pc = "take" /\ rd.rem > 0
  /\ IF dev.bufCount <= 0
       THEN UNCHANGED dev /\ hist' = [hist EXCEPT !.given = Append(@, 0)]
       ELSE /\ dev' = [dev EXCEPT !.rIdx = (@ + 1) % dev.bufSize, !.bufCount = @ - 1]
            /\ hist' = [hist EXCEPT !.given = Append(@, dev.fifoBuffer[dev.rIdx])]
  /\ rd' = [rd EXCEPT !.rem = @ - 1]
  /\ UNCHANGED <<kind, fpga, irq, prog>>

ReadReturn ==
  /\ rd.rem = 0 /\ At("take", "user")
  /\ UNCHANGED <<kind, fpga, dev, irq, prog, hist>>

Reading == \/ Select \/ ReadReady \/ ReadTest \/ ReadWait \/ ReadWoken
           \/ ReadOcc \/ ReadTake \/ ReadReturn

-----------------------------------------------------------------------------
(* open, the ioctls in the program's order, release.                       *)
Stage(here, there) == prog = here /\ prog' = there

(* The words in the ring, oldest first.                                    *)
Ring == [k \in 1 .. dev.bufCount |-> dev.fifoBuffer[(dev.rIdx + k - 1) % dev.bufSize]]

Open ==
  /\ Stage("closed", "open")
  /\ dev' = [dev EXCEPT !.busy = 1, !.wIdx = 0, !.rIdx = 0, !.bufCount = 0,
                        !.bufSize = BufSize, !.fifoBuffer = Fresh(BufSize)]
  /\ \E b \in BOOLEAN : rd' = [rd EXCEPT !.nonblock = b]
  /\ UNCHANGED <<kind, fpga, irq, hist>>

(* SET_BUFSIZE, which only axi_stream_fifo has. Refused while armed; the   *)
(* indices and the count stay as they are.                                 *)
SetBufSize ==
  /\ Stream /\ ~Armed /\ prog \in {"open", "run"}
  /\ Careful => prog = "open" /\ dev.bufCount = 0 /\ irq.pc = "idle"
  /\ \E n \in BufSizes :
       dev' = [dev EXCEPT !.bufSize = n, !.fifoBuffer = Fresh(n)]
  /\ UNCHANGED <<kind, fpga, irq, rd, prog, hist>>

(* RESET. An interrupt that the last program left enabled may be served    *)
(* meanwhile: the handler then pops words that are gone.                   *)
Reset ==
  /\ Stage("open", "reset")
  /\ fpga' = [fpga EXCEPT !.isr = {}, !.fifo = <<>>]
  /\ dev' = [dev EXCEPT !.overflow = FALSE]
  /\ hist' = [hist EXCEPT !.gone = @ \cup ToSet(fpga.fifo), !.untold = FALSE,
                          !.raced = @ \/ irq.pc # "idle"]
  /\ UNCHANGED <<kind, irq, rd>>

(* FIFO_INT_HALF_SIZE, FIFO_INT_FIRST_SAMPLE.                              *)
SetMode ==
  /\ Stage("reset", "mode")
  /\ \E b \in BOOLEAN : dev' = [dev EXCEPT !.half = b]
  /\ UNCHANGED <<kind, fpga, irq, rd, hist>>

(* CLEAR: clear the FIFO, then enable the interrupts.                      *)
Clear ==
  /\ Stage("mode", "clear")
  /\ fpga' = [fpga EXCEPT !.fifo = <<>>]
  /\ hist' = [hist EXCEPT !.gone = @ \cup ToSet(fpga.fifo), !.untold = FALSE,
                          !.aborted = FALSE,
                          !.raced = @ \/ irq.pc # "idle"]
  /\ UNCHANGED <<kind, dev, irq, rd>>

ClearIer ==
  /\ Stage("clear", "run")
  /\ fpga' = SetBits(fpga.isr, EnableMask)
  /\ UNCHANGED <<kind, dev, irq, rd, hist>>

(* release: interrupts off; free_irq waits for the handler, which may have *)
(* turned them on again.                                                   *)
Release ==
  /\ rd.pc = "user" /\ Stage("run", "release")
  /\ fpga' = [fpga EXCEPT !.ier = {}]
  /\ UNCHANGED <<kind, dev, irq, rd, hist>>

ReleaseFree ==
  /\ irq.pc = "idle" /\ Stage("release", "closed")
  /\ dev' = [dev EXCEPT !.busy = 0]
  /\ hist' = [hist EXCEPT !.gone = @ \cup ToSet(Ring)]
  /\ UNCHANGED <<kind, fpga, irq, rd>>

Calls == Open \/ SetBufSize \/ Reset \/ SetMode \/ Clear \/ ClearIer \/ Release \/ ReleaseFree

-----------------------------------------------------------------------------
(* After probe of either driver.                                           *)
Init ==
  /\ kind \in Kinds
  /\ fpga = [next |-> 1, fifo |-> <<>>, isr |-> {}, ier |-> {}, pend |-> FALSE]
  /\ dev = [busy |-> 0, overflow |-> FALSE, half |-> FALSE, fifoBuffer |-> Fresh(BufSize),
            bufSize |-> BufSize, wIdx |-> 0, rIdx |-> 0, bufCount |-> 0]
  /\ irq = [pc |-> "idle", occ |-> 0, cur |-> Junk]
  /\ rd = [pc |-> "user", rem |-> 0, nonblock |-> FALSE]
  /\ prog = "closed"
  /\ hist = [given |-> <<>>, gone |-> {}, untold |-> FALSE, aborted |-> FALSE, raced |-> FALSE]

Next == Emit \/ Irq \/ Call \/ Reading \/ ReadSignal \/ Calls

Spec == Init /\ [][Next]_vars

(* Interrupts are served, runnable threads run, the program reads on.      *)
Fairness ==
  /\ WF_vars(Irq)
  /\ WF_vars(Reading)
  /\ WF_vars(Call)

FairSpec == Spec /\ Fairness
=============================================================================
