--------------------------- MODULE StreamPromises ---------------------------
(* What StreamFifo's two drivers promise a program.                        *)
EXTENDS StreamFifo

(* Words on their way to the program, the next one to be given first.      *)
Transit == (IF dev.busy = 1 THEN Ring ELSE <<>>)
             \o (IF irq.pc = "put" THEN <<irq.cur>> ELSE <<>>) \o fpga.fifo

(* Words in the order of the source, none of them twice.                   *)
Ordered(s) == \A i, j \in DOMAIN s : i < j => s[i] < s[j]

(* Every sample is given once, is on its way, or has been lost where the   *)
(* code says so, and the order is kept, over any number of programs: until *)
(* RESET or CLEAR empties the FIFO under a handler that is popping it.     *)
Conservation ==
  ~hist.raced =>
    /\ Ordered(hist.given \o Transit)
    /\ ToSet(hist.given \o Transit) = (1 .. fpga.next - 1) \ hist.gone

(* An overflow is told: a sample that the FIFO had no room for, with no    *)
(* handler at work on the words before it, has raised fifoOverflow before  *)
(* a word is taken out of the FIFO, and read() fails until RESET. (One     *)
(* lost between the handler's look at the occupancy and its first pop is   *)
(* not told, nor is one that rfx_rpadc drops for a full ring.)             *)
OverflowTold == hist.untold /\ Len(fpga.fifo) < FifoLen => dev.overflow

(* In first-sample mode every sample that has reached the FIFO of a        *)
(* running program is given to it in the end, unless the overflow is told, *)
(* the driver has given up, or the program ends or waits for half a FIFO.  *)
Delivery ==
  \A n \in 1 .. MaxSamples :
    prog = "run" /\ ~dev.half /\ n \in ToSet(fpga.fifo)
      ~> prog # "run" \/ dev.overflow \/ hist.aborted \/ n \in ToSet(hist.given) \cup hist.gone
=============================================================================
