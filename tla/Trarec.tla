-------------------------------- MODULE Trarec --------------------------------
(***************************************************************************)
(* The transient recorder of the FPGA (rfx_nioadc/src/trarec.vhdl): every  *)
(* sample goes into a circular buffer; when the signal crosses a threshold *)
(* for long enough, the samples around the crossing are copied to the      *)
(* sample FIFO and the time of the trigger to the time FIFO.               *)
(*                                                                         *)
(* Two processes share one clock. handle_state runs at the rising edge;    *)
(* handle_cbuf takes a sample at the rising edge and moves data at the     *)
(* falling edge. A signal one edge assigns is seen by the next. Between    *)
(* edges the inputs change: samples, trigger pin, command register.        *)
(*                                                                         *)
(* Abstracted: a sample is its number, and whether it is beyond the        *)
(* threshold (channel, polarity and level only decide that). External: the *)
(* decimator in front, which passes at most one sample in dec clocks, and  *)
(* the block memory, whose output register makes a read take two clocks.   *)
(***************************************************************************)
EXTENDS Integers, Sequences

CONSTANTS
  CbufSize,    (* C_CBUF_SIZE: samples in the circular buffer              *)
  WordSize,    (* values of one word of the time stream: 2^32              *)
  Configs,     (* contents of the configuration registers                  *)
  MaxSamples,  (* bound: samples that arrive in a behaviour                *)
  None         (* no address, no data                                      *)

(* A frame's pre samples fit into the buffer, and the buffer holds the      *)
(* sample it reads besides the one it writes.                               *)
ASSUME TrarecAssumption ==
  /\ CbufSize \in Nat \ {0, 1} /\ WordSize \in Nat \ {0, 1} /\ MaxSamples \in Nat
  /\ \A c \in Configs :
       /\ c.continuous \in BOOLEAN
       /\ c.pre \in Nat /\ c.post \in Nat /\ c.trig \in Nat
       /\ c.pre + c.trig < CbufSize
       /\ c.dec \in Nat \ {0}
  /\ None \notin Int \cup BOOLEAN \cup [addr : Int, data : Int]

VARIABLES
  edge,          \* the clock edge that comes next: "rise" or "fall"
  cfg,           \* mode_cfg, pre_post_cfg and the decimator's register
  \* inputs
  cmd, pin,      \* command register (a level), trigger_in
  sin, gap,      \* sample input: None, or beyond the threshold or not; clocks since the last
  n,             \* samples taken so far, and the number of the next
  \* handle_state
  state, currCount, triggerTime, mask, startOut, inAddr,
  \* handle_cbuf
  available, currIn, outAddr, memState,
  \* block memory: write and read ports, contents, the two read stages
  wr, addrb, cbuf, q, doutb,
  \* outputs
  m, t

inVars  == <<cmd, pin, sin, gap>>
fsmVars == <<state, currCount, triggerTime, mask, startOut, inAddr>>
bufVars == <<available, currIn, outAddr, memState, wr, addrb>>
ramVars == <<cbuf, q, doutb>>
outVars == <<m, t>>
vars == <<edge, cfg, inVars, n, fsmVars, bufVars, ramVars, outVars>>

Valid  == sin # None
Beyond == sin = TRUE
Tick   == IF Valid THEN triggerTime + 1 ELSE triggerTime

-----------------------------------------------------------------------------
(* handle_state, one action per state; a stop command overrides.           *)

FsmIdle ==
  /\ state = "IDLE"
  /\ state' = IF cmd = "arm" THEN "ARMED" ELSE "IDLE"
  /\ UNCHANGED <<currCount, triggerTime, mask, startOut, inAddr>>

FsmStop ==
  /\ state \in {"ARMED", "RUNNING", "CHECK"} /\ cmd = "stop"
  /\ state' = "IDLE"
  /\ UNCHANGED <<currCount, triggerTime, mask, startOut, inAddr>>

FsmArmed ==
  /\ state = "ARMED" /\ cmd # "stop"
  /\ IF pin \/ cmd = "trig"
       THEN state' = "RUNNING" /\ triggerTime' = 0
       ELSE UNCHANGED <<state, triggerTime>>
  /\ UNCHANGED <<currCount, mask, startOut, inAddr>>

FsmRunning ==
  /\ state = "RUNNING" /\ cmd # "stop"
  /\ triggerTime' = IF cfg.continuous THEN triggerTime ELSE Tick
  /\ IF Beyond /\ ~cfg.continuous
       THEN state' = "CHECK" /\ currCount' = 0
       ELSE UNCHANGED <<state, currCount>>
  /\ UNCHANGED <<mask, startOut, inAddr>>

(* Waiting for a sample, one more beyond the threshold, or one below it.   *)
FsmCheck ==
  /\ state = "CHECK" /\ cmd # "stop" /\ (Beyond => currCount < cfg.trig)
  /\ triggerTime' = Tick
  /\ state' = IF Valid /\ ~Beyond THEN "RUNNING" ELSE "CHECK"
  /\ currCount' = IF Beyond THEN currCount + 1 ELSE currCount
  /\ UNCHANGED <<mask, startOut, inAddr>>

(* Mutant of FsmValidate: one sample too early.                             *)
FsmValidateEarly ==
  /\ state = "CHECK" /\ cmd # "stop" /\ Beyond /\ currCount >= cfg.trig
  /\ triggerTime' = Tick
  /\ state' = "POST" /\ currCount' = cfg.trig
  /\ startOut' = (currIn - cfg.pre - cfg.trig - 1) % CbufSize
  /\ inAddr' = currIn
  /\ mask' = {"lo", "hi"}

(* The trigger is validated: read out from pre samples before the end of   *)
(* the first sample beyond the threshold up to what is in the buffer.      *)
FsmValidate ==
  /\ state = "CHECK" /\ cmd # "stop" /\ Beyond /\ currCount >= cfg.trig
  /\ triggerTime' = Tick
  /\ state' = "POST" /\ currCount' = cfg.trig
  /\ LET a == currIn - cfg.pre - cfg.trig
     IN  startOut' = IF a < 0 THEN a + CbufSize ELSE a
  /\ inAddr' = currIn
  /\ mask' = {"lo", "hi"}

(* Mutant of FsmPost: the mask of the time words is not cleared.            *)
FsmPostKeepMask ==
  /\ state = "POST"
  /\ startOut' = None
  /\ IF cmd = "stop"
       THEN state' = "IDLE" /\ UNCHANGED <<triggerTime, currCount, inAddr>>
       ELSE /\ triggerTime' = Tick
            /\ currCount' = IF Valid THEN currCount + 1 ELSE currCount
            /\ inAddr' = IF Valid THEN currIn ELSE inAddr
            /\ state' = IF Valid /\ currCount' >= cfg.post THEN "RUNNING" ELSE "POST"
  /\ UNCHANGED mask

(* Mutant of FsmPost: one post-trigger sample is missing.                   *)
FsmPostShort ==
  /\ state = "POST"
  /\ mask' = IF "lo" \in mask THEN mask \ {"lo"} ELSE {}
  /\ startOut' = None
  /\ IF cmd = "stop"
       THEN state' = "IDLE" /\ UNCHANGED <<triggerTime, currCount, inAddr>>
       ELSE /\ triggerTime' = Tick
            /\ currCount' = IF Valid THEN currCount + 1 ELSE currCount
            /\ inAddr' = IF Valid THEN currIn ELSE inAddr
            /\ state' = IF Valid /\ currCount' + 1 >= cfg.post THEN "RUNNING" ELSE "POST"

(* Post-trigger samples; meanwhile the time words are masked one by one.   *)
FsmPost ==
  /\ state = "POST"
  /\ mask' = IF "lo" \in mask THEN mask \ {"lo"} ELSE {}
  /\ startOut' = None
  /\ IF cmd = "stop"
       THEN state' = "IDLE" /\ UNCHANGED <<triggerTime, currCount, inAddr>>
       ELSE /\ triggerTime' = Tick
            /\ currCount' = IF Valid THEN currCount + 1 ELSE currCount
            /\ inAddr' = IF Valid THEN currIn ELSE inAddr
            /\ state' = IF Valid /\ currCount' >= cfg.post THEN "RUNNING" ELSE "POST"

HandleState == \/ FsmIdle \/ FsmStop \/ FsmArmed \/ FsmRunning
               \/ FsmCheck \/ FsmValidate \/ FsmPost

-----------------------------------------------------------------------------
(* The memory writes what the falling edge put on port A and moves the two *)
(* stages of port B. Both ports see the memory before the edge.            *)
Ram ==
  /\ cbuf' = IF wr = None THEN cbuf ELSE [cbuf EXCEPT ![wr.addr] = wr.data]
  /\ q' = IF addrb = None THEN q ELSE cbuf[addrb]
  /\ doutb' = q

(* What the outside may put on the inputs after a rising edge: at most one *)
(* sample in dec clocks, any level of the pin, one write to the register.  *)
NextInput ==
  /\ sin' \in {None} \cup (IF gap' >= cfg.dec /\ n' < MaxSamples THEN BOOLEAN ELSE {})
  /\ pin' \in BOOLEAN
  /\ cmd' \in {cmd, "arm", "stop", "trig"}

Rise ==
  /\ edge = "rise" /\ edge' = "fall"
  /\ HandleState
  /\ Ram
  /\ available' = Valid
  /\ n' = IF Valid THEN n + 1 ELSE n
  /\ gap' = IF Valid THEN 1 ELSE IF gap < cfg.dec THEN gap + 1 ELSE gap
  /\ NextInput
  /\ UNCHANGED <<cfg, currIn, outAddr, memState, wr, addrb, outVars>>

-----------------------------------------------------------------------------
(* handle_cbuf at the falling edge.                                        *)

(* A start address overrides the read pointer for the clock it is there.   *)
ReadFrom == IF startOut = None THEN outAddr ELSE startOut
ReadMore == ReadFrom # inAddr

(* Mutant of Readout: forgets the word that is still in the memory.         *)
ReadoutDrop ==
  /\ addrb' = IF ReadMore THEN ReadFrom ELSE addrb
  /\ outAddr' = IF ReadMore THEN (ReadFrom + 1) % CbufSize ELSE ReadFrom
  /\ memState' = IF ReadMore
                 THEN IF memState \in {"IDLE", "NO_PIPE"} THEN "START" ELSE "PIPE"
                 ELSE "IDLE"

(* The read pipeline: PIPE and NO_PIPE have a word at the memory's output. *)
Readout ==
  /\ addrb' = IF ReadMore THEN ReadFrom ELSE addrb
  /\ outAddr' = IF ReadMore THEN (ReadFrom + 1) % CbufSize ELSE ReadFrom
  /\ memState' = IF ReadMore
                 THEN IF memState \in {"IDLE", "NO_PIPE"} THEN "START" ELSE "PIPE"
                 ELSE IF memState \in {"START", "PIPE"} THEN "NO_PIPE" ELSE "IDLE"

Streaming == cfg.continuous /\ state \in {"RUNNING", "CHECK", "POST"}

(* m_axis: the sample at the input when streaming, else what was read.     *)
SampleOut ==
  m' = IF Streaming THEN (IF Valid THEN n ELSE None)
       ELSE IF memState \in {"PIPE", "NO_PIPE"} THEN doutb ELSE None

(* t_axis: low word, then high word, of a counter that may go on counting. *)
TimeOut ==
  t' = IF "lo" \in mask THEN triggerTime % WordSize
       ELSE IF "hi" \in mask THEN triggerTime \div WordSize ELSE None

(* The sample taken at the rising edge goes to the memory.                 *)
Insert ==
  /\ wr' = IF available THEN [addr |-> currIn, data |-> n - 1] ELSE None
  /\ currIn' = IF available THEN (currIn + 1) % CbufSize ELSE currIn
  /\ available' = FALSE

Fall ==
  /\ edge = "fall" /\ edge' = "rise"
  /\ SampleOut /\ TimeOut /\ Readout /\ Insert
  /\ UNCHANGED <<cfg, inVars, n, fsmVars, ramVars>>

-----------------------------------------------------------------------------
(* Power-on. A word of the memory nobody has written has a number below 0. *)
Init ==
  /\ edge = "rise" /\ cfg \in Configs
  /\ cmd = "none" /\ pin = FALSE /\ sin = None /\ gap = 1 /\ n = 0
  /\ state = "IDLE" /\ currCount = 0 /\ triggerTime = 0 /\ mask = {}
  /\ startOut = None /\ inAddr = 0
  /\ available = FALSE /\ currIn = 0 /\ outAddr = 0 /\ memState = "IDLE"
  /\ wr = None /\ addrb = None
  /\ cbuf = [a \in 0 .. CbufSize - 1 |-> a - CbufSize] /\ q = 0 /\ doutb = 0
  /\ m = None /\ t = None

Next == Rise \/ Fall

Spec == Init /\ [][Next]_vars
=============================================================================
