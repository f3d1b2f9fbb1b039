------------------------------- MODULE XadcZynq -------------------------------
(***************************************************************************)
(* The XADC driver on a Zynq (xilinx-xadc-core.c, xadc_zynq_ops): register  *)
(* accesses go through a command and a data FIFO and sleep until the        *)
(* interrupt handler completes them; alarms are level sensitive, so the     *)
(* handler masks the active ones and a delayed work unmasks them.           *)
(*                                                                         *)
(* Calls (channel reads, event configuration, thresholds) hold the mutex:   *)
(* one at a time. What the spinlock covers is one step; the handler reads   *)
(* the status and the masks before it takes the lock, the worker before     *)
(* and after.                                                               *)
(*                                                                         *)
(* External: the FIFOs (a command is answered with what the previous one    *)
(* fetched), the level-sensitive "more than the threshold" interrupt, the   *)
(* alarm status bits, which stay set until cleared.                         *)
(***************************************************************************)
EXTENDS XadcEvents, Integers, FiniteSets, Sequences

CONSTANTS
  Channels,    (* channels with events that programs use                  *)
  Top,         (* the largest threshold (0xffff)                          *)
  MaxCalls     (* bound: calls in a behaviour                             *)

ASSUME ZynqAssumption ==
  /\ Channels \subseteq Channel /\ Temp \in Channels
  /\ Top \in Nat \ {0} /\ MaxCalls \in Nat

VARIABLES
  core,   \* the XADC: conditions present, CONF1, thresholds, FIFOs, status
  xadc,   \* struct xadc: masks, alarm_mask, thresholds, completion
  call,   \* the call that holds the mutex: accesses left, place, last value
  irq,    \* xadc_zynq_interrupt_handler: place and status
  work,   \* xadc_zynq_unmask_worker: queued, place, alarms it found active
  hist    \* calls made; accesses spoiled, registers given up, alarms due

zynqVars == <<core, xadc, call, irq, work, hist>>

Alarms  == {AlarmOf(c) : c \in Channels}
Offsets == {Offset(c, f) : c \in Channels, f \in BOOLEAN}
Value   == 0 .. Top
(* All interrupts: the alarms and DFIFO_GTH.                               *)
GTH     == 8
Ints    == {ToZynq(a) : a \in Alarms} \cup {GTH}

(* The alarm bits of STATUS: conditions present and not disabled in CONF1. *)
Active(c) == {ToZynq(a) : a \in c.on \ c.conf.dis}

(* INTSTS.                                                                 *)
IntSts == core.sts \cup (IF Len(core.dfifo) > core.dfifoth THEN {GTH} ELSE {})

(* INTMSK, which xadc_zynq_update_intmsk keeps equal to both masks.        *)
Masks == xadc.intmask \cup xadc.masked

(* Alarms whose condition a change brings about, where they are enabled.   *)
Risen(new) == {a \in Alarms : ToZynq(a) \in Active(new) \ (Active(core) \cup xadc.intmask)}

(* The XADC after a change: bits that are active are latched.              *)
Latch(c) == [c EXCEPT !.sts = @ \cup Active(c)]

(* Register numbers; ADC stands for the channel's data register.           *)
ADC   == 0
CONF1 == 65
Threshold(o) == 80 + o

Cmd(op, reg, data) == [op |-> op, reg |-> reg, data |-> data]
None == [reg |-> -1]
Nop  == Cmd("NOP", ADC, None)

(* A locked section between the handler's two reads: it combines a status  *)
(* with masks that are not of the same moment.                             *)
Straddled == irq.pc = "mask"

-----------------------------------------------------------------------------
(* External: the XADC executes a command.                                  *)
Fetched(reg) ==
  CASE reg = ADC   -> [reg |-> ADC]
    [] reg = CONF1 -> [reg |-> CONF1, conf |-> core.conf]
    [] OTHER         -> None

Execute ==
  /\ core.cfifo # <<>>
  /\ LET c == Head(core.cfifo)
         done == [core EXCEPT !.cfifo = Tail(@), !.dfifo = Append(@, core.latch),
                              !.latch = IF c.op = "READ" THEN Fetched(c.reg) ELSE None]
         new == IF c.op # "WRITE" THEN done
                ELSE IF c.reg = CONF1 THEN [done EXCEPT !.conf = c.data.conf]
                ELSE [done EXCEPT !.thr[c.reg - Threshold(0)] = c.data.val]
     IN /\ core' = Latch(new)
        /\ hist' = [hist EXCEPT !.due = @ \cup Risen(new)]
  /\ UNCHANGED <<xadc, call, irq, work>>

(* A condition appears or goes away.                                       *)
Toggle ==
  /\ \E a \in Alarms :
       LET new == [core EXCEPT !.on = IF a \in @ THEN @ \ {a} ELSE @ \cup {a}]
       IN core' = Latch(new) /\ hist' = [hist EXCEPT !.due = @ \cup Risen(new)]
  /\ UNCHANGED <<xadc, call, irq, work>>

-----------------------------------------------------------------------------
(* Register accesses. Under the lock: mask DFIFO_GTH, reinit_completion,   *)
(* write the commands, set the threshold, unmask.                          *)
Issued(cmds, th, old) ==
  /\ core' = [core EXCEPT !.cfifo = @ \o cmds, !.dfifo = old, !.dfifoth = th]
  /\ xadc' = [xadc EXCEPT !.done = FALSE, !.intmask = @ \ {GTH}]

(* Mutant of ReadIssue: the threshold lets the first answer through.        *)
ReadIssueEarly ==
  /\ call.pc = "issue" /\ Head(call.todo).op = "READ"
  /\ Issued(<<Head(call.todo), Nop>>, 0, <<>>)
  /\ call' = [call EXCEPT !.pc = "wait"]
  /\ hist' = [hist EXCEPT !.spoiled =
                (@ \/ Straddled) /\ ~(core.cfifo = <<>> /\ irq.pc = "idle")]
  /\ UNCHANGED <<irq, work>>

(* A read drains the data FIFO: nothing of an earlier access is left once  *)
(* the command FIFO is empty and no handler is running.                    *)
ReadIssue ==
  /\ call.pc = "issue" /\ Head(call.todo).op = "READ"
  /\ Issued(<<Head(call.todo), Nop>>, 1, <<>>)
  /\ call' = [call EXCEPT !.pc = "wait"]
  /\ hist' = [hist EXCEPT !.spoiled =
                (@ \/ Straddled) /\ ~(core.cfifo = <<>> /\ irq.pc = "idle")]
  /\ UNCHANGED <<irq, work>>

WriteIssue ==
  /\ call.pc = "issue" /\ Head(call.todo).op = "WRITE"
  /\ Issued(<<Head(call.todo)>>, 0, core.dfifo)
  /\ call' = [call EXCEPT !.pc = "wait"]
  /\ hist' = [hist EXCEPT !.spoiled = @ \/ Straddled, !.bad = @ \ {Head(call.todo).reg}]
  /\ UNCHANGED <<irq, work>>

(* The data FIFO after n reads of it, and the last word read.              *)
PopN(n) == SubSeq(core.dfifo, n + 1, Len(core.dfifo))
Word(n) == IF Len(core.dfifo) >= n THEN core.dfifo[n] ELSE None

Idle(c) == [c EXCEPT !.pc = "idle", !.todo = <<>>]
Rest(c) == IF Len(c.todo) = 1 THEN Idle(c) ELSE [c EXCEPT !.pc = "issue", !.todo = Tail(@)]

ReadDone ==
  /\ call.pc = "wait" /\ xadc.done /\ Head(call.todo).op = "READ"
  /\ xadc' = [xadc EXCEPT !.done = FALSE]
  /\ core' = [core EXCEPT !.dfifo = PopN(2)]
  /\ call' = [call EXCEPT !.pc = "got", !.val = Word(2)]
  /\ UNCHANGED <<irq, work, hist>>

WriteDone ==
  /\ call.pc = "wait" /\ xadc.done /\ Head(call.todo).op = "WRITE"
  /\ xadc' = [xadc EXCEPT !.done = FALSE]
  /\ core' = [core EXCEPT !.dfifo = PopN(1)]
  /\ call' = Rest(call)
  /\ UNCHANGED <<irq, work, hist>>

(* What a call that ends early has not written.                            *)
Unwritten ==
  IF Head(call.todo).op = "READ" THEN {Head(call.todo).reg} \ {ADC}
  ELSE {call.todo[i].reg : i \in 2 .. Len(call.todo)}

(* No completion in HZ: -EIO. The command stays in the FIFO; a write takes *)
(* a word all the same.                                                    *)
Timeout ==
  /\ call.pc = "wait" /\ ~xadc.done
  /\ core' = IF Head(call.todo).op = "WRITE" THEN [core EXCEPT !.dfifo = PopN(1)] ELSE core
  /\ call' = Idle(call)
  /\ hist' = [hist EXCEPT !.spoiled = TRUE, !.bad = @ \cup Unwritten]
  /\ UNCHANGED <<xadc, irq, work>>

(* A signal: a read fails, a write is counted as done.                     *)
Signal ==
  /\ call.pc = "wait" /\ ~xadc.done
  /\ IF Head(call.todo).op = "WRITE"
       THEN /\ core' = [core EXCEPT !.dfifo = PopN(1)] /\ call' = Rest(call)
            /\ hist' = [hist EXCEPT !.spoiled = TRUE]
       ELSE /\ call' = Idle(call) /\ UNCHANGED core
            /\ hist' = [hist EXCEPT !.spoiled = TRUE, !.bad = @ \cup Unwritten]
  /\ UNCHANGED <<xadc, irq, work>>

-----------------------------------------------------------------------------
(* Calls. Each takes the mutex and leaves a list of accesses to do.        *)
Begin(todo) ==
  /\ call.pc = "idle" /\ hist.calls < MaxCalls
  /\ call' = [call EXCEPT !.pc = "issue", !.todo = todo]

(* xadc_read_raw of a channel.                                             *)
ReadRaw ==
  /\ Begin(<<Cmd("READ", ADC, None)>>)
  /\ hist' = [hist EXCEPT !.calls = @ + 1]
  /\ UNCHANGED <<core, xadc, irq, work>>

ReadValue ==
  /\ call.pc = "got" /\ Head(call.todo).reg = ADC
  /\ call' = Idle(call)
  /\ UNCHANGED <<core, xadc, irq, work, hist>>

(* xadc_write_event_config: alarm_mask, then xadc_zynq_update_alarm (clear *)
(* the interrupts of the alarms enabled, mask the others), then CONF1.     *)
WriteEventConfig ==
  \E c \in Channels, on \in BOOLEAN :
    LET mask == IF on THEN xadc.alarm_mask \cup {AlarmOf(c)} ELSE xadc.alarm_mask \ {AlarmOf(c)}
        open == {ToZynq(a) : a \in mask}
        int  == (Ints \ (open \cup {GTH})) \cup (xadc.intmask \cap {GTH})
    IN /\ Begin(<<Cmd("READ", CONF1, None)>>)
       /\ xadc' = [xadc EXCEPT !.alarm_mask = mask, !.intmask = int]
       /\ core' = Latch([core EXCEPT !.sts = @ \ open])
       /\ hist' = [hist EXCEPT !.calls = @ + 1, !.spoiled = @ \/ irq.pc # "idle",
                               !.due = (@ \ mask) \cup {a \in mask : ToZynq(a) \in Active(core)}]
       /\ UNCHANGED <<irq, work>>

(* Mutant of WriteConf: only the alarm bits, not what else is in CONF1.     *)
WriteConfFresh ==
  /\ call.pc = "got" /\ Head(call.todo).reg = CONF1
  /\ LET conf == [dis |-> Alarms \ xadc.alarm_mask, mode |-> "junk"]
     IN call' = [call EXCEPT !.pc = "issue",
                             !.todo = <<Cmd("WRITE", CONF1, [reg |-> CONF1, conf |-> conf])>>]
  /\ UNCHANGED <<core, xadc, irq, work, hist>>

(* The rest of it: CONF1 is written if a disable bit changes. What is read *)
(* may be no answer to the read (bad keeps ADC for the sequencer's mode).  *)
WriteConf ==
  /\ call.pc = "got" /\ Head(call.todo).reg = CONF1
  /\ LET dis == Alarms \ xadc.alarm_mask
         old == IF call.val.reg = CONF1 THEN call.val.conf ELSE [dis |-> {}, mode |-> "junk"]
         new == [old EXCEPT !.dis = dis]
     IN call' = IF new = old THEN Idle(call)
                ELSE [call EXCEPT !.pc = "issue",
                        !.todo = <<Cmd("WRITE", CONF1, [reg |-> CONF1, conf |-> new])>>]
  /\ hist' = [hist EXCEPT !.bad = IF hist.spoiled THEN @ \cup {CONF1, ADC} ELSE @ \ {CONF1}]
  /\ UNCHANGED <<core, xadc, irq, work>>

(* xadc_write_event_value: a threshold, or the hysteresis of the           *)
(* temperature, whose lower threshold is written first, then the upper.    *)
Write(o, v) == Cmd("WRITE", Threshold(o), [reg |-> Threshold(o), val |-> v])
Lower(max, hyst) == IF max < hyst THEN 0 ELSE max - hyst

WriteEventValue ==
  \E c \in Channels, v \in Value, falling \in BOOLEAN :
    LET o == Offset(c, falling)
        low == Lower(v, xadc.hyst)
    IN /\ c = Temp => ~falling
       /\ IF c = Temp
            THEN /\ Begin(<<Write(o + 4, low), Write(o, v)>>)
                 /\ xadc' = [xadc EXCEPT !.threshold[o] = v, !.threshold[o + 4] = low]
            ELSE /\ Begin(<<Write(o, v)>>)
                 /\ xadc' = [xadc EXCEPT !.threshold[o] = v]
       /\ hist' = [hist EXCEPT !.calls = @ + 1]
       /\ UNCHANGED <<core, irq, work>>

WriteHysteresis ==
  \E v \in Value :
    LET o == Offset(Temp, FALSE)
        low == Lower(xadc.threshold[o], v)
    IN /\ Begin(<<Write(o + 4, low)>>)
       /\ xadc' = [xadc EXCEPT !.hyst = v, !.threshold[o + 4] = low]
       /\ hist' = [hist EXCEPT !.calls = @ + 1]
       /\ UNCHANGED <<core, irq, work>>

Calls == \/ ReadRaw \/ ReadValue \/ WriteEventConfig \/ WriteConf
         \/ WriteEventValue \/ WriteHysteresis

-----------------------------------------------------------------------------
(* The interrupt handler reads INTSTS, ...                                 *)
IrqStatus ==
  /\ irq.pc = "idle" /\ ~(IntSts \subseteq Masks)
  /\ irq' = [pc |-> "mask", status |-> IntSts]
  /\ UNCHANGED <<core, xadc, call, work, hist>>

(* ... leaves out what is masked, ...                                      *)
IrqMasked ==
  /\ irq.pc = "mask"
  /\ LET s == irq.status \ Masks
     IN irq' = [irq EXCEPT !.pc = IF s = {} THEN "idle" ELSE "lock", !.status = s]
  /\ UNCHANGED <<core, xadc, call, work, hist>>

(* The channels it reports (xadc_handle_events).                           *)
Reported == Pushed({FromZynq(b) : b \in irq.status \ {GTH}})

(* ... and under the lock clears the status, completes the access, masks   *)
(* the alarms, reports them and schedules the work.                        *)
IrqLocked ==
  /\ irq.pc = "lock"
  /\ LET al == irq.status \ {GTH}
     IN /\ core' = Latch([core EXCEPT !.sts = @ \ irq.status])
        /\ xadc' = [xadc EXCEPT !.done = @ \/ GTH \in irq.status,
                                !.intmask = @ \cup (irq.status \cap {GTH}),
                                !.masked = @ \cup al]
        /\ irq' = [pc |-> "idle", status |-> {}]
        /\ work' = [work EXCEPT !.queued = @ \/ al # {}]
        /\ hist' = [hist EXCEPT !.due = @ \ {FromZynq(b) : b \in al}]
  /\ UNCHANGED call

-----------------------------------------------------------------------------
(* The work, a while later: read STATUS, ...                               *)
WorkStatus ==
  /\ work.pc = "idle" /\ work.queued
  /\ work' = [queued |-> FALSE, pc |-> "lock", misc |-> Active(core)]
  /\ UNCHANGED <<core, xadc, call, irq, hist>>

(* Alarms it unmasks that have come up since: they are reported again.     *)
Stale == {a \in Alarms : ToZynq(a) \in (xadc.masked \ work.misc) \cap Active(core)}

(* Mutant of WorkLocked: the inactive alarms stay masked.                   *)
WorkLockedKeep ==
  /\ work.pc = "lock"
  /\ core' = Latch([core EXCEPT !.sts = @ \ (xadc.masked \ work.misc)])
  /\ xadc' = [xadc EXCEPT !.masked = @ \ xadc.intmask]
  /\ work' = [work EXCEPT !.pc = "test", !.misc = {}]
  /\ hist' = [hist EXCEPT !.spoiled = @ \/ Straddled, !.due = @ \cup Stale]
  /\ UNCHANGED <<call, irq>>

(* ... under the lock clear and unmask the alarms that were not active and *)
(* unmask those that are disabled anyway, ...                              *)
WorkLocked ==
  /\ work.pc = "lock"
  /\ core' = Latch([core EXCEPT !.sts = @ \ (xadc.masked \ work.misc)])
  /\ xadc' = [xadc EXCEPT !.masked = (@ \cap work.misc) \ xadc.intmask]
  /\ work' = [work EXCEPT !.pc = "test", !.misc = {}]
  /\ hist' = [hist EXCEPT !.spoiled = @ \/ Straddled, !.due = @ \cup Stale]
  /\ UNCHANGED <<call, irq>>

(* ... and schedule itself again if any are left.                          *)
WorkTest ==
  /\ work.pc = "test"
  /\ work' = [work EXCEPT !.pc = "idle", !.queued = @ \/ xadc.masked # {}]
  /\ UNCHANGED <<core, xadc, call, irq, hist>>

-----------------------------------------------------------------------------
(* After xadc_zynq_setup and xadc_probe: all interrupts masked, all alarms *)
(* disabled, thresholds at their ends, the sequencer running.              *)
ProbeThreshold(i) == IF i % 8 < 4 \/ i = 7 THEN Top ELSE 0

ZynqInit ==
  LET thr == [o \in Offsets |-> ProbeThreshold(o)]
  IN /\ core = [on |-> {}, conf |-> [dis |-> Alarms, mode |-> "continuous"], thr |-> thr,
                cfifo |-> <<>>, dfifo |-> <<>>, latch |-> None, dfifoth |-> 0, sts |-> {}]
     /\ xadc = [intmask |-> Ints, masked |-> {}, alarm_mask |-> {}, threshold |-> thr,
                hyst |-> 0, done |-> FALSE]
     /\ call = [pc |-> "idle", todo |-> <<>>, val |-> None]
     /\ irq = [pc |-> "idle", status |-> {}]
     /\ work = [queued |-> FALSE, pc |-> "idle", misc |-> {}]
     /\ hist = [calls |-> 0, spoiled |-> FALSE, bad |-> {}, due |-> {}]

Access == ReadIssue \/ WriteIssue \/ ReadDone \/ WriteDone
Irq    == IrqStatus \/ IrqMasked \/ IrqLocked
Work   == WorkStatus \/ WorkLocked \/ WorkTest

ZynqNext == Execute \/ Toggle \/ Access \/ Timeout \/ Signal \/ Calls \/ Irq \/ Work

(* The hardware answers, the handler runs when interrupted, a work is run, *)
(* a call that has begun goes on. Nothing makes a timeout happen.          *)
ZynqFair ==
  /\ WF_zynqVars(Execute) /\ WF_zynqVars(Irq) /\ WF_zynqVars(Work)
  /\ WF_zynqVars(Access \/ ReadValue \/ WriteConf)

ZynqSpec == ZynqInit /\ [][ZynqNext]_zynqVars /\ ZynqFair
=============================================================================
