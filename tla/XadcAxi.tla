-------------------------------- MODULE XadcAxi --------------------------------
(***************************************************************************)
(* The XADC driver on the AXI cores (xadc_axi_ops, sysmon_axi_ops): register*)
(* accesses are immediate, so what a caller does under the mutex or the     *)
(* spinlock is one step. Several callers change fields of the same          *)
(* registers: event configuration, the triggers, the sampling rate, and the *)
(* IIO buffer, which sets the sequencer up in several calls. A trigger      *)
(* starts a thread that reads the channels being scanned.                   *)
(*                                                                         *)
(* External: the core, whose status bits latch the rise of an alarm and the *)
(* end of a sequence and are cleared by writing them; and IIO, which starts *)
(* and stops a buffer in a fixed order and waits for the thread when it     *)
(* detaches it.                                                             *)
(***************************************************************************)
EXTENDS XadcEvents, Integers, FiniteSets, Sequences, FiniteSetsExt

CONSTANTS
  EventChannels,  (* channels with events that programs use               *)
  Kids,           (* "reg" of the channels in the device tree             *)
  Garbage,        (* what an uninitialized int may hold                   *)
  ScanMasks,      (* channels programs scan, by scan index                *)
  Clock,          (* rate of the core's clock                             *)
  Rates,          (* sampling rates programs ask for                      *)
  MaxOps          (* bound: calls outside the buffer in a behaviour       *)

ASSUME AxiAssumption ==
  /\ EventChannels \subseteq Channel /\ Kids \in Seq(0 .. 16)
  /\ Garbage \subseteq 0 .. 16 /\ ScanMasks \subseteq SUBSET (5 .. 31)
  /\ Clock \in Nat /\ Rates \subseteq Nat \ {0} /\ MaxOps \in Nat

VARIABLES
  sysmon,  \* the core: conditions, fields of its registers, status, enable
  axi,     \* struct xadc: alarm_mask, trigger, size of data; the channels
  buf,     \* the IIO buffer: place, register updates left, mask, trigger
  airq,    \* xadc_axi_interrupt_handler: place and status
  thread,  \* xadc_trigger_handler: channels left, addresses read
  ahist    \* calls made; alarms that have occurred; CONF1's bit 9 overwritten

axiVars == <<sysmon, axi, buf, airq, thread, ahist>>

EOS      == 4
Triggers == {"convst", "samplerate"}

(* XADC_CONF0_EC, which the driver sets in CONF1: vccpint's disable bit.   *)
EC == 9

Disabled(alarms) == {Disable(a) : a \in Bit \ alarms}

-----------------------------------------------------------------------------
(* Scan index and register of the channels in xadc_channels, and the       *)
(* register the trigger handler reads for a scan index.                    *)
Fixed == <<8, 9, 10, 14, 5, 6, 7, 12, 13>>
ScanOf(reg) == IF reg = 0 THEN 11 ELSE 15 + reg

Address(s) ==
  CASE s \in 8 .. 10 -> s - 8 [] s = 14 -> 6 [] s \in 5 .. 7 -> s + 8
    [] s \in 11 .. 13 -> s - 8 [] OTHER -> s

(* Mutant of ScanChannel: the supply channels without their gap.            *)
ScanChannelFlat(s) ==
  CASE s \in 5 .. 14 -> (s + 2) % 10 [] OTHER -> s

ScanChannel(s) ==
  CASE s = 5 -> 13 [] s = 6 -> 14 [] s = 7 -> 15 [] s = 8 -> 0 [] s = 9 -> 1
    [] s = 10 -> 2 [] s = 11 -> 3 [] s = 12 -> 4 [] s = 13 -> 5 [] s = 14 -> 6
    [] OTHER -> 16 + (s - 16)

(* xadc_parse_dt takes a channel's entry before it reads the channel's reg:*)
(* each gets its predecessor's, the first what the variable happens to be. *)
Parsed(g) ==
  LET entry(i) == IF i = 1 THEN g ELSE Kids[i - 1]
  IN {Fixed[i] : i \in DOMAIN Fixed} \cup {ScanOf(entry(i)) : i \in DOMAIN Kids}

(* xadc_get_seq_mode, without a dual external multiplexer.                 *)
SeqMode(scan) ==
  IF scan \cap 16 .. 23 # {} /\ scan \cap 24 .. 31 # {} THEN "simultaneous" ELSE "continuous"

(* xadc_power_adc_b powers ADC B down where the mode samples two channels  *)
(* at a time.                                                              *)
PowerDown(mode) == mode = "simultaneous"

-----------------------------------------------------------------------------
(* xadc_write_raw's divider, at most 150 kSPS.                             *)
Divider(rate) ==
  LET val == Max({Min({rate, 150000}) * 26, 1000000})
      div == Clock \div val
      up  == IF (Clock \div div) \div 26 > 150000 THEN div + 1 ELSE div
  IN Max({2, Min({up, 255})})

SampleRate == (Clock \div sysmon.div) \div 26

-----------------------------------------------------------------------------
(* External: alarms of a core's state; a rise is latched.                  *)
Asserted(c) == {a \in c.on : Disable(a) \notin c.dis}

Latched(new, hist1) ==
  LET rise == Asserted(new) \ Asserted(sysmon)
  IN /\ sysmon' = [new EXCEPT !.isr = @ \cup {ToAxi(a) : a \in rise}]
     /\ ahist' = [hist1 EXCEPT !.seen = @ \cup rise]

ToggleAxi ==
  /\ \E c \in EventChannels :
       LET a == AlarmOf(c)
       IN Latched([sysmon EXCEPT !.on = IF a \in @ THEN @ \ {a} ELSE @ \cup {a}], ahist)
  /\ UNCHANGED <<axi, buf, airq, thread>>

EndOfSequence ==
  /\ EOS \notin sysmon.isr
  /\ sysmon' = [sysmon EXCEPT !.isr = @ \cup {EOS}]
  /\ UNCHANGED <<axi, buf, airq, thread, ahist>>

-----------------------------------------------------------------------------
Counted == [ahist EXCEPT !.ops = @ + 1]

(* xadc_write_event_config with xadc_axi_update_alarm: the alarm bits of   *)
(* IPIER, then those of CONF1.                                             *)
WriteEventConfigAxi ==
  /\ ahist.ops < MaxOps
  /\ \E c \in EventChannels, on \in BOOLEAN :
       LET mask == IF on THEN axi.alarm_mask \cup {AlarmOf(c)} ELSE axi.alarm_mask \ {AlarmOf(c)}
           ier  == (sysmon.ier \cap {EOS}) \cup {ToAxi(a) : a \in mask}
       IN /\ axi' = [axi EXCEPT !.alarm_mask = mask]
          /\ Latched([sysmon EXCEPT !.ier = ier, !.dis = Disabled(mask)],
                     [Counted EXCEPT !.ec = FALSE])
  /\ UNCHANGED <<buf, airq, thread>>

(* xadc_write_raw: the divider in CONF2.                                   *)
WriteRate ==
  /\ ahist.ops < MaxOps
  /\ \E r \in Rates : sysmon' = [sysmon EXCEPT !.div = Divider(r)]
  /\ ahist' = Counted
  /\ UNCHANGED <<axi, buf, airq, thread>>

(* xadc_trigger_set_state(on) when no trigger is set: CONF1's bit 9, then  *)
(* EOS in IPIER; an old EOS is cleared only if it was enabled.             *)
SetTrigger(t) ==
  /\ axi' = [axi EXCEPT !.trigger = t]
  /\ Latched([sysmon EXCEPT !.dis = IF t = "convst" THEN @ \cup {EC} ELSE @ \ {EC},
                            !.ier = @ \cup {EOS}, !.isr = @ \ (sysmon.ier \cap {EOS})],
             [ahist EXCEPT !.ec = TRUE])

(* xadc_trigger_set_state(off).                                            *)
ClearTrigger ==
  /\ axi' = [axi EXCEPT !.trigger = "none"]
  /\ sysmon' = [sysmon EXCEPT !.ier = @ \ {EOS}, !.isr = @ \ (sysmon.ier \cap {EOS})]

(* Another IIO device takes one of the triggers, or gives it back.         *)
OtherOn ==
  /\ axi.trigger = "none" /\ buf.pc \in {"off", "pre"}
  /\ \E t \in Triggers : SetTrigger(t)
  /\ UNCHANGED <<buf, airq, thread>>

OtherOff ==
  /\ axi.trigger # "none" /\ buf.pc # "on" /\ ClearTrigger
  /\ UNCHANGED <<buf, airq, thread, ahist>>

-----------------------------------------------------------------------------
(* The buffer. xadc_preenable and xadc_postdisable are lists of updates of *)
(* one field each, each under the mutex; others' calls come in between.    *)
Update(f, v) == [field |-> f, val |-> v]

Preenable(scan) ==
  <<Update("mode", "default"), Update("seq0", scan \cap 0 .. 15), Update("seq1", scan \cap 16 .. 31),
    Update("pd", PowerDown(SeqMode(scan))), Update("mode", SeqMode(scan))>>

(* All channels there are, and the calibration.                            *)
Postdisable ==
  LET all == {0} \cup axi.scans
  IN <<Update("seq0", all \cap 0 .. 15), Update("seq1", all \cap 16 .. 31),
       Update("mode", "continuous"), Update("pd", PowerDown("continuous"))>>

(* xadc_update_scan_mode allocates data, then IIO enables the buffer.      *)
Enable ==
  /\ buf.pc = "off"
  /\ \E scan \in {m \in ScanMasks : m \subseteq axi.scans} :
       /\ buf' = [pc |-> "pre", todo |-> Preenable(scan), scan |-> scan]
       /\ axi' = [axi EXCEPT !.data = Cardinality(scan)]
  /\ UNCHANGED <<sysmon, airq, thread, ahist>>

(* Mutant of Apply: writes the register without what else is in it.         *)
ApplyAll(u) ==
  CASE u.field = "mode" -> [sysmon EXCEPT !.mode = u.val, !.dis = {}]
    [] u.field = "pd"   -> [sysmon EXCEPT !.pd = u.val]
    [] u.field = "seq0" -> [sysmon EXCEPT !.seq0 = u.val]
    [] OTHER            -> [sysmon EXCEPT !.seq1 = u.val]

(* _xadc_update_adc_reg, or a write of a register with no other field.     *)
Apply(u) ==
  CASE u.field = "mode" -> [sysmon EXCEPT !.mode = u.val]
    [] u.field = "pd"   -> [sysmon EXCEPT !.pd = u.val]
    [] u.field = "seq0" -> [sysmon EXCEPT !.seq0 = u.val]
    [] OTHER            -> [sysmon EXCEPT !.seq1 = u.val]

BufferStep ==
  /\ buf.todo # <<>>
  /\ Latched(Apply(Head(buf.todo)), ahist)
  /\ buf' = [buf EXCEPT !.todo = Tail(@)]
  /\ UNCHANGED <<axi, airq, thread>>

(* postenable attaches the thread and sets the trigger, which is refused   *)
(* (EBUSY) while the other one is set; IIO then disables the buffer.       *)
Attach ==
  /\ buf.pc = "pre" /\ buf.todo = <<>>
  /\ IF axi.trigger = "none"
       THEN /\ \E t \in Triggers : SetTrigger(t)
            /\ buf' = [buf EXCEPT !.pc = "on"]
       ELSE /\ buf' = [buf EXCEPT !.pc = "post", !.todo = Postdisable]
            /\ UNCHANGED <<sysmon, axi, ahist>>
  /\ UNCHANGED <<airq, thread>>

(* predisable clears the trigger and waits for the thread.                 *)
Detach ==
  /\ buf.pc = "on" /\ ClearTrigger
  /\ buf' = [buf EXCEPT !.pc = "detach"]
  /\ UNCHANGED <<airq, thread, ahist>>

Detached ==
  /\ buf.pc = "detach" /\ thread.pc = "idle" /\ airq.pc = "idle"
  /\ buf' = [buf EXCEPT !.pc = "post", !.todo = Postdisable]
  /\ UNCHANGED <<sysmon, axi, airq, thread, ahist>>

Off ==
  /\ buf.pc = "post" /\ buf.todo = <<>>
  /\ buf' = [buf EXCEPT !.pc = "off", !.scan = {}]
  /\ UNCHANGED <<sysmon, axi, airq, thread, ahist>>

-----------------------------------------------------------------------------
(* The interrupt handler reads IPISR and IPIER, ...                        *)
AxiIrqStatus ==
  /\ airq.pc = "idle" /\ sysmon.isr \cap sysmon.ier # {}
  /\ airq' = [pc |-> "serve", status |-> sysmon.isr \cap sysmon.ier]
  /\ UNCHANGED <<sysmon, axi, buf, thread, ahist>>

(* ... reports the alarms, polls the trigger, which starts the thread, ... *)
AxiReported == Pushed({FromAxi(b) : b \in airq.status \ {EOS}})

AxiIrqServe ==
  /\ airq.pc = "serve"
  /\ airq' = [airq EXCEPT !.pc = "ack"]
  /\ thread' = IF EOS \in airq.status /\ axi.trigger # "none" /\ buf.pc = "on" /\ thread.pc = "idle"
               THEN [pc |-> "run", left |-> buf.scan, data |-> <<>>] ELSE thread
  /\ UNCHANGED <<sysmon, axi, buf, ahist>>

(* ... and clears what it has served, and what has come since.             *)
AxiIrqAck ==
  /\ airq.pc = "ack"
  /\ airq' = [pc |-> "idle", status |-> {}]
  /\ sysmon' = [sysmon EXCEPT !.isr = @ \ airq.status]
  /\ UNCHANGED <<axi, buf, thread, ahist>>

(* xadc_trigger_handler: one channel, then the next; then the buffer.      *)
ThreadRead ==
  /\ thread.pc = "run" /\ thread.left # {}
  /\ thread' = [thread EXCEPT !.left = @ \ {Min(@)}, !.data = Append(@, ScanChannel(Min(thread.left)))]
  /\ UNCHANGED <<sysmon, axi, buf, airq, ahist>>

ThreadPush ==
  /\ thread.pc = "run" /\ thread.left = {}
  /\ thread' = [pc |-> "idle", left |-> {}, data |-> <<>>]
  /\ UNCHANGED <<sysmon, axi, buf, airq, ahist>>

-----------------------------------------------------------------------------
(* After xadc_probe.                                                       *)
AxiInit ==
  \E g \in Garbage :
    LET scans == Parsed(g)
        all == {0} \cup scans
    IN /\ sysmon = [on |-> {}, mode |-> "continuous", dis |-> Disabled({}), pd |-> FALSE, div |-> 255,
                    seq0 |-> all \cap 0 .. 15, seq1 |-> all \cap 16 .. 31, isr |-> {}, ier |-> {}]
       /\ axi = [alarm_mask |-> {}, trigger |-> "none", data |-> 0, scans |-> scans]
       /\ buf = [pc |-> "off", todo |-> <<>>, scan |-> {}]
       /\ airq = [pc |-> "idle", status |-> {}]
       /\ thread = [pc |-> "idle", left |-> {}, data |-> <<>>]
       /\ ahist = [ops |-> 0, seen |-> {}, ec |-> FALSE]

AxiNext ==
  \/ ToggleAxi \/ EndOfSequence \/ WriteEventConfigAxi \/ WriteRate \/ OtherOn \/ OtherOff
  \/ Enable \/ BufferStep \/ Attach \/ Detach \/ Detached \/ Off
  \/ AxiIrqStatus \/ AxiIrqServe \/ AxiIrqAck \/ ThreadRead \/ ThreadPush
=============================================================================
