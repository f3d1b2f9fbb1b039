------------------------------ MODULE W7xTiming ------------------------------
(***************************************************************************)
(* The pulse generator of projects/w7x_timing: the state machine in the    *)
(* FPGA (w7x_timing.vhd), the registers it shares with the processor       *)
(* (w7x_timing_v1_0.vhd), and the library that checks a program and writes *)
(* it to the registers, word by word (w7x_timing_lib.c).                   *)
(*                                                                         *)
(* A program is a delay after the trigger, then `repeat' cycles; a cycle   *)
(* starts a burst of pulses at each of its times. Times are in ticks.      *)
(*                                                                         *)
(* A tick is a falling edge, which samples the registers, and the rising   *)
(* edge after it. The processor's clock is faster: what update_buffer does *)
(* on each of its edges is done with the step that causes it.              *)
(* External: the memory of the times, read with one tick of latency.       *)
(***************************************************************************)
EXTENDS Integers, Sequences

CONSTANTS
  Calls,         (* arguments of makeClock and makeSequence                *)
  ReinitDelays,  (* arguments of reinit                                    *)
  DefaultDelay,  (* DEFAULT_DELAY                                          *)
  MaxTime,       (* MAX_TIME: 40 bits of ones                              *)
  MaxSamples,    (* MAX_SAMPLES                                            *)
  None           (* a null argument                                        *)

Params == {"delay", "width", "period", "burst", "cycle", "repeat"}
Heads  == Params \cup {"count"}

ASSUME W7xAssumption ==
  /\ MaxTime \in Nat /\ MaxSamples \in Nat \ {0} /\ None \notin Nat
  /\ DefaultDelay \in 0 .. MaxTime /\ ReinitDelays \subseteq 0 .. MaxTime
  /\ \A a \in Calls : /\ a.times \in Seq(Nat) /\ a.times # <<>>
                      /\ \A f \in Params : a[f] \in Nat \cup {None}

VARIABLES
  head,    \* head_buf: the parameters
  save,    \* head_save
  ctrl,    \* ctrl_buf: init, trig, clear, reinit
  times,   \* the memory of the times
  todo,    \* register writes the library has yet to do
  sample,  \* the memory's output
  fsm      \* the signals of w7x_timing.vhd

vars == <<head, save, ctrl, times, todo, sample, fsm>>

-----------------------------------------------------------------------------
(* The library: CHECK_INPUTS fills in what a call leaves out.              *)
Or(v, default) == IF v = None THEN default ELSE v

Filled(a) ==
  LET bare   == \A f \in Params \ {"delay"} : a[f] = None
      width  == Or(a.width, IF a.period = None THEN 5 ELSE a.period \div 2)
      period == IF bare THEN 10 ELSE Or(a.period, 2 * width)
      burst  == IF bare THEN 0 ELSE Or(a.burst, 1)
  IN  [delay  |-> Or(a.delay, IF bare THEN DefaultDelay ELSE 0),
       width  |-> width, period |-> period, burst |-> burst,
       cycle  |-> Or(a.cycle, a.times[Len(a.times)] + period * burst),
       repeat |-> IF bare THEN 0 ELSE Or(a.repeat, 1),
       count  |-> Len(a.times)]

(* What makeClock, makeSequence and setParams demand of p. makeClock is    *)
(* the sequence of one pulse train at time 0.                              *)
Accepted(p, ts) ==
  /\ p.count \in 1 .. MaxSamples
  /\ p.period >= 2 /\ p.width < p.period
  /\ p.delay <= MaxTime /\ p.cycle <= MaxTime /\ p.burst * p.period <= MaxTime
  /\ p.cycle >= ts[p.count] + p.period * p.burst
  /\ \A i \in 2 .. p.count : ts[i] >= ts[i - 1] + p.period * p.burst

To(r, v) == [reg |-> r, val |-> v]

(* Mutant of Program: the old count stays while the rest is written.        *)
ProgramKeepCount(p, ts) ==
  <<To("delay", p.delay), To("width", p.width), To("period", p.period),
    To("burst", p.burst), To("cycle", p.cycle), To("repeat", p.repeat),
    To("times", ts), To("count", p.count)>>

(* The writes of one call: no program while it is half written.            *)
Program(p, ts) ==
  <<To("count", 0), To("delay", p.delay), To("width", p.width),
    To("period", p.period), To("burst", p.burst), To("cycle", p.cycle),
    To("repeat", p.repeat), To("times", ts), To("count", p.count)>>

-----------------------------------------------------------------------------
(* The state machine, a function from its signals to its next signals for  *)
(* each procedure.                                                         *)
IncCycle(f)  == [f EXCEPT !.cycle_ticks = @ + 1]
IncPeriod(f) == IncCycle([f EXCEPT !.period_ticks = @ + 1])

StartSample(f) == [f EXCEPT !.state = "WAITING_HIGH", !.period_ticks = 1]

StartBurst(f, c) ==
  StartSample([f EXCEPT !.burst_count = 1, !.sample_count = c + 1])

StartArmed(f) ==
  [f EXCEPT !.state = "ARMED", !.cycle_ticks = 1, !.burst_count = 0,
            !.period_ticks = 1, !.sample_count = 0, !.repeat_count = 0]

DoError(f, where) == StartArmed([f EXCEPT !.error = where])

DoWaitingSample(f) ==
  IF f.cycle_ticks = sample THEN IncCycle(StartBurst(f, f.sample_count))
  ELSE IF f.cycle_ticks > sample THEN DoError(f, "WAITING_SAMPLE")
  ELSE IncCycle([f EXCEPT !.state = "WAITING_SAMPLE"])

StartCycle(f) ==
  LET g == IF sample = 0 THEN StartBurst(f, 0)
           ELSE [f EXCEPT !.sample_count = 0, !.period_ticks = 0, !.state = "WAITING_SAMPLE"]
  IN  [g EXCEPT !.cycle_ticks = 1]

(* Mutant of DoWaitingRepeat: the next cycle starts one tick late.          *)
DoWaitingRepeatLate(f) ==
  IF f.cycle_ticks > head.cycle THEN StartCycle(f)
  ELSE IncCycle([f EXCEPT !.state = "WAITING_REPEAT"])

DoWaitingRepeat(f) ==
  IF f.cycle_ticks = head.cycle THEN StartCycle(f)
  ELSE IF f.cycle_ticks > head.cycle THEN DoError(f, "WAITING_REPEAT")
  ELSE IncCycle([f EXCEPT !.state = "WAITING_REPEAT"])

(* Mutant of StartWaitingRepeat: one repetition too many.                   *)
StartWaitingRepeatMore(f) ==
  IF f.repeat_count <= head.repeat
    THEN DoWaitingRepeat([f EXCEPT !.repeat_count = @ + 1])
    ELSE StartArmed(f)

StartWaitingRepeat(f) ==
  IF f.repeat_count < head.repeat
    THEN DoWaitingRepeat([f EXCEPT !.repeat_count = @ + 1])
    ELSE StartArmed(f)

StartWaitingSample(f) ==
  IF f.sample_count = head.count THEN StartWaitingRepeat(f)
  ELSE IF f.sample_count > head.count THEN DoError(f, "WAITING_SAMPLE")
  ELSE DoWaitingSample(f)

(* Mutant of DoWaitingLow: a burst that follows at once is an error.        *)
DoWaitingLowStrict(f) ==
  IF f.period_ticks >= head.period
    THEN IF f.burst_count = head.burst THEN StartWaitingSample(f)
         ELSE DoError(f, "WAITING_LOW")
    ELSE IncPeriod([f EXCEPT !.state = "WAITING_LOW"])

DoWaitingLow(f) ==
  IF f.period_ticks = head.period
    THEN IF f.burst_count = head.burst THEN StartWaitingSample(f)
         ELSE IF f.burst_count > head.burst THEN DoError(f, "WAITING_LOW")
         ELSE IncCycle(StartSample([f EXCEPT !.burst_count = @ + 1]))
  ELSE IF f.period_ticks > head.period THEN DoError(f, "WAITING_LOW")
  ELSE IncPeriod([f EXCEPT !.state = "WAITING_LOW"])

DoWaitingHigh(f) ==
  IF f.period_ticks > head.width THEN DoError(f, "WAITING_HIGH")
  ELSE IncPeriod([f EXCEPT !.state = IF f.period_ticks = head.width
                                     THEN "WAITING_LOW" ELSE "WAITING_HIGH"])

DoWaitingDelay(f) ==
  IF f.cycle_ticks = head.delay
    THEN IF head.repeat > 0 /\ head.count > 0 THEN StartCycle(f) ELSE StartArmed(f)
  ELSE IF f.cycle_ticks > head.delay THEN DoError(f, "WAITING_DELAY")
  ELSE IncCycle([f EXCEPT !.state = "WAITING_DELAY"])

StartProgram(f) ==
  LET g == [f EXCEPT !.repeat_count = 1]
  IN  IF head.delay = 0 THEN StartCycle(g)
      ELSE [g EXCEPT !.state = "WAITING_DELAY", !.cycle_ticks = 1]

-----------------------------------------------------------------------------
(* update_buffer, after a write or a tick has led to control register c,   *)
(* parameters h and signals f.                                             *)

(* Mutant of Controls: the trigger bit is never taken back.                 *)
ControlsKeepTrig(c, f) == [c EXCEPT !.clear = IF f.error = "NONE" THEN 0 ELSE @]

Controls(c, f) ==
  [c EXCEPT !.trig  = IF f.state = "ARMED" THEN @ ELSE 0,
            !.clear = IF f.error = "NONE" THEN 0 ELSE @]

Restored(c, h, f) == IF f.state = "ARMED" /\ c.reinit = 1 THEN save ELSE h

(* The memory's address.                                                   *)
Index == IF fsm.sample_count < head.count THEN fsm.sample_count ELSE 0

(* What every tick does, besides leading the state machine to g.           *)
Tick(g) ==
  /\ fsm' = g
  /\ sample' = times[Index]
  /\ ctrl' = Controls(ctrl, g) /\ head' = Restored(ctrl, head, g)
  /\ UNCHANGED <<save, times, todo>>

(* A clear takes effect before the state's procedure can set the error.    *)
Now == IF ctrl.clear = 1 THEN [fsm EXCEPT !.error = "NONE"] ELSE fsm

In(s) == ctrl.init = 1 /\ fsm.state = s

Disarmed == ctrl.init = 0 /\ Tick([Now EXCEPT !.state = "IDLE"])
Idle     == In("IDLE") /\ Tick(StartArmed(Now))
Armed    == In("ARMED") /\ ctrl.trig = 0 /\ Tick(Now)
Trigger  == In("ARMED") /\ Tick(StartProgram(Now))   \* by the register or the pin
Delay    == In("WAITING_DELAY") /\ Tick(DoWaitingDelay(Now))
Sample   == In("WAITING_SAMPLE") /\ Tick(DoWaitingSample(Now))
High     == In("WAITING_HIGH") /\ Tick(DoWaitingHigh(Now))
Low      == In("WAITING_LOW") /\ Tick(DoWaitingLow(Now))
Repeat   == In("WAITING_REPEAT") /\ Tick(DoWaitingRepeat(Now))

Ticks == \/ Disarmed \/ Idle \/ Armed \/ Trigger \/ Delay
         \/ Sample \/ High \/ Low \/ Repeat

-----------------------------------------------------------------------------
(* Calls of the library, one at a time. A program calls for another before *)
(* the trigger or during the delay; while it writes, anything may happen.  *)
Call(ws) ==
  /\ todo = <<>> /\ todo' = ws
  /\ UNCHANGED <<head, save, ctrl, times, sample, fsm>>

Make(a) ==
  /\ Accepted(Filled(a), a.times)
  /\ fsm.state \in {"IDLE", "ARMED", "WAITING_DELAY"}
  /\ Call(Program(Filled(a), a.times))

(* trig, arm and disarm write at once what they have to write.             *)
Arm    == Call(<<To("clear", 1), To("init", 1)>>)
Disarm == Call(<<To("init", 0)>>)
Trig   == Call(<<To("trig", 1)>>)

(* The default program, with delay d, is saved and restored after each run. *)
(* Formatting its messages and sleeping take the library longer than a     *)
(* tick: "idle" waits for it.                                              *)
Reinit(d) ==
  LET p == Filled([delay |-> d, width |-> None, period |-> None, burst |-> None,
                   cycle |-> None, repeat |-> None, times |-> <<0>>])
  IN  Call(<<To("init", 0), To("idle", 0)>> \o Program(p, <<0>>)
           \o <<To("save", 1), To("clear", 1), To("reinit", 1), To("init", 1)>>)
ReinitOff == Call(<<To("reinit", 0), To("init", 0)>>)

(* One register write, and what update_buffer makes of it. The count is    *)
(* written a store after the times, which the memory's port has then read. *)
Write ==
  /\ todo # <<>> /\ todo' = Tail(todo)
  /\ LET w == Head(todo)
         c == IF w.reg \in DOMAIN ctrl THEN [ctrl EXCEPT ![w.reg] = w.val] ELSE ctrl
         h == IF w.reg \in Heads THEN [head EXCEPT ![w.reg] = w.val] ELSE head
     IN  /\ w.reg = "idle" => fsm.state = "IDLE"
         /\ w.reg = "count" /\ w.val > 0 => sample = times[0]
         /\ ctrl' = Controls(c, fsm) /\ head' = Restored(c, h, fsm)
         /\ save' = IF w.reg = "save" THEN head ELSE save
         /\ times' = IF w.reg = "times"
                     THEN [i \in DOMAIN times |->
                             IF i < Len(w.val) THEN w.val[i + 1] ELSE times[i]]
                     ELSE times
  /\ UNCHANGED <<sample, fsm>>

-----------------------------------------------------------------------------
Init ==
  /\ head = [f \in Heads |-> 0] /\ save = [f \in Heads |-> 0]
  /\ ctrl = [init |-> 0, trig |-> 0, clear |-> 0, reinit |-> 0]
  /\ times = [i \in 0 .. MaxSamples - 1 |-> 0]
  /\ todo = <<>> /\ sample = 0
  /\ fsm = [state |-> "IDLE", error |-> "NONE", sample_count |-> 0,
            repeat_count |-> 0, burst_count |-> 0, period_ticks |-> 0, cycle_ticks |-> 0]

Next ==
  \/ Ticks \/ Write
  \/ \E a \in Calls : Make(a)
  \/ Arm \/ Disarm \/ Trig \/ ReinitOff
  \/ \E d \in ReinitDelays : Reinit(d)

Spec == Init /\ [][Next]_vars
=============================================================================
