----------------------------- MODULE W7xSchedule -----------------------------
(***************************************************************************)
(* What the pulse generator owes to its users: the schedule of pulses that *)
(* a program stands for, counted from the trigger, whenever and in whatever *)
(* order its words were written.                                           *)
(***************************************************************************)
EXTENDS W7xTiming

VARIABLES
  elapsed,   \* ticks since the trigger
  program,   \* what registers and times hold: a "whole" program, "part" of one
             \* without a count, or words of two, "torn" by the library or "mixed"
             \* with the saved one by the FPGA
  excused,   \* this shot's program is not one that has a schedule
  asked      \* trig() has been called since the last shot

history == <<elapsed, program, excused, asked>>
schedVars == <<vars, history>>

Pulsing == fsm.state \in {"WAITING_SAMPLE", "WAITING_HIGH", "WAITING_LOW", "WAITING_REPEAT"}
Shot    == Pulsing \/ fsm.state = "WAITING_DELAY"

(* A program with at least one pulse. The library accepts others.          *)
Sound(p) == p.width >= 1 /\ p.burst >= 1 /\ p.repeat >= 1 /\ p.count >= 1

(* The schedule: cycles, bursts and pulses, from the trigger on.           *)
CycleStart(r) == head.delay + r * head.cycle
BurstLength   == head.burst * head.period
CycleEnd(r)   == CycleStart(r) + times[head.count - 1] + BurstLength
Cycles        == 0 .. head.repeat - 1
End           == CycleEnd(head.repeat - 1)

PulseAt(k) ==
  \E r \in Cycles, i \in 0 .. head.count - 1, b \in 0 .. head.burst - 1 :
    LET start == CycleStart(r) + times[i] + b * head.period
    IN  start <= k /\ k < start + head.width
GateAt(k) == \E r \in Cycles : CycleStart(r) <= k /\ k < CycleEnd(r)

-----------------------------------------------------------------------------
SchedInit ==
  /\ Init
  /\ elapsed = 0 /\ program = "whole" /\ excused = FALSE /\ asked = FALSE

(* A shot starts, goes on, or is over.                                     *)
Started   == fsm.state = "ARMED" /\ Shot'
FirstCycle == ~Pulsing /\ Pulsing'

(* The memory has delivered the first time, as far as the short cut of     *)
(* start_cycle asks. It may not have in the very tick in which a generator *)
(* is armed that was disarmed, or met an error, in the middle of a shot.   *)
Read == sample = 0 <=> times[0] = 0

SchedTick ==
  /\ Ticks
  /\ elapsed' = IF Shot /\ Shot' THEN elapsed + 1 ELSE 0
  /\ program' = IF fsm'.state = "ARMED" /\ ctrl.reinit = 1
                THEN IF todo = <<>> THEN "whole" ELSE "mixed"
                ELSE program
  /\ excused' = ((excused /\ ~Started) \/ (FirstCycle /\ ~(program = "whole" /\ Sound(head) /\ Read)))
  /\ asked' = (asked /\ ~Started)

(* A program that is rewritten while it runs; a new delay that is over.     *)
Late(w) ==
  \/ Pulsing /\ w.reg \in Heads \cup {"times"}
  \/ w.reg = "delay" /\ fsm.state = "WAITING_DELAY" /\ w.val < fsm.cycle_ticks

SchedWrite ==
  /\ Write
  /\ LET w == Head(todo)
     IN  /\ program' = IF w.reg \notin Heads THEN program
                       ELSE IF fsm.state = "ARMED" /\ ctrl.reinit = 1 THEN "mixed"
                       ELSE IF w = To("count", 0) THEN "part"
                       ELSE IF program = "whole" THEN "torn"
                       ELSE IF program = "part" /\ w.reg = "count" THEN "whole"
                       ELSE program
         /\ excused' = (excused \/ Late(w))
         /\ asked' = (asked \/ w.reg = "trig")
  /\ UNCHANGED elapsed

SchedCall ==
  /\ \/ \E a \in Calls : Make(a)
     \/ Arm \/ Disarm \/ Trig \/ ReinitOff
     \/ \E d \in ReinitDelays : Reinit(d)
  /\ UNCHANGED history

SchedNext == SchedTick \/ SchedWrite \/ SchedCall

SchedSpec == SchedInit /\ [][SchedNext]_schedVars

-----------------------------------------------------------------------------
(* Signal and gate follow the schedule tick by tick, from the trigger, also *)
(* if the program was replaced during the delay: the tick count is not lost, *)
(* and the counter of ticks does not overflow.                             *)
Schedule ==
  Pulsing /\ ~excused =>
    /\ (fsm.state = "WAITING_HIGH") <=> PulseAt(elapsed)
    /\ (fsm.state # "WAITING_REPEAT") <=> GateAt(elapsed)
    /\ fsm.cycle_ticks <= MaxTime

(* The generator is armed again with the end of its last burst, unless it  *)
(* has been disarmed, neither sooner nor later.                            *)
Rearmed ==
  [][SchedTick /\ Pulsing /\ ~excused /\ ctrl.init = 1
       => (fsm'.state = "ARMED" <=> elapsed + 1 = End)]_schedVars

(* The library lets no program through that ends in the error state: only  *)
(* one without pulses, or a delay rewritten when it was over, does.        *)
ErrorExcused ==
  [][fsm'.error # fsm.error /\ fsm'.error # "NONE" => excused]_schedVars

(* No half-written program starts after a delay: the library takes the     *)
(* count away first and writes it last. (One that is mixed with the saved  *)
(* program may: in reinit mode the FPGA restores the count in between.)    *)
NoPartialProgram ==
  [][SchedTick /\ fsm.state = "WAITING_DELAY" /\ Pulsing'
       => program \in {"whole", "mixed"}]_schedVars

(* A call of trig() starts one shot: the register starts none that has not *)
(* been asked for since the last.                                          *)
OneShot == [][Started /\ ctrl.trig = 1 => asked]_schedVars

-----------------------------------------------------------------------------
(* doc/timing-board.tex: "If the device is not configured before the end   *)
(* or delay, it should return to armed state (i.e. if count=0 or repeat=0)."*)
(* The short cut for a delay of 0 does not look at either.                 *)
UnconfiguredRearms ==
  [][SchedTick /\ FirstCycle => head.count > 0 /\ head.repeat > 0]_schedVars
=============================================================================
