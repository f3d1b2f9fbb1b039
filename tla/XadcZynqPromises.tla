--------------------------- MODULE XadcZynqPromises ---------------------------
(* What the XADC driver promises on a Zynq. All but the liveness is        *)
(* promised while no access has been given up (by a timeout or a signal)   *)
(* whose command or answer may still be under way.                         *)
EXTENDS XadcZynq

(* A read that succeeds gets the answer to its own command, not that of an  *)
(* earlier one, nor the contents of an empty FIFO.                          *)
TrueReads ==
  call.pc = "got" /\ ~hist.spoiled => call.val = Fetched(Head(call.todo).reg)

(* Between calls the hardware is as the driver has written down: the        *)
(* disabled alarms, the interrupt mask and the thresholds, and the sequencer*)
(* mode is untouched; except for what a failed call has left unwritten.     *)
ConfigTaken ==
  call.pc = "idle" /\ ~hist.spoiled =>
    /\ xadc.intmask = Ints \ {ToZynq(a) : a \in xadc.alarm_mask}
    /\ CONF1 \notin hist.bad => core.conf.dis = Alarms \ xadc.alarm_mask
    /\ ADC \notin hist.bad => core.conf.mode = "continuous"
    /\ \A o \in Offsets : Threshold(o) \notin hist.bad => core.thr[o] = xadc.threshold[o]

(* A step reports an event only for an alarm that has occurred since it was *)
(* enabled, on the channel it was enabled for, and once for an occurrence.  *)
ZynqEventTrue ==
  irq.pc = "lock" /\ irq'.pc = "idle" /\ ~hist.spoiled
    => Reported \subseteq {c \in Channels : AlarmOf(c) \in hist.due}

(* A masked alarm is unmasked once its condition is gone for good.          *)
AlarmServed ==
  \A a \in Alarms : <>[](a \notin core.on) => <>[](ToZynq(a) \notin xadc.masked)
=============================================================================
