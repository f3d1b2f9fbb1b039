----------------------------- MODULE MCW7xTiming -----------------------------
EXTENDS W7xSchedule
Arguments(delay, width, period, burst, cycle, repeat, ts) ==
  [delay |-> delay, width |-> width, period |-> period, burst |-> burst,
   cycle |-> cycle, repeat |-> repeat, times |-> ts]
MCCalls ==
  {Arguments(None, 1, 2, 1, 6, 2, <<0, 3>>),       \* no delay; pauses between pulses and cycles
   Arguments(2, None, 2, 2, None, 2, <<1, 5>>),    \* pulses, bursts and cycles that touch
   Arguments(0, 1, 2, 1, None, 1, <<0, 2, 4>>)}    \* more times than the memory holds
=============================================================================
