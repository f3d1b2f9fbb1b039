----------------------------- MODULE TrarecFrames -----------------------------
(***************************************************************************)
(* What the transient recorder owes to the driver: for each trigger the    *)
(* samples around it, in order and once, and the time of the trigger as    *)
(* two words. History variables keep what is owed and not yet put on the   *)
(* output streams, computed from sample numbers alone.                     *)
(***************************************************************************)
EXTENDS Trarec

VARIABLES
  first,     \* number of the first sample beyond the threshold
  base,      \* number of the first sample that counts for the time
  owed,      \* samples the frames still owe
  owedTime,  \* words the times still owe
  truncated, \* a trigger came before the previous frame was read
  cut        \* a stop command has ended a frame

history == <<first, base, owed, owedTime, truncated, cut>>
frameVars == <<vars, history>>

Longer(a, b) == IF a > b THEN a ELSE b

Starts    == state = "RUNNING" /\ state' = "CHECK"
Validated == state = "CHECK" /\ state' = "POST"
Recorded  == state = "POST" /\ Valid /\ cmd # "stop"

FrameInit ==
  /\ Init
  /\ first = 0 /\ base = 0 /\ owed = <<>> /\ owedTime = <<>>
  /\ truncated = FALSE /\ cut = FALSE

FrameRise ==
  /\ Rise
  /\ first' = IF Starts THEN n ELSE first
  /\ base' = IF state = "ARMED" /\ state' = "RUNNING" THEN n' ELSE base
  /\ owed' = IF Validated
             THEN owed \o [k \in 1 .. n - 1 - first + cfg.pre |-> first - cfg.pre + k]
             ELSE IF Recorded THEN Append(owed, n - 1) ELSE owed
  /\ owedTime' = IF Validated
                 THEN owedTime \o <<(n + 1 - base) % WordSize, (n + 1 - base) \div WordSize>>
                 ELSE owedTime
  /\ truncated' = (truncated \/ (Validated /\ outAddr # inAddr))
  /\ cut' = (cut \/ (state = "POST" /\ state' = "IDLE"))

Paid(o, owing) == IF o' # None /\ owing # <<>> THEN Tail(owing) ELSE owing

FrameFall ==
  /\ Fall
  /\ owed' = IF Streaming THEN owed ELSE Paid(m, owed)
  /\ owedTime' = Paid(t, owedTime)
  /\ UNCHANGED <<first, base, truncated, cut>>

FrameNext == FrameRise \/ FrameFall

FrameSpec == FrameInit /\ [][FrameNext]_frameVars

-----------------------------------------------------------------------------
(* The memory's read pipeline puts out exactly the frame: each word is the *)
(* next one owed, across the wrap of the buffer, while handle_state moves  *)
(* the end of the frame and the buffer goes on being written.              *)
FrameContents ==
  [][edge = "fall" /\ ~Streaming /\ m' # None /\ ~truncated
       => owed # <<>> /\ m' = Head(owed)]_frameVars

(* Nothing of a frame is left behind when the readout comes to rest.       *)
FrameComplete ==
  edge = "rise" /\ memState = "IDLE" /\ outAddr = inAddr /\ startOut = None /\ ~truncated
    => owed = <<>>

(* A frame ends post samples after the first sample beyond the threshold,  *)
(* or with the validating sample if that comes later: with the pre samples *)
(* before it has the pre + post samples the program counts per frame.      *)
FrameLength ==
  [][state = "POST" /\ state' = "RUNNING"
       => n - 1 = first + Longer(cfg.post, cfg.trig + 1)]_frameVars

(* The next trigger finds the previous frame read out, if the decimation   *)
(* leaves time to read the pre samples: readout takes a word per clock.    *)
NoTruncation ==
  cfg.pre <= (cfg.dec - 1) * Longer(cfg.post, cfg.trig + 1) + 2 * cfg.dec /\ ~cut
    => ~truncated

(* The time of a trigger is the number of samples since the start of the   *)
(* acquisition, low word first. The counter is not held between the words: *)
(* after a low word of all ones the high word may already have the carry.  *)
TimeWords ==
  [][edge = "fall" /\ t' # None /\ state = "POST"
       => /\ owedTime # <<>>
          /\ \/ t' = Head(owedTime)
             \/ t = WordSize - 1 /\ t' = Head(owedTime) + 1]_frameVars
=============================================================================
