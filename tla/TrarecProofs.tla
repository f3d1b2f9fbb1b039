----------------------------- MODULE TrarecProofs -----------------------------
(***************************************************************************)
(* What the transient recorder owes to the driver (TrarecFrames), for a    *)
(* circular buffer and time words of any size, any configuration that fits *)
(* the buffer and any number of samples: a frame is as long as the program *)
(* counts, its samples are those around the trigger, each once and in      *)
(* order, none is left behind, the time words are the time, and with the   *)
(* decimation to read a frame in, no trigger cuts the frame before it.     *)
(*                                                                         *)
(* A place in the buffer is a number modulo its size. The invariants say   *)
(* how many samples since the trigger the counters stand for, which        *)
(* samples the buffer holds, which one the read pointer stands at, and how *)
(* many clocks there are until the next trigger can be validated.          *)
(***************************************************************************)
EXTENDS TrarecFrames, SequenceTheorems, TLAPS

(* Numbers: quotient and remainder, and places in the buffer.              *)
LEMMA DivMod ==
  ASSUME NEW c \in Nat \ {0}, NEW k \in Int
  PROVE  /\ k \div c \in Int /\ k % c \in 0 .. c - 1 /\ k = c * (k \div c) + (k % c)
  OBVIOUS

LEMMA Unique ==
  ASSUME NEW c \in Nat \ {0}, NEW a \in Int, NEW b \in Int, NEW r \in 0 .. c - 1, NEW s \in 0 .. c - 1,
         c * a + r = c * b + s
  PROVE  a = b /\ r = s
<1>1. CASE a < b
  <2>1. c * (b - a) >= c
    BY <1>1
  <2>2. c * (b - a) = c * b - c * a
    OBVIOUS
  <2>3. QED  BY <2>1, <2>2
<1>2. CASE b < a
  <2>1. c * (a - b) >= c
    BY <1>2
  <2>2. c * (a - b) = c * a - c * b
    OBVIOUS
  <2>3. QED  BY <2>1, <2>2
<1>3. CASE a = b
  BY <1>3
<1>4. QED  BY <1>1, <1>2, <1>3

LEMMA ModIs ==
  ASSUME NEW c \in Nat \ {0}, NEW k \in Int, NEW a \in Int, NEW r \in 0 .. c - 1, k = c * a + r
  PROVE  k \div c = a /\ k % c = r
  BY DivMod, Unique

LEMMA ModNext ==
  ASSUME NEW c \in Nat \ {0, 1}, NEW k \in Int
  PROVE  /\ (k + 1) % c = ((k % c) + 1) % c
         /\ (k + 1) % c = IF k % c = c - 1 THEN 0 ELSE (k % c) + 1
         /\ (k + 1) \div c = IF k % c = c - 1 THEN k \div c + 1 ELSE k \div c
<1> DEFINE a == k \div c
           r == k % c
           b == IF r = c - 1 THEN a + 1 ELSE a
           s == IF r = c - 1 THEN 0 ELSE r + 1
           l == k + 1
<1>1. a \in Int /\ r \in 0 .. c - 1 /\ k = c * a + r
  BY DivMod
<1> HIDE DEF a, r
<1>2. b \in Int /\ s \in 0 .. c - 1 /\ c * b + s = l /\ l \in Int
  <2>1. c * (a + 1) = c * a + c
    BY <1>1
  <2>2. QED  BY <1>1, <2>1
<1>3. r + 1 \in Int /\ r + 1 = IF r = c - 1 THEN c * 1 + 0 ELSE c * 0 + (r + 1)
  BY <1>1
<1>4. (r + 1) % c = s
  <2>1. CASE r = c - 1
    BY <1>1, <1>3, <2>1, ModIs
  <2>2. CASE r # c - 1
    <3> DEFINE j == r + 1
    <3>1. j \in 0 .. c - 1 /\ j \in Int /\ j = c * 0 + j
      BY <1>1, <2>2
    <3> HIDE DEF j
    <3>2. j % c = j
      BY <3>1, ModIs
    <3>3. QED  BY <2>2, <3>2 DEF j
  <2>3. QED  BY <2>1, <2>2
<1>5. l \div c = b /\ l % c = s
  <2> HIDE DEF l, b, s
  <2>1. QED  BY <1>2, ModIs
<1>6. QED  BY <1>4, <1>5 DEF a, r

(* Places in the circular buffer.                                          *)
At(k) == k % CbufSize

LEMMA Places ==
  /\ \A k \in Int : At(k) \in 0 .. CbufSize - 1 /\ At(k + 1) = (At(k) + 1) % CbufSize
  /\ \A k, l \in Int : At(k) = At(l) /\ k <= l /\ l - k < CbufSize => k = l
<1> DEFINE c == CbufSize
<1>0. c \in Nat \ {0, 1}
  BY TrarecAssumption
<1> HIDE DEF c
<1>1. \A k \in Int : k % c \in 0 .. c - 1 /\ (k + 1) % c = ((k % c) + 1) % c
  BY <1>0, ModNext, DivMod
<1>2. ASSUME NEW k \in Int, NEW l \in Int, k % c = l % c, k <= l, l - k < c
      PROVE  k = l
  <2> DEFINE r == k % c
             x == k \div c
             y == l \div c
  <2>1. k = c * x + r /\ l = c * y + r /\ x \in Int /\ y \in Int /\ r \in 0 .. c - 1
    BY <1>0, <1>2, DivMod
  <2> HIDE DEF x, y, r
  <2>2. c * (y - x) = l - k
    BY <1>0, <2>1
  <2>3. 0 <= c * (y - x) /\ c * (y - x) < c
    BY <1>2, <2>2
  <2>4. y - x < 1
    <3> SUFFICES ASSUME y - x >= 1 PROVE FALSE
      BY <2>1
    <3>1. c * (y - x) >= c
      BY <1>0, <2>1
    <3>2. QED  BY <2>3, <3>1, <1>0, <2>1
  <2>5. y - x > -1
    <3> SUFFICES ASSUME y - x <= -1 PROVE FALSE
      BY <2>1
    <3>1. c * (y - x) < 0
      BY <1>0, <2>1
    <3>2. QED  BY <2>3, <3>1, <1>0, <2>1
  <2>6. QED  BY <2>1, <2>4, <2>5
<1>3. QED  BY <1>1, <1>2 DEF At, c

(* The start address of a readout: d samples before that at address At(n). *)
LEMMA Back ==
  ASSUME NEW k \in Int, NEW d \in 0 .. CbufSize - 1
  PROVE  (IF At(k) - d < 0 THEN At(k) - d + CbufSize ELSE At(k) - d) = At(k - d)
<1> DEFINE c == CbufSize
           r == k % c
           x == k \div c
<1>0. c \in Nat \ {0, 1} /\ d \in 0 .. c - 1
  BY TrarecAssumption
<1> HIDE DEF c
<1>1. k = c * x + r /\ x \in Int /\ r \in 0 .. c - 1
  BY <1>0, DivMod
<1> HIDE DEF x, r
<1>2. CASE r - d < 0
  <2> DEFINE a == x - 1
             s == r - d + c
             l == k - d
  <2>1. l = c * a + s /\ s \in 0 .. c - 1 /\ a \in Int /\ l \in Int
    <3>1. c * (x - 1) = c * x - c
      BY <1>0, <1>1
    <3>2. QED  BY <1>0, <1>1, <1>2, <3>1
  <2> HIDE DEF a, s, l
  <2>2. l % c = s
    BY <1>0, <2>1, ModIs
  <2>3. QED  BY <1>2, <2>2 DEF At, c, r, l, s
<1>3. CASE ~ (r - d < 0)
  <2> DEFINE s == r - d
             l == k - d
  <2>1. l = c * x + s /\ s \in 0 .. c - 1 /\ l \in Int
    BY <1>0, <1>1, <1>3
  <2> HIDE DEF s, l
  <2>2. l % c = s
    BY <1>0, <1>1, <2>1, ModIs
  <2>3. QED  BY <1>3, <2>2 DEF At, c, r, l, s
<1>4. QED  BY <1>2, <1>3

-----------------------------------------------------------------------------
(* Signals and counters: the length of a frame.                            *)
(* The values signals have. A sample at the input has come dec clocks after *)
(* the last.                                                                *)
Signals ==
  /\ edge \in {"rise", "fall"} /\ cfg \in Configs /\ n \in Nat
  /\ sin \in BOOLEAN \cup {None} /\ gap \in 1 .. cfg.dec /\ (Valid => gap = cfg.dec)
  /\ state \in {"IDLE", "ARMED", "RUNNING", "CHECK", "POST"}
  /\ currCount \in Nat /\ triggerTime \in Nat /\ mask \in {{}, {"hi"}, {"lo", "hi"}}
  /\ first \in Nat /\ base \in Nat

LEMMA ConfigIs ==
  ASSUME cfg \in Configs
  PROVE  /\ cfg.pre \in Nat /\ cfg.post \in Nat /\ cfg.trig \in Nat /\ cfg.dec \in Nat \ {0}
         /\ cfg.pre + cfg.trig < CbufSize /\ cfg.continuous \in BOOLEAN
  BY TrarecAssumption

LEMMA BeyondValid ==
  ASSUME Beyond
  PROVE  Valid
<1>1. TRUE \in BOOLEAN
  OBVIOUS
<1>2. None \notin BOOLEAN
  BY TrarecAssumption, Zenon
<1>3. QED  BY <1>1, <1>2, Zenon DEF Beyond, Valid

LEMMA SignalsStart ==
  ASSUME FrameInit
  PROVE  Signals
<1>1. cfg \in Configs /\ cfg.dec \in Nat \ {0}
  BY ConfigIs DEF FrameInit, Init
<1>2. sin = None /\ gap = 1
  BY DEF FrameInit, Init
<1>3. sin \in BOOLEAN \cup {None} /\ ~ Valid
  BY <1>2, Zenon DEF Valid
<1>4. gap \in 1 .. cfg.dec
  BY <1>1, <1>2
<1>5. QED  BY <1>1, <1>3, <1>4 DEF Signals, FrameInit, Init

(* A rising edge takes a sample or not.                                    *)
LEMMA InputsNext ==
  ASSUME Signals, FrameRise
  PROVE  /\ edge = "rise" /\ edge' = "fall" /\ cfg' = cfg
         /\ n' = (IF Valid THEN n + 1 ELSE n) /\ n' \in Nat
         /\ gap' = (IF Valid THEN 1 ELSE IF gap < cfg.dec THEN gap + 1 ELSE gap)
         /\ gap' \in 1 .. cfg.dec /\ sin' \in BOOLEAN \cup {None} /\ (Valid' => gap' = cfg.dec)
<1>1. cfg.dec \in Nat \ {0} /\ n \in Nat /\ gap \in 1 .. cfg.dec
  BY ConfigIs DEF Signals
<1>2. /\ edge = "rise" /\ edge' = "fall" /\ cfg' = cfg
      /\ n' = IF Valid THEN n + 1 ELSE n
      /\ gap' = IF Valid THEN 1 ELSE IF gap < cfg.dec THEN gap + 1 ELSE gap
      /\ NextInput
  BY DEF FrameRise, Rise
<1> DEFINE more == gap' >= cfg.dec /\ n' < MaxSamples
<1>3. sin' \in {None} \cup (IF more THEN BOOLEAN ELSE {})
  BY <1>2 DEF NextInput
<1>4. more => gap' >= cfg.dec
  OBVIOUS
<1> HIDE DEF more
<1>5. sin' \in BOOLEAN \cup {None} /\ (sin' # None => more)
  BY <1>3, Zenon
<1>6. gap' \in 1 .. cfg.dec
  BY <1>1, <1>2
<1>7. Valid' => gap' = cfg.dec
  <2>1. Valid' => more
    BY <1>5, Zenon DEF Valid
  <2>2. QED  BY <1>1, <1>4, <1>6, <2>1
<1>8. n' \in Nat
  BY <1>1, <1>2
<1>9. QED  BY <1>2, <1>5, <1>6, <1>7, <1>8

LEMMA SignalsNext ==
  ASSUME Signals, [FrameNext]_frameVars
  PROVE  Signals'
<1>1. CASE FrameRise
  <2>1. /\ edge' = "fall" /\ cfg' = cfg /\ n' \in Nat
        /\ gap' \in 1 .. cfg.dec /\ sin' \in BOOLEAN \cup {None} /\ (Valid' => gap' = cfg.dec)
    BY <1>1, InputsNext
  <2>2. /\ state' \in {"IDLE", "ARMED", "RUNNING", "CHECK", "POST"}
        /\ currCount' \in Nat /\ triggerTime' \in Nat
        /\ mask' \in {{}, {"hi"}, {"lo", "hi"}}
    <3>1. HandleState /\ cfg.trig \in Nat /\ Tick \in Nat
      BY <1>1, ConfigIs DEF FrameRise, Rise, Signals, Tick
    <3>2. CASE FsmIdle
      BY <3>2 DEF FsmIdle, Signals
    <3>3. CASE FsmStop
      BY <3>3 DEF FsmStop, Signals
    <3>4. CASE FsmArmed
      BY <3>4 DEF FsmArmed, Signals
    <3>5. CASE FsmRunning
      BY <3>1, <3>5 DEF FsmRunning, Signals
    <3>6. CASE FsmCheck
      BY <3>1, <3>6 DEF FsmCheck, Signals
    <3>7. CASE FsmValidate
      BY <3>1, <3>7 DEF FsmValidate, Signals
    <3>8. CASE FsmPost
      BY <3>1, <3>8 DEF FsmPost, Signals
    <3>9. QED  BY <3>1, <3>2, <3>3, <3>4, <3>5, <3>6, <3>7, <3>8 DEF HandleState
  <2>3. first' \in Nat /\ base' \in Nat
    BY <1>1, <2>1 DEF FrameRise, Signals
  <2>4. QED  BY <2>1, <2>2, <2>3 DEF Signals
<1>2. CASE FrameFall
  BY <1>2 DEF FrameFall, Fall, inVars, fsmVars, Signals, Valid
<1>3. CASE UNCHANGED frameVars
  BY <1>3 DEF frameVars, vars, history, inVars, fsmVars, Signals, Valid
<1>4. QED  BY <1>1, <1>2, <1>3 DEF FrameNext

(* Where the frame is: samples since the first beyond the threshold.       *)
Counting ==
  /\ state = "CHECK" => currCount <= cfg.trig /\ n = first + 1 + currCount
  /\ state = "POST" => /\ n = first + 2 + currCount /\ currCount >= cfg.trig
                       /\ currCount = cfg.trig \/ currCount < cfg.post
  /\ cfg.continuous => state \notin {"CHECK", "POST"}

LEMMA CountingNext ==
  ASSUME Signals, Counting, [FrameNext]_frameVars
  PROVE  Counting' /\ (state = "POST" /\ state' = "RUNNING"
                         => n - 1 = first + Longer(cfg.post, cfg.trig + 1))
<1>1. CASE FrameRise
  <2>1. /\ cfg' = cfg /\ n' = IF Valid THEN n + 1 ELSE n
        /\ cfg.trig \in Nat /\ cfg.post \in Nat
        /\ n \in Nat /\ currCount \in Nat /\ first \in Nat
    BY <1>1, ConfigIs, InputsNext DEF Signals
  <2>2. first' = IF Starts THEN n ELSE first
    BY <1>1 DEF FrameRise
  <2>3. Beyond => Valid
    BY BeyondValid
  <2>4. HandleState
    BY <1>1 DEF FrameRise, Rise
  <2>5. CASE FsmIdle \/ FsmStop \/ FsmArmed
    BY <2>1, <2>5 DEF FsmIdle, FsmStop, FsmArmed, Counting
  <2>6. CASE FsmRunning
    BY <2>1, <2>2, <2>3, <2>6 DEF FsmRunning, Counting, Starts
  <2>7. CASE FsmCheck
    <3>1. first' = first
      BY <2>2, <2>7 DEF FsmCheck, Starts
    <3>2. QED  BY <2>1, <2>3, <2>7, <3>1 DEF FsmCheck, Counting
  <2>8. CASE FsmValidate
    <3>1. first' = first
      BY <2>2, <2>8 DEF FsmValidate, Starts
    <3>2. QED  BY <2>1, <2>3, <2>8, <3>1 DEF FsmValidate, Counting
  <2>9. CASE FsmPost
    <3>1. first' = first
      BY <2>2, <2>9 DEF FsmPost, Starts
    <3>2. QED  BY <2>1, <2>3, <2>9, <3>1 DEF FsmPost, Counting, Longer
  <2>10. QED  BY <2>4, <2>5, <2>6, <2>7, <2>8, <2>9 DEF HandleState
<1>2. CASE FrameFall
  BY <1>2 DEF FrameFall, Fall, fsmVars, Counting
<1>3. CASE UNCHANGED frameVars
  BY <1>3 DEF frameVars, vars, history, fsmVars, Counting
<1>4. QED  BY <1>1, <1>2, <1>3 DEF FrameNext

(* A frame has the post samples the program counts on, or ends with the    *)
(* validating sample if that comes later (FsmPost of handle_state).        *)
THEOREM FramesAreLong == FrameSpec => FrameLength
<1> DEFINE Inv == Signals /\ Counting
<1>1. FrameInit => Inv
  BY SignalsStart DEF FrameInit, Init, Counting
<1>2. Inv /\ [FrameNext]_frameVars => Inv'
  BY SignalsNext, CountingNext
<1>3. Inv /\ [FrameNext]_frameVars
        => [state = "POST" /\ state' = "RUNNING"
              => n - 1 = first + Longer(cfg.post, cfg.trig + 1)]_frameVars
  BY CountingNext
<1> HIDE DEF Inv
<1>4. QED  BY <1>1, <1>2, <1>3, PTL DEF FrameSpec, FrameLength

-----------------------------------------------------------------------------
(* The time of a trigger.                                                  *)
(* The time of a trigger, and how much of it is out.                       *)
Clock == ~ cfg.continuous /\ state \in {"RUNNING", "CHECK", "POST"} => triggerTime = n - base

Words(k) == <<k % WordSize, k \div WordSize>>

(* The counter may have gone on by one since the low word.                 *)
High ==
  \E k \in Nat : /\ triggerTime = k \/ triggerTime = k + 1
                 /\ owedTime = <<k \div WordSize>> /\ t = k % WordSize

Times ==
  /\ edge = "fall" /\ state = "POST" =>
       \/ mask = {"lo", "hi"} /\ owedTime = Words(triggerTime)
       \/ mask = {"hi"} /\ High
       \/ mask = {} /\ owedTime = <<>>
  /\ edge = "fall" /\ state # "POST" => owedTime = <<>> \/ (mask = {"hi"} /\ \E w : owedTime = <<w>>)
  /\ edge = "rise" =>
       IF state = "POST" /\ mask = {"lo", "hi"}
       THEN owedTime = <<triggerTime \div WordSize>> /\ t = triggerTime % WordSize
       ELSE owedTime = <<>>

LEMMA MaskIs == {"lo", "hi"} # {"hi"} /\ {"lo", "hi"} # {} /\ {"hi"} # {} /\ "lo" \notin {"hi"}
  OBVIOUS

LEMMA TimesRise ==
  ASSUME Signals, Counting, Clock, Times, FrameRise
  PROVE  Clock' /\ Times'
<1>1. /\ edge = "rise" /\ edge' = "fall" /\ cfg' = cfg /\ n' = (IF Valid THEN n + 1 ELSE n)
      /\ n \in Nat /\ triggerTime \in Nat /\ base \in Nat /\ t' = t
      /\ mask \in {{}, {"hi"}, {"lo", "hi"}} /\ cfg.continuous \in BOOLEAN
  BY InputsNext, ConfigIs DEF Signals, FrameRise, Rise, outVars
<1>2. /\ base' = IF state = "ARMED" /\ state' = "RUNNING" THEN n' ELSE base
      /\ owedTime' = IF Validated THEN owedTime \o Words(n + 1 - base) ELSE owedTime
  BY DEF FrameRise, Words
<1>3. Tick = IF Valid THEN triggerTime + 1 ELSE triggerTime
  BY DEF Tick
<1>4. HandleState
  BY DEF FrameRise, Rise
<1>5. ASSUME state # "POST", state' # "POST"
      PROVE  Times'
  <2>1. owedTime = <<>>
    BY <1>1, <1>5 DEF Times
  <2>2. owedTime' = <<>>
    BY <1>2, <1>5, <2>1 DEF Validated
  <2>3. QED  BY <1>1, <1>5, <2>2 DEF Times
<1>6. CASE FsmIdle \/ FsmStop
  BY <1>1, <1>2, <1>5, <1>6 DEF FsmIdle, FsmStop, Clock
<1>7. CASE FsmArmed
  BY <1>1, <1>2, <1>5, <1>7 DEF FsmArmed, Clock
<1>8. CASE FsmRunning
  BY <1>1, <1>2, <1>3, <1>5, <1>8 DEF FsmRunning, Clock
<1>9. CASE FsmCheck
  BY <1>1, <1>2, <1>3, <1>5, <1>9 DEF FsmCheck, Clock, Counting
<1>10. CASE FsmValidate
  <2>1. /\ state = "CHECK" /\ state' = "POST" /\ Valid /\ triggerTime' = Tick /\ mask' = {"lo", "hi"}
    BY <1>10, BeyondValid DEF FsmValidate
  <2>2. ~ cfg.continuous
    BY <2>1 DEF Counting
  <2>3. triggerTime' = n + 1 - base /\ n' = n + 1 /\ base' = base
    BY <1>1, <1>2, <1>3, <2>1, <2>2 DEF Clock
  <2>4. owedTime = <<>>
    BY <1>1, <2>1 DEF Times
  <2>5. owedTime' = Words(triggerTime')
    BY <1>2, <2>1, <2>3, <2>4 DEF Validated, Words
  <2>6. Times'
    BY <1>1, <2>1, <2>5 DEF Times, Words
  <2>7. Clock'
    BY <1>1, <2>3 DEF Clock
  <2>8. QED  BY <2>6, <2>7
<1>11. CASE FsmPost
  <2>1. /\ state = "POST" /\ state' \in {"POST", "RUNNING", "IDLE"}
        /\ mask' = IF "lo" \in mask THEN mask \ {"lo"} ELSE {}
        /\ triggerTime' = triggerTime \/ triggerTime' = triggerTime + 1
        /\ state' # "IDLE" => triggerTime' = Tick
    BY <1>3, <1>11 DEF FsmPost
  <2>2. base' = base /\ owedTime' = owedTime
    BY <1>2, <2>1 DEF Validated
  <2>3. Clock'
    BY <1>1, <1>3, <2>1, <2>2 DEF Clock
  <2>4. CASE mask = {"lo", "hi"}
    <3>1. mask' = {"hi"}
      BY <2>1, <2>4
    <3>2. owedTime' = <<triggerTime \div WordSize>> /\ t' = triggerTime % WordSize
      BY <1>1, <2>1, <2>2, <2>4 DEF Times
    <3>3. High'
      BY <1>1, <2>1, <3>2 DEF High
    <3>4. QED  BY <1>1, <2>1, <2>3, <3>1, <3>2, <3>3 DEF Times
  <2>5. CASE mask # {"lo", "hi"}
    <3>1. mask' = {} /\ owedTime' = <<>>
      BY <1>1, <2>1, <2>2, <2>5 DEF Times
    <3>2. QED  BY <1>1, <2>1, <2>3, <3>1 DEF Times
  <2>6. QED  BY <2>4, <2>5
<1>12. QED  BY <1>4, <1>6, <1>7, <1>8, <1>9, <1>10, <1>11 DEF HandleState

(* The words go out one by one.                                            *)
LEMMA TimesFall ==
  ASSUME Signals, Clock, Times, FrameFall
  PROVE  /\ Clock' /\ Times'
         /\ t' # None /\ state = "POST"
              => /\ owedTime # <<>>
                 /\ t' = Head(owedTime) \/ (t = WordSize - 1 /\ t' = Head(owedTime) + 1)
<1> DEFINE lo(k) == k % WordSize
           hi(k) == k \div WordSize
<1>1. /\ edge = "fall" /\ edge' = "rise" /\ UNCHANGED <<cfg, n, state, mask, triggerTime, base>>
      /\ t' = IF "lo" \in mask THEN lo(triggerTime) ELSE IF "hi" \in mask THEN hi(triggerTime) ELSE None
      /\ owedTime' = IF t' # None /\ owedTime # <<>> THEN Tail(owedTime) ELSE owedTime
      /\ mask \in {{}, {"hi"}, {"lo", "hi"}} /\ triggerTime \in Nat
  BY DEF FrameFall, Fall, TimeOut, Paid, fsmVars, Signals
<1>2. Clock'
  BY <1>1 DEF Clock
<1>3. \A k \in Nat : lo(k) \in Nat /\ hi(k) \in Nat
  BY TrarecAssumption, DivMod
<1>4. \A k \in Nat : lo(k) # None /\ hi(k) # None
  BY <1>3, TrarecAssumption
<1>5. \A k \in Nat : hi(k + 1) = IF lo(k) = WordSize - 1 THEN hi(k) + 1 ELSE hi(k)
  <2> TAKE k \in Nat
  <2> DEFINE w == WordSize
  <2>1. w \in Nat \ {0, 1} /\ k \in Int
    BY TrarecAssumption
  <2> HIDE DEF w
  <2>2. (k + 1) \div w = IF k % w = w - 1 THEN k \div w + 1 ELSE k \div w
    BY <2>1, ModNext
  <2>3. QED  BY <2>2 DEF w
<1>6. ASSUME NEW a, NEW b PROVE /\ <<a, b>> # <<>> /\ Head(<<a, b>>) = a /\ Tail(<<a, b>>) = <<b>>
                               /\ <<a>> # <<>> /\ Head(<<a>>) = a /\ Tail(<<a>>) = <<>>
  OBVIOUS
<1> HIDE DEF lo, hi
<1>7. CASE mask = {"lo", "hi"} /\ state = "POST"
  <2>1. owedTime = <<lo(triggerTime), hi(triggerTime)>>
    BY <1>1, <1>7, MaskIs DEF Times, Words, lo, hi
  <2>2. t' = lo(triggerTime) /\ t' # None
    BY <1>1, <1>4, <1>7
  <2>3. owedTime' = <<hi(triggerTime)>> /\ Head(owedTime) = t' /\ owedTime # <<>>
    BY <1>1, <1>6, <2>1, <2>2
  <2>4. Times'
    BY <1>1, <1>7, <2>2, <2>3 DEF Times, lo, hi
  <2>5. QED  BY <1>2, <2>3, <2>4
<1>8. CASE mask = {"hi"}
  <2>1. t' = hi(triggerTime) /\ t' # None
    BY <1>1, <1>4, <1>8, MaskIs
  <2>2. owedTime = <<>> \/ \E w : owedTime = <<w>>
    BY <1>1, <1>8, MaskIs DEF Times, High
  <2>3. owedTime' = <<>>
    BY <1>1, <1>6, <2>1, <2>2
  <2>4. Times'
    BY <1>1, <1>8, <2>3, MaskIs DEF Times
  <2>5. ASSUME state = "POST"
        PROVE  /\ owedTime # <<>>
               /\ t' = Head(owedTime) \/ (t = WordSize - 1 /\ t' = Head(owedTime) + 1)
    <3>1. High
      BY <1>1, <1>8, <2>5, MaskIs DEF Times
    <3>2. PICK k \in Nat : /\ triggerTime = k \/ triggerTime = k + 1
                           /\ owedTime = <<hi(k)>> /\ t = lo(k)
      BY <3>1 DEF High, lo, hi
    <3>3. owedTime # <<>> /\ Head(owedTime) = hi(k)
      BY <1>6, <3>2
    <3>4. QED  BY <1>5, <2>1, <3>2, <3>3
  <2>6. QED  BY <1>2, <2>4, <2>5
<1>9. CASE mask = {}
  <2>1. t' = None /\ owedTime' = owedTime
    BY <1>1, <1>9
  <2>2. owedTime = <<>>
    BY <1>1, <1>9, MaskIs DEF Times
  <2>3. Times'
    BY <1>1, <1>9, <2>1, <2>2, MaskIs DEF Times
  <2>4. QED  BY <1>2, <2>1, <2>3
<1>10. CASE mask = {"lo", "hi"} /\ state # "POST"
  <2>1. owedTime = <<>>
    BY <1>1, <1>10, MaskIs DEF Times
  <2>2. owedTime' = <<>>
    BY <1>1, <2>1
  <2>3. Times'
    BY <1>1, <1>10, <2>2 DEF Times
  <2>4. QED  BY <1>2, <1>10, <2>3
<1>11. QED  BY <1>1, <1>7, <1>8, <1>9, <1>10

(* The two words that go out for a trigger are its time, low word first,   *)
(* but for a carry that comes between them (TimeOut, the mask of FsmPost). *)
THEOREM TimesAreTrue == FrameSpec => TimeWords
<1> DEFINE Inv == Signals /\ Counting /\ Clock /\ Times
<1>1. FrameInit => Inv
  BY SignalsStart DEF FrameInit, Init, Counting, Clock, Times
<1>2. Inv /\ [FrameNext]_frameVars => Inv'
  <2> SUFFICES ASSUME Inv, [FrameNext]_frameVars PROVE Clock' /\ Times'
    BY SignalsNext, CountingNext
  <2>1. CASE UNCHANGED frameVars
    BY <2>1 DEF frameVars, vars, history, fsmVars, outVars, Clock, Times, High
  <2>2. QED  BY <2>1, TimesRise, TimesFall DEF FrameNext
<1>3. Inv /\ [FrameNext]_frameVars
        => [edge = "fall" /\ t' # None /\ state = "POST"
              => /\ owedTime # <<>>
                 /\ \/ t' = Head(owedTime)
                    \/ t = WordSize - 1 /\ t' = Head(owedTime) + 1]_frameVars
  <2> SUFFICES ASSUME Inv, FrameFall, t' # None, state = "POST"
               PROVE  /\ owedTime # <<>>
                      /\ t' = Head(owedTime) \/ (t = WordSize - 1 /\ t' = Head(owedTime) + 1)
    BY DEF FrameNext, FrameRise, Rise
  <2>1. QED  BY TimesFall
<1> HIDE DEF Inv
<1>4. QED  BY <1>1, <1>2, <1>3, PTL DEF FrameSpec, TimeWords

-----------------------------------------------------------------------------
(* The buffer and its ports.                                               *)
Addresses == 0 .. CbufSize - 1

(* How many samples are in the buffer.                                     *)
Written ==
  IF edge = "rise" THEN IF wr = None THEN n ELSE n - 1 ELSE IF available THEN n - 1 ELSE n

(* The buffer holds the last CbufSize samples, each at its place.          *)
Stored(b, w) == \A k \in Int : w - CbufSize <= k /\ k < w => b[At(k)] = k

Ports ==
  /\ cbuf \in [Addresses -> Int] /\ q \in Int /\ doutb \in Int
  /\ memState \in {"IDLE", "START", "PIPE", "NO_PIPE"}
  /\ inAddr \in Addresses /\ outAddr \in Addresses
  /\ startOut \in Addresses \cup {None} /\ addrb \in Addresses \cup {None}
  /\ memState \in {"START", "PIPE"} => addrb # None

Memory ==
  /\ Ports
  /\ available \in BOOLEAN /\ (available => edge = "fall" /\ n > 0)
  /\ currIn = At(IF available THEN n - 1 ELSE n)
  /\ edge = "rise" => wr = None \/ wr = [addr |-> At(n - 1), data |-> n - 1]
  /\ Stored(cbuf, Written)

LEMMA NoneIsNo ==
  /\ None \notin Addresses /\ None \notin Int
  /\ \A a \in Int, d \in Int : [addr |-> a, data |-> d] # None
<1>1. None \notin [addr : Int, data : Int] /\ None \notin Int
  BY TrarecAssumption, Zenon
<1>2. \A a \in Int, d \in Int : [addr |-> a, data |-> d] \in [addr : Int, data : Int]
  OBVIOUS
<1>3. \A a \in Int, d \in Int : [addr |-> a, data |-> d] # None
  BY <1>1, <1>2, Zenon
<1>4. CbufSize \in Nat
  BY TrarecAssumption
<1>5. None \notin Addresses
  BY <1>1, <1>4 DEF Addresses
<1>6. QED  BY <1>1, <1>3, <1>5

LEMMA AtIs ==
  ASSUME NEW k \in Int
  PROVE  At(k) \in Addresses /\ At(k) \in Int /\ At(k + 1) = (At(k) + 1) % CbufSize
  BY Places, TrarecAssumption DEF Addresses

LEMMA MemoryStart ==
  ASSUME FrameInit
  PROVE  Memory
<1> DEFINE c == CbufSize
<1>0. c \in Nat \ {0, 1}
  BY TrarecAssumption
<1>1. /\ edge = "rise" /\ n = 0 /\ inAddr = 0 /\ outAddr = 0 /\ currIn = 0 /\ startOut = None
      /\ addrb = None /\ wr = None /\ memState = "IDLE" /\ q = 0 /\ doutb = 0 /\ available = FALSE
      /\ cbuf = [a \in 0 .. c - 1 |-> a - c]
  BY DEF FrameInit, Init
<1>2. Ports
  BY <1>0, <1>1 DEF Ports, Addresses
<1>3. ASSUME NEW k \in Int, 0 - c <= k, k < 0
      PROVE  At(k) = k + c /\ k + c \in 0 .. c - 1
  <2> DEFINE s == k + c
  <2>1. s \in 0 .. c - 1 /\ k = c * (-1) + s
    BY <1>0, <1>3
  <2> HIDE DEF c, s
  <2>2. k % c = s
    BY <1>0, <2>1, ModIs
  <2>3. QED  BY <2>1, <2>2 DEF At, c, s
<1>4. Stored(cbuf, 0)
  BY <1>0, <1>1, <1>3 DEF Stored
<1>5. At(0) = 0
  <2>1. 0 \in 0 .. c - 1 /\ 0 = c * 0 + 0 /\ 0 \in Int
    BY <1>0
  <2> HIDE DEF c
  <2>2. 0 % c = 0
    BY <1>0, <2>1, ModIs
  <2>3. QED  BY <2>2 DEF At, c
<1>6. QED  BY <1>1, <1>2, <1>4, <1>5 DEF Memory, Written

(* The write of a rising edge.                                             *)
LEMMA WriteIsStored ==
  ASSUME NEW b \in [Addresses -> Int], NEW w \in Int, Stored(b, w)
  PROVE  Stored([b EXCEPT ![At(w)] = w], w + 1)
<1> DEFINE d == [b EXCEPT ![At(w)] = w]
           v == w + 1
<1> SUFFICES ASSUME NEW k \in Int, v - CbufSize <= k, k < v
             PROVE  d[At(k)] = k
  <2> HIDE DEF d, v
  <2>1. SUFFICES Stored(d, v)
    BY DEF d, v
  <2>2. QED  BY Zenon DEF Stored
<1>0. CbufSize \in Nat
  BY TrarecAssumption
<1>1. At(k) \in Addresses /\ At(w) \in Addresses
  BY AtIs
<1>2. CASE k = w
  BY <1>1, <1>2
<1>3. CASE k # w
  <2>1. k < w /\ w - CbufSize <= k
    BY <1>0, <1>3
  <2>2. At(k) # At(w)
    BY <1>0, <1>3, <2>1, Places
  <2>3. b[At(k)] = k
    BY <2>1 DEF Stored
  <2>4. QED  BY <1>1, <2>2, <2>3
<1>4. QED  BY <1>2, <1>3

LEMMA MemoryRise ==
  ASSUME Signals, Memory, FrameRise
  PROVE  /\ Memory' /\ currIn = At(n)
         /\ memState \in {"START", "PIPE"} => q' = cbuf[addrb]
         /\ doutb' = q
<1>1. /\ edge = "rise" /\ edge' = "fall" /\ n' = (IF Valid THEN n + 1 ELSE n) /\ n \in Nat /\ cfg \in Configs
      /\ available' = Valid /\ Ram /\ HandleState
      /\ UNCHANGED <<currIn, outAddr, memState, wr, addrb>>
  BY DEF Signals, FrameRise, Rise
<1>2. currIn = At(n) /\ CbufSize \in Nat \ {0, 1}
  BY <1>1, TrarecAssumption DEF Memory
<1>3. /\ cbuf' = IF wr = None THEN cbuf ELSE [cbuf EXCEPT ![wr.addr] = wr.data]
      /\ q' = IF addrb = None THEN q ELSE cbuf[addrb]
      /\ doutb' = q
  BY <1>1 DEF Ram
<1>4. Stored(cbuf', n) /\ cbuf' \in [Addresses -> Int]
  <2>1. CASE wr = None
    BY <1>1, <1>3, <2>1 DEF Memory, Ports, Written
  <2>2. CASE wr # None
    <3>1. wr = [addr |-> At(n - 1), data |-> n - 1] /\ Stored(cbuf, n - 1) /\ cbuf \in [Addresses -> Int]
      BY <1>1, <2>2 DEF Memory, Ports, Written
    <3>2. cbuf' = [cbuf EXCEPT ![At(n - 1)] = n - 1]
      BY <1>3, <2>2, <3>1
    <3> DEFINE w == n - 1
    <3>3. w \in Int /\ w + 1 = n
      BY <1>1
    <3>4. Stored([cbuf EXCEPT ![At(w)] = w], w + 1)
      <4> HIDE DEF w
      <4>1. QED  BY <3>1, <3>3, WriteIsStored DEF w
    <3>5. At(w) \in Addresses
      BY <3>3, AtIs
    <3>6. QED  BY <3>1, <3>2, <3>3, <3>4, <3>5
  <2>3. QED  BY <2>1, <2>2
<1>5. q' \in Int /\ doutb' \in Int /\ (memState \in {"START", "PIPE"} => q' = cbuf[addrb])
  BY <1>3 DEF Memory, Ports
<1>6. inAddr' \in Addresses /\ startOut' \in Addresses \cup {None}
  <2>1. inAddr \in Addresses /\ startOut \in Addresses \cup {None} /\ currIn \in Addresses
    BY <1>1, <1>2, AtIs DEF Memory, Ports
  <2>2. CASE FsmValidate
    <3>1. /\ inAddr' = currIn
          /\ startOut' = LET a == currIn - cfg.pre - cfg.trig IN IF a < 0 THEN a + CbufSize ELSE a
      BY <2>2 DEF FsmValidate
    <3> DEFINE d == cfg.pre + cfg.trig
    <3>2. cfg.pre \in Nat /\ cfg.trig \in Nat /\ d \in 0 .. CbufSize - 1 /\ n - d \in Int
      BY <1>1, <1>2, ConfigIs
    <3>3. startOut' = IF At(n) - d < 0 THEN At(n) - d + CbufSize ELSE At(n) - d
      <4>1. At(n) \in Int
        BY <1>1, AtIs
      <4>2. QED  BY <1>2, <3>1, <3>2, <4>1
    <3>4. startOut' = At(n - d)
      <4> HIDE DEF d
      <4>1. QED  BY <1>1, <3>2, <3>3, Back
    <3>5. QED  BY <2>1, <3>1, <3>2, <3>4, AtIs
  <2>3. CASE FsmPost
    BY <2>1, <2>3 DEF FsmPost
  <2>4. CASE FsmIdle \/ FsmStop \/ FsmArmed \/ FsmRunning \/ FsmCheck
    BY <2>1, <2>4 DEF FsmIdle, FsmStop, FsmArmed, FsmRunning, FsmCheck
  <2>5. QED  BY <1>1, <2>2, <2>3, <2>4 DEF HandleState
<1>7. Ports'
  BY <1>1, <1>4, <1>5, <1>6 DEF Memory, Ports
<1>8. available' \in BOOLEAN /\ (available' => n' > 0) /\ (IF available' THEN n' - 1 ELSE n') = n
  <2>1. Valid \in BOOLEAN
    BY Zenon DEF Valid
  <2>2. QED  BY <1>1, <2>1
<1>9. Written' = n
  BY <1>1, <1>8 DEF Written
<1>10. currIn' = At(IF available' THEN n' - 1 ELSE n')
  BY <1>1, <1>2, <1>8
<1>11. Memory'
  BY <1>1, <1>4, <1>7, <1>8, <1>9, <1>10 DEF Memory
<1>12. QED  BY <1>2, <1>3, <1>5, <1>11

LEMMA MemoryFall ==
  ASSUME Signals, Memory, FrameFall
  PROVE  Memory'
<1>1. /\ edge = "fall" /\ edge' = "rise" /\ n' = n /\ n \in Nat
      /\ Readout /\ Insert /\ UNCHANGED <<inAddr, startOut, cbuf, q, doutb>>
  BY DEF Signals, FrameFall, Fall, fsmVars, ramVars
<1>2. ReadFrom \in Addresses /\ CbufSize \in Nat \ {0, 1}
  BY TrarecAssumption DEF Memory, Ports, ReadFrom
<1>3. (ReadFrom + 1) % CbufSize \in Addresses
  BY <1>2, DivMod DEF Addresses
<1>4. /\ memState' \in {"IDLE", "START", "PIPE", "NO_PIPE"}
      /\ outAddr' \in Addresses /\ addrb' \in Addresses \cup {None}
      /\ memState' \in {"START", "PIPE"} => addrb' # None
  BY <1>1, <1>2, <1>3, NoneIsNo DEF Readout, Memory, Ports
<1>5. Ports'
  BY <1>1, <1>4 DEF Memory, Ports
<1>6. CASE available
  <2>1. currIn = At(n - 1) /\ n - 1 \in Int /\ n - 1 + 1 = n /\ Stored(cbuf, n - 1)
    BY <1>1, <1>6 DEF Memory, Written
  <2>2. wr' = [addr |-> At(n - 1), data |-> n - 1] /\ currIn' = (At(n - 1) + 1) % CbufSize /\ available' = FALSE
    BY <1>1, <1>6, <2>1 DEF Insert
  <2>3. wr' # None
    BY <2>1, <2>2, AtIs, NoneIsNo
  <2>4. currIn' = At(n)
    BY <2>1, <2>2, AtIs
  <2>5. Written' = n - 1
    BY <1>1, <2>3 DEF Written
  <2>6. QED  BY <1>1, <1>5, <2>1, <2>2, <2>4, <2>5 DEF Memory
<1>7. CASE ~ available
  <2>1. currIn = At(n) /\ Stored(cbuf, n)
    BY <1>1, <1>7 DEF Memory, Written
  <2>2. wr' = None /\ currIn' = currIn /\ available' = FALSE
    BY <1>1, <1>7 DEF Insert
  <2>3. Written' = n
    BY <1>1, <2>2 DEF Written
  <2>4. QED  BY <1>1, <1>5, <2>1, <2>2, <2>3 DEF Memory
<1>8. QED  BY <1>6, <1>7

LEMMA MemoryNext ==
  ASSUME Signals, Memory, [FrameNext]_frameVars
  PROVE  Memory'
<1>1. CASE UNCHANGED frameVars
  BY <1>1 DEF frameVars, vars, fsmVars, bufVars, ramVars, Memory, Ports, Written
<1>2. QED  BY <1>1, MemoryRise, MemoryFall DEF FrameNext

-----------------------------------------------------------------------------
(* Runs of sample numbers.                                                 *)
(* The samples from number r up to, not including, number e.               *)
Run(r, e) == [i \in 1 .. e - r |-> r + i - 1]

(* Samples the memory is delivering: first to last, of its two stages.     *)
Moving(a, b) ==
  IF memState = "IDLE" THEN <<>>
  ELSE IF memState = "START" THEN <<b>> ELSE IF memState = "PIPE" THEN <<a, b>> ELSE <<a>>

LEMMA RunIs ==
  ASSUME NEW r \in Int, NEW e \in Int, r <= e
  PROVE  /\ Run(r, e) \in Seq(Int) /\ Len(Run(r, e)) = e - r
         /\ \A i \in 1 .. e - r : Run(r, e)[i] = r + i - 1
  BY DEF Run

LEMMA Joined ==
  ASSUME NEW s \in Seq(Int), NEW u \in Seq(Int)
  PROVE  /\ s \o u \in Seq(Int) /\ Len(s \o u) = Len(s) + Len(u)
         /\ \A i \in 1 .. Len(s) + Len(u) : (s \o u)[i] = IF i <= Len(s) THEN s[i] ELSE u[i - Len(s)]
  BY ConcatProperties, Zenon

LEMMA Pair == ASSUME NEW a \in Int, NEW b \in Int PROVE <<a>> \o <<b>> = <<a, b>>
<1> DEFINE x == <<a>>
           y == <<b>>
           z == <<a, b>>
           v == x \o y
<1>1. x \in Seq(Int) /\ Len(x) = 1 /\ x[1] = a
  OBVIOUS
<1>2. y \in Seq(Int) /\ Len(y) = 1 /\ y[1] = b
  OBVIOUS
<1>3. z \in Seq(Int) /\ Len(z) = 2 /\ z[1] = a /\ z[2] = b
  OBVIOUS
<1> HIDE DEF x, y, z
<1>4. /\ v \in Seq(Int) /\ Len(v) = Len(x) + Len(y)
      /\ \A i \in 1 .. Len(x) + Len(y) : v[i] = IF i <= Len(x) THEN x[i] ELSE y[i - Len(x)]
  BY <1>1, <1>2, Joined, Zenon
<1> HIDE DEF v
<1>5. Len(v) = 2 /\ v[1] = a /\ v[2] = b
  BY <1>1, <1>2, <1>4
<1>6. \A i \in 1 .. Len(v) : v[i] = z[i]
  BY <1>3, <1>5
<1>7. v = z
  BY <1>3, <1>4, <1>5, <1>6, SeqEqual
<1>8. QED  BY <1>7 DEF v, x, y, z

LEMMA Joining ==
  ASSUME NEW s \in Seq(Int), NEW a \in Int, NEW b \in Int
  PROVE  /\ <<>> \o s = s /\ s \o <<>> = s
         /\ <<a>> \o s # <<>> /\ Head(<<a>> \o s) = a /\ Tail(<<a>> \o s) = s
         /\ <<a, b>> \o s # <<>> /\ Head(<<a, b>> \o s) = a /\ Tail(<<a, b>> \o s) = <<b>> \o s
         /\ <<a>> \o (<<b>> \o s) = <<a, b>> \o s
<1> <<>> \in Seq(Int) /\ <<a>> \in Seq(Int) /\ <<a, b>> \in Seq(Int) /\ <<b>> \in Seq(Int)
  OBVIOUS
<1>1. <<>> \o s = s /\ s \o <<>> = s
  OBVIOUS
<1>2. <<a>> \o s # <<>> /\ Head(<<a>> \o s) = a
  OBVIOUS
<1>3. Tail(<<a>> \o s) = s
  OBVIOUS
<1>4. <<a, b>> \o s # <<>> /\ Head(<<a, b>> \o s) = a
  OBVIOUS
<1>5. <<a>> \o (<<b>> \o s) = <<a, b>> \o s
  <2>1. (<<a>> \o <<b>>) \o s = <<a>> \o (<<b>> \o s)
    BY ConcatAssociative
  <2>2. <<a>> \o <<b>> = <<a, b>>
    BY Pair
  <2>3. QED  BY <2>1, <2>2
<1>6. <<b>> \o s \in Seq(Int)
  OBVIOUS
<1>7. Tail(<<a>> \o (<<b>> \o s)) = <<b>> \o s
  OBVIOUS
<1>8. QED  BY <1>1, <1>2, <1>3, <1>4, <1>5, <1>7

(* Two items before the rest, and the second alone when the first is taken. *)
LEMMA JoinTwo ==
  ASSUME NEW s \in Seq(Int), NEW a \in Int, NEW b \in Int
  PROVE  /\ <<a>> \o (<<b>> \o s) = <<a, b>> \o s
         /\ Tail(<<a, b>> \o s) = <<b>> \o s
<1>1. <<a>> \o (<<b>> \o s) = <<a, b>> \o s
  BY Joining
<1>2. Tail(<<a, b>> \o s) = <<b>> \o s
  BY Joining
<1>3. QED  BY <1>1, <1>2

LEMMA AppendJoin ==
  ASSUME NEW f \in Seq(Int), NEW s \in Seq(Int), NEW x \in Int
  PROVE  Append(f \o s, x) = f \o Append(s, x)
<1>1. <<x>> \in Seq(Int) /\ f \o s \in Seq(Int)
  OBVIOUS
<1>2. (f \o s) \o <<x>> = f \o (s \o <<x>>)
  BY <1>1, ConcatAssociative
<1>3. Append(f \o s, x) = (f \o s) \o <<x>>
  BY <1>1, AppendIsConcat
<1>4. Append(s, x) = s \o <<x>>
  BY AppendIsConcat
<1>5. QED  BY <1>2, <1>3, <1>4

LEMMA RunNone ==
  ASSUME NEW r \in Int
  PROVE  Run(r, r) = <<>>
  BY RunIs

LEMMA RunFirst ==
  ASSUME NEW r \in Int, NEW e \in Int, r < e
  PROVE  Run(r, e) = <<r>> \o Run(r + 1, e)
<1> DEFINE p == r + 1
           s == Run(p, e)
           u == <<r>> \o s
<1>1. p \in Int /\ p <= e
  OBVIOUS
<1>2. s \in Seq(Int) /\ Len(s) = e - p /\ \A i \in 1 .. e - p : s[i] = p + i - 1
  <2> HIDE DEF p
  <2>1. QED  BY <1>1, RunIs
<1>3. Run(r, e) \in Seq(Int) /\ Len(Run(r, e)) = e - r /\ \A i \in 1 .. e - r : Run(r, e)[i] = r + i - 1
  BY RunIs
<1> HIDE DEF s
<1>4. <<r>> \in Seq(Int) /\ Len(<<r>>) = 1 /\ <<r>>[1] = r
  OBVIOUS
<1>5. u \in Seq(Int) /\ Len(u) = e - r
  BY <1>2, <1>4
<1>6. ASSUME NEW i \in 1 .. e - r
      PROVE  u[i] = r + i - 1
  <2>1. CASE i = 1
    BY <1>2, <1>4, <2>1
  <2>2. CASE i # 1
    <3>1. u[i] = s[i - 1] /\ i - 1 \in 1 .. e - p
      BY <1>2, <1>4, <2>2
    <3>2. QED  BY <1>2, <3>1
  <2>3. QED  BY <2>1, <2>2
<1> HIDE DEF u
<1>7. Run(r, e) = u
  <2>1. \A i \in 1 .. Len(u) : Run(r, e)[i] = u[i]
    BY <1>3, <1>5, <1>6
  <2>2. QED  BY <1>3, <1>5, <2>1, SeqEqual
<1>8. QED  BY <1>7 DEF u, s

LEMMA RunLast ==
  ASSUME NEW r \in Int, NEW e \in Int, r <= e
  PROVE  Append(Run(r, e), e) = Run(r, e + 1)
<1> DEFINE p == e + 1
           s == Run(r, e)
           u == Append(s, e)
<1>1. p \in Int /\ r <= p
  OBVIOUS
<1>2. s \in Seq(Int) /\ Len(s) = e - r /\ \A i \in 1 .. e - r : s[i] = r + i - 1
  BY RunIs
<1>3. Run(r, p) \in Seq(Int) /\ Len(Run(r, p)) = p - r /\ \A i \in 1 .. p - r : Run(r, p)[i] = r + i - 1
  <2> HIDE DEF p
  <2>1. QED  BY <1>1, RunIs
<1> HIDE DEF s
<1>5. u \in Seq(Int) /\ Len(u) = p - r
  BY <1>2
<1>6. ASSUME NEW i \in 1 .. p - r
      PROVE  u[i] = r + i - 1
  BY <1>2
<1> HIDE DEF u
<1>7. Run(r, p) = u
  <2>1. \A i \in 1 .. Len(u) : Run(r, p)[i] = u[i]
    BY <1>3, <1>5, <1>6
  <2> HIDE DEF p
  <2>2. QED  BY <1>3, <1>5, <2>1, SeqEqual
<1>8. QED  BY <1>7 DEF u, s

-----------------------------------------------------------------------------
(* Reading a frame: what is still to be read, and in what time.            *)
Flight == IF edge = "fall" THEN Moving(doutb, q) ELSE Moving(q, cbuf[addrb])

(* Samples from r up to e are still to be read.                            *)
Span(r, e) ==
  /\ r <= e /\ e <= n /\ e - r < CbufSize
  /\ At(r) = (IF edge = "fall" THEN ReadFrom ELSE outAddr) /\ At(e) = inAddr
  /\ state = "POST" => e = n - 1
  /\ r < e => e < n /\ n - r <= (IF edge = "fall" THEN CbufSize ELSE CbufSize - 1)

(* The samples a frame records in POST, those until the next trigger can   *)
(* be validated, those the frame may still append, and the clocks there are. *)
Record(g) == Longer(g.post, g.trig + 1)
Until(g, s, c) ==
  IF s = "POST" THEN Record(g) - c + g.trig + 2 ELSE IF s = "CHECK" THEN g.trig + 1 - c ELSE g.trig + 2
Coming(g, s, c) == IF s = "POST" THEN Record(g) - c ELSE 0
Clocks(g, e, p, u) == (IF e = "fall" THEN 1 ELSE 0) + g.dec - p + g.dec * (u - 1)

Quick == cfg.pre <= (cfg.dec - 1) * Record(cfg) + 2 * cfg.dec /\ ~ cut

InTime(r, e) ==
  Quick => e - r + Coming(cfg, state, currCount)
             <= Clocks(cfg, edge, gap, Until(cfg, state, currCount))

Reading(r, e) == Span(r, e) /\ owed = Flight \o Run(r, e) /\ InTime(r, e)

Read ==
  /\ state # "POST" => startOut = None
  /\ ~ truncated => \E r, e \in Int : Reading(r, e)
  /\ Quick => ~ truncated
  /\ cfg.continuous => memState = "IDLE" /\ owed = <<>> /\ startOut = None /\ outAddr = inAddr

LEMMA Product ==
  ASSUME NEW d \in Nat \ {0}, NEW k \in Nat
  PROVE  d * k \in Nat /\ d * k >= k /\ d * (k + 1) = d * k + d
<1>1. d * k = (d - 1) * k + k /\ (d - 1) * k >= 0
  OBVIOUS
<1>2. QED  BY <1>1

LEMMA More ==
  ASSUME NEW d \in Nat \ {0}, NEW k \in Nat, NEW l \in Nat, k <= l
  PROVE  d * k <= d * l
<1>1. d * (l - k) >= 0 /\ d * (l - k) = d * l - d * k
  OBVIOUS
<1>2. QED  BY <1>1

LEMMA UntilIs ==
  ASSUME Signals, Counting
  PROVE  /\ Until(cfg, state, currCount) \in Nat \ {0} /\ Coming(cfg, state, currCount) \in Nat
         /\ Coming(cfg, state, currCount) < Until(cfg, state, currCount)
         /\ Record(cfg) \in Nat /\ Record(cfg) >= cfg.post /\ Record(cfg) >= cfg.trig + 1
         /\ cfg.dec \in Nat \ {0} /\ cfg.trig \in Nat /\ cfg.post \in Nat /\ cfg.pre \in Nat
         /\ gap \in Nat /\ gap <= cfg.dec
<1>1. /\ cfg.dec \in Nat \ {0} /\ cfg.trig \in Nat /\ cfg.post \in Nat /\ cfg.pre \in Nat
      /\ gap \in 1 .. cfg.dec /\ currCount \in Nat
  BY ConfigIs DEF Signals
<1>2. Record(cfg) \in Nat /\ Record(cfg) >= cfg.post /\ Record(cfg) >= cfg.trig + 1
  BY <1>1 DEF Record, Longer
<1>3. state = "POST" => currCount < Record(cfg)
  BY <1>1, <1>2 DEF Counting
<1>4. state = "CHECK" => currCount <= cfg.trig
  BY DEF Counting
<1>5. QED  BY <1>1, <1>2, <1>3, <1>4 DEF Until, Coming

(* A falling edge reads a word, or nothing is to be read.                  *)
LEMMA FallInTime ==
  ASSUME Signals, Counting, FrameFall, NEW r \in Int, NEW e \in Int, r <= e, InTime(r, e)
  PROVE  InTime(IF r < e THEN r + 1 ELSE r, e)'
<1> DEFINE u == Until(cfg, state, currCount)
           c == Coming(cfg, state, currCount)
           d == cfg.dec
           k == u - 1
           p == d * k
<1>1. /\ edge = "fall" /\ edge' = "rise" /\ UNCHANGED <<cfg, state, currCount, gap, cut>>
  BY DEF FrameFall, Fall, fsmVars, inVars
<1>2. Quick' = Quick
  BY <1>1 DEF Quick
<1>3. u \in Nat \ {0} /\ c \in Nat /\ c < u /\ d \in Nat \ {0} /\ gap \in Nat /\ gap <= d
  BY UntilIs
<1> HIDE DEF u, c
<1>4. k \in Nat /\ c <= k
  BY <1>3
<1>5. p \in Nat /\ p >= k
  <2> HIDE DEF k, d
  <2>1. QED  BY <1>3, <1>4, Product
<1>6. Clocks(cfg, "fall", gap, u) = 1 + d - gap + p /\ Clocks(cfg, "rise", gap, u) = 0 + d - gap + p
  BY DEF Clocks
<1> HIDE DEF p, k, d
<1> SUFFICES ASSUME Quick
             PROVE  e - (IF r < e THEN r + 1 ELSE r) + c <= 0 + d - gap + p
  BY <1>1, <1>2, <1>6 DEF InTime, u, c
<1>7. e - r + c <= 1 + d - gap + p
  BY <1>1, <1>6 DEF InTime, u, c
<1>8. QED  BY <1>3, <1>4, <1>5, <1>7

(* A rising edge leaves as many clocks as before.                          *)
LEMMA RiseClocks ==
  ASSUME Signals, FrameRise, NEW u \in Nat \ {0}, NEW v \in Nat \ {0},
         v >= u - 1, ~ Valid => v >= u
  PROVE  /\ Clocks(cfg', edge', gap', v) >= Clocks(cfg, edge, gap, u)
         /\ Clocks(cfg, edge, gap, u) \in Int /\ Clocks(cfg', edge', gap', v) \in Int
<1> DEFINE d == cfg.dec
           k == u - 1
           l == v - 1
           p == d * k
           x == d * l
           h == gap'
<1>1. /\ edge = "rise" /\ edge' = "fall" /\ cfg' = cfg
      /\ h = IF Valid THEN 1 ELSE IF gap < d THEN gap + 1 ELSE gap
      /\ Valid => gap = d
  BY InputsNext DEF Signals
<1>2. d \in Nat \ {0} /\ gap \in Nat /\ gap <= d
  BY ConfigIs DEF Signals
<1>3. k \in Nat /\ l \in Nat /\ l + 1 >= k /\ (~ Valid => l >= k)
  OBVIOUS
<1>4. p \in Nat /\ x \in Nat /\ x + d >= p /\ (~ Valid => x >= p)
  <2> HIDE DEF k, l, d
  <2>1. p \in Nat /\ x \in Nat /\ d * (l + 1) = x + d
    BY <1>2, <1>3, Product
  <2>2. p <= d * (l + 1)
    <3>1. l + 1 \in Nat
      BY <1>3
    <3>2. QED  BY <1>2, <1>3, <3>1, More
  <2>3. ~ Valid => p <= x
    BY <1>2, <1>3, More
  <2>4. QED  BY <2>1, <2>2, <2>3
<1>5. Clocks(cfg, edge, gap, u) = 0 + d - gap + p /\ Clocks(cfg', edge', gap', v) = 1 + d - h + x
  BY <1>1 DEF Clocks
<1> HIDE DEF p, x, d, h, k, l
<1>6. QED  BY <1>1, <1>2, <1>4, <1>5

(* What a rising edge does to the clocks there are and the samples to come. *)
LEMMA RiseUntil ==
  ASSUME Signals, Counting, FrameRise, ~ FsmValidate, ~ (state = "POST" /\ state' = "IDLE")
  PROVE  /\ Until(cfg', state', currCount') \in Nat \ {0}
         /\ Until(cfg', state', currCount') >= Until(cfg, state, currCount) - 1
         /\ ~ Valid => Until(cfg', state', currCount') >= Until(cfg, state, currCount)
         /\ Coming(cfg', state', currCount') \in Nat
         /\ Coming(cfg', state', currCount') + (IF Recorded THEN 1 ELSE 0) <= Coming(cfg, state, currCount)
<1>1. /\ Record(cfg) \in Nat /\ cfg.trig \in Nat /\ cfg.post \in Nat /\ currCount \in Nat
      /\ Record(cfg) = Longer(cfg.post, cfg.trig + 1)
  BY UntilIs DEF Signals, Record
<1>2. cfg' = cfg /\ HandleState /\ (Beyond => Valid)
  BY InputsNext, BeyondValid DEF FrameRise, Rise
<1>3. ASSUME state \in {"IDLE", "ARMED", "RUNNING"}, state' \in {"IDLE", "ARMED", "RUNNING"}
      PROVE  /\ Until(cfg', state', currCount') = cfg.trig + 2 /\ Until(cfg, state, currCount) = cfg.trig + 2
             /\ Coming(cfg', state', currCount') = 0 /\ Coming(cfg, state, currCount) = 0 /\ ~ Recorded
  BY <1>2, <1>3 DEF Until, Coming, Recorded
<1>4. CASE state \in {"IDLE", "ARMED", "RUNNING"} /\ state' \in {"IDLE", "ARMED", "RUNNING"}
  BY <1>1, <1>3, <1>4
<1>5. CASE state = "CHECK" /\ state' # "CHECK"
  <2>1. currCount <= cfg.trig
    BY <1>5 DEF Counting
  <2>2. state' \in {"IDLE", "RUNNING"} /\ ~ Recorded
    BY <1>2, <1>5 DEF HandleState, FsmIdle, FsmStop, FsmArmed, FsmRunning, FsmCheck, FsmPost, Recorded
  <2>3. /\ Until(cfg', state', currCount') = cfg.trig + 2 /\ Until(cfg, state, currCount) = cfg.trig + 1 - currCount
        /\ Coming(cfg', state', currCount') = 0 /\ Coming(cfg, state, currCount) = 0
    BY <1>2, <1>5, <2>2 DEF Until, Coming
  <2>4. QED  BY <1>1, <2>1, <2>2, <2>3
<1>6. CASE FsmIdle \/ FsmStop \/ FsmArmed
  BY <1>4, <1>5, <1>6 DEF FsmIdle, FsmStop, FsmArmed
<1>7. CASE FsmRunning
  <2>1. CASE state' = "RUNNING"
    BY <1>4, <1>7, <2>1 DEF FsmRunning
  <2>2. CASE state' # "RUNNING"
    <3>1. state = "RUNNING" /\ state' = "CHECK" /\ currCount' = 0 /\ Valid /\ ~ Recorded
      BY <1>2, <1>7, <2>2 DEF FsmRunning, Recorded
    <3>2. /\ Until(cfg', state', currCount') = cfg.trig + 1 - 0 /\ Until(cfg, state, currCount) = cfg.trig + 2
          /\ Coming(cfg', state', currCount') = 0 /\ Coming(cfg, state, currCount) = 0
      BY <1>2, <3>1 DEF Until, Coming
    <3>3. QED  BY <1>1, <3>1, <3>2
  <2>3. QED  BY <2>1, <2>2
<1>8. CASE FsmCheck
  <2>1. CASE state' # "CHECK"
    BY <1>5, <1>8, <2>1 DEF FsmCheck
  <2>2. CASE state' = "CHECK"
    <3>1. /\ state = "CHECK" /\ (Beyond => currCount < cfg.trig) /\ ~ Recorded /\ currCount <= cfg.trig
          /\ currCount' = IF Beyond THEN currCount + 1 ELSE currCount
      BY <1>8 DEF FsmCheck, Counting, Recorded
    <3>2. /\ Until(cfg', state', currCount') = cfg.trig + 1 - currCount'
          /\ Until(cfg, state, currCount) = cfg.trig + 1 - currCount
          /\ Coming(cfg', state', currCount') = 0 /\ Coming(cfg, state, currCount) = 0
      BY <1>2, <2>2, <3>1 DEF Until, Coming
    <3>3. CASE Beyond
      BY <1>1, <1>2, <3>1, <3>2, <3>3
    <3>4. CASE ~ Beyond
      BY <1>1, <3>1, <3>2, <3>4
    <3>5. QED  BY <3>3, <3>4
  <2>3. QED  BY <2>1, <2>2
<1>9. CASE FsmPost
  <2>1. /\ state = "POST" /\ cmd # "stop"
        /\ currCount' = IF Valid THEN currCount + 1 ELSE currCount
        /\ state' = IF Valid /\ currCount' >= cfg.post THEN "RUNNING" ELSE "POST"
    BY <1>9 DEF FsmPost
  <2>2. /\ Until(cfg, state, currCount) = Record(cfg) - currCount + cfg.trig + 2
        /\ Coming(cfg, state, currCount) = Record(cfg) - currCount
        /\ currCount >= cfg.trig /\ (currCount = cfg.trig \/ currCount < cfg.post)
    BY <2>1 DEF Until, Coming, Counting
  <2>3. CASE state' = "RUNNING"
    <3>1. Valid /\ Recorded /\ currCount + 1 >= cfg.post
      BY <2>1, <2>3 DEF Recorded
    <3>2. Record(cfg) = currCount + 1
      BY <1>1, <2>2, <3>1 DEF Longer
    <3>3. Until(cfg', state', currCount') = cfg.trig + 2 /\ Coming(cfg', state', currCount') = 0
      BY <1>2, <2>3 DEF Until, Coming
    <3>4. QED  BY <1>1, <2>2, <3>1, <3>2, <3>3
  <2>4. CASE state' # "RUNNING"
    <3>1. state' = "POST" /\ (Valid => currCount + 1 < cfg.post)
      BY <1>1, <2>1, <2>4
    <3>2. /\ Until(cfg', state', currCount') = Record(cfg) - currCount' + cfg.trig + 2
          /\ Coming(cfg', state', currCount') = Record(cfg) - currCount'
      BY <1>2, <3>1 DEF Until, Coming
    <3>3. Recorded <=> Valid
      BY <2>1 DEF Recorded
    <3>4. CASE Valid
      BY <1>1, <2>1, <2>2, <3>1, <3>2, <3>3, <3>4 DEF Longer
    <3>5. CASE ~ Valid
      BY <1>1, <2>1, <2>2, <3>2, <3>3, <3>5 DEF Longer
    <3>6. QED  BY <3>4, <3>5
  <2>5. QED  BY <2>3, <2>4
<1>10. QED  BY <1>2, <1>6, <1>7, <1>8, <1>9 DEF HandleState

LEMMA RiseInTime ==
  ASSUME Signals, Counting, FrameRise, ~ FsmValidate, NEW r \in Int, NEW e \in Int, InTime(r, e),
         NEW f \in Int, f = IF Recorded THEN e + 1 ELSE e
  PROVE  InTime(r, f)'
<1>1. cfg' = cfg /\ cut' = (cut \/ (state = "POST" /\ state' = "IDLE"))
  BY DEF FrameRise, Rise
<1>2. Quick' => Quick /\ ~ (state = "POST" /\ state' = "IDLE")
  BY <1>1 DEF Quick
<1>3. CASE state = "POST" /\ state' = "IDLE"
  BY <1>2, <1>3 DEF InTime
<1>4. CASE ~ (state = "POST" /\ state' = "IDLE")
  <2> DEFINE u == Until(cfg, state, currCount)
             v == Until(cfg', state', currCount')
             c == Coming(cfg, state, currCount)
             b == Coming(cfg', state', currCount')
             x == Clocks(cfg, edge, gap, u)
             y == Clocks(cfg', edge', gap', v)
  <2>1. v \in Nat \ {0} /\ v >= u - 1 /\ (~ Valid => v >= u) /\ b \in Nat /\ b + (IF Recorded THEN 1 ELSE 0) <= c
    BY <1>4, RiseUntil
  <2>2. u \in Nat \ {0} /\ c \in Nat
    BY UntilIs
  <2>3. y >= x /\ x \in Int /\ y \in Int
    <3> HIDE DEF u, v
    <3>1. QED  BY <2>1, <2>2, RiseClocks
  <2>4. Quick => e - r + c <= x
    BY DEF InTime
  <2> HIDE DEF u, v, c, b, x, y
  <2>5. f - r + b <= e - r + c
    <3>1. CASE Recorded
      BY <2>1, <2>2, <3>1
    <3>2. CASE ~ Recorded
      BY <2>1, <2>2, <3>2
    <3>3. QED  BY <3>1, <3>2
  <2>6. Quick => f - r + b <= y
    BY <2>1, <2>2, <2>3, <2>4, <2>5
  <2>7. QED  BY <1>2, <2>6 DEF InTime, y, v, b
<1>5. QED  BY <1>3, <1>4

(* A trigger is validated when the clocks there are have run out, and the   *)
(* frame it starts is in time if the decimation leaves it that time.        *)
LEMMA ValidateInTime ==
  ASSUME Signals, Counting, FrameRise, FsmValidate
  PROVE  /\ currCount = cfg.trig /\ n = first + 1 + cfg.trig /\ Valid /\ n' = n + 1
         /\ \A r, e \in Int : Quick /\ InTime(r, e) => e <= r
         /\ \A r, e \in Int : e - r = cfg.pre + cfg.trig => InTime(r, e)'
<1> DEFINE d == cfg.dec
           l == Record(cfg)
           p == d * l
           x == d * (l + 1)
           g == cfg.trig
           b == cfg.pre
<1>1. /\ cfg' = cfg /\ edge = "rise" /\ edge' = "fall" /\ (Valid => gap = d)
      /\ gap' = (IF Valid THEN 1 ELSE IF gap < d THEN gap + 1 ELSE gap)
      /\ n' = (IF Valid THEN n + 1 ELSE n)
  BY InputsNext DEF Signals
<1>2. state = "CHECK" /\ state' = "POST" /\ Beyond /\ currCount >= g /\ currCount' = g
  BY DEF FsmValidate
<1>3. Valid
  BY <1>2, BeyondValid
<1>4. d \in Nat \ {0} /\ g \in Nat /\ b \in Nat /\ l \in Nat /\ l >= g + 1 /\ currCount \in Nat
  BY UntilIs DEF Signals
<1>5. currCount = g /\ n = first + 1 + g
  BY <1>2, <1>4 DEF Counting
<1>6. ASSUME NEW r \in Int, NEW e \in Int, Quick, InTime(r, e)
      PROVE  e <= r
  <2>1. Until(cfg, state, currCount) = 1 /\ Coming(cfg, state, currCount) = 0
    BY <1>2, <1>4, <1>5 DEF Until, Coming
  <2>2. Clocks(cfg, edge, gap, 1) = 0
    <3>1. Clocks(cfg, edge, gap, 1) = 0 + d - d + d * (1 - 1)
      BY <1>1, <1>3 DEF Clocks
    <3>2. QED  BY <1>4, <3>1
  <2>3. e - r + 0 <= 0
    BY <1>6, <2>1, <2>2 DEF InTime
  <2>4. QED  BY <2>3
<1>7. ASSUME NEW r \in Int, NEW e \in Int, e - r = b + g
      PROVE  InTime(r, e)'
  <2> DEFINE v == Until(cfg, "POST", g)
             c == Coming(cfg, "POST", g)
  <2>1. v = l - g + g + 2 /\ c = l - g
    BY DEF Until, Coming
  <2>2. v = l + 2 /\ c \in Nat
    <3> HIDE DEF v, c, l, g
    <3>1. QED  BY <1>4, <2>1
  <2>3. Clocks(cfg, "fall", 1, v) = 1 + d - 1 + d * (v - 1)
    BY DEF Clocks
  <2>4. v - 1 = l + 1
    <3> HIDE DEF v, l
    <3>1. QED  BY <1>4, <2>2
  <2>5. Clocks(cfg, "fall", 1, v) = 1 + d - 1 + x
    BY <2>3, <2>4
  <2>6. p \in Nat /\ x = p + d
    <3> HIDE DEF d, l
    <3>1. QED  BY <1>4, Product
  <2>7. Quick => b <= (d - 1) * l + 2 * d
    BY DEF Quick
  <2>8. (d - 1) * l = p - l
    <3> HIDE DEF d, l
    <3>1. QED  BY <1>4
  <2> HIDE DEF p, x, d, l, g, b, v, c
  <2>9. Quick => e - r + c <= 1 + d - 1 + x
    BY <1>4, <1>7, <2>1, <2>6, <2>7, <2>8
  <2>10. Quick' => Quick
    BY <1>1 DEF Quick, FrameRise
  <2>11. e - r + c = e - r + Coming(cfg', state', currCount')
         /\ Clocks(cfg', edge', gap', Until(cfg', state', currCount')) = Clocks(cfg, "fall", 1, v)
    BY <1>1, <1>2, <1>3 DEF v, c, g
  <2>12. QED  BY <2>5, <2>9, <2>10, <2>11 DEF InTime
<1>8. QED  BY <1>1, <1>3, <1>5, <1>6, <1>7

-----------------------------------------------------------------------------
(* A frame as it is read.                                                  *)
LEMMA RunInts ==
  ASSUME NEW r \in Int, NEW e \in Int, r <= e
  PROVE  Run(r, e) \in Seq(Int)
  BY RunIs

LEMMA ReadFall ==
  ASSUME Signals, Counting, Memory, Read, FrameFall
  PROVE  /\ Read'
         /\ ~ Streaming /\ m' # None /\ ~ truncated => owed # <<>> /\ m' = Head(owed)
<1>1. /\ edge = "fall" /\ edge' = "rise" /\ n \in Nat /\ Readout
      /\ UNCHANGED <<cfg, n, state, startOut, inAddr, cut, truncated, cbuf, q, doutb>>
      /\ m' = IF Streaming THEN (IF Valid THEN n ELSE None)
              ELSE IF memState \in {"PIPE", "NO_PIPE"} THEN doutb ELSE None
      /\ owed' = IF Streaming THEN owed ELSE Paid(m, owed)
  BY DEF FrameFall, Fall, SampleOut, fsmVars, ramVars, Signals
<1>2. q \in Int /\ doutb \in Int /\ memState \in {"IDLE", "START", "PIPE", "NO_PIPE"}
  BY DEF Memory, Ports
<1>3. cfg.continuous => memState = "IDLE" /\ owed = <<>> /\ startOut = None /\ outAddr = inAddr
  BY DEF Read
<1>4. Streaming => cfg.continuous
  BY DEF Streaming
<1>5. doutb # None
  BY <1>2, NoneIsNo
<1>6. ~ Streaming /\ m' # None => memState \in {"PIPE", "NO_PIPE"} /\ m' = doutb
  BY <1>1
<1>7. owed' = IF memState \in {"PIPE", "NO_PIPE"} /\ owed # <<>> THEN Tail(owed) ELSE owed
  <2>1. CASE Streaming
    <3>1. memState = "IDLE"
      BY <1>3, <1>4, <2>1
    <3>2. QED  BY <1>1, <2>1, <3>1
  <2>2. CASE ~ Streaming
    BY <1>1, <1>5, <2>2 DEF Paid
  <2>3. QED  BY <2>1, <2>2
<1>8. cfg.continuous' => memState' = "IDLE" /\ owed' = <<>> /\ startOut' = None /\ outAddr' = inAddr'
  BY <1>1, <1>3, <1>7 DEF Readout, ReadMore, ReadFrom
<1>9. Quick' => ~ truncated'
  BY <1>1 DEF Read, Quick
<1>10. state' # "POST" => startOut' = None
  BY <1>1 DEF Read
<1>11. ASSUME ~ truncated
       PROVE  /\ \E r, e \in Int : Reading(r, e)'
              /\ memState \in {"PIPE", "NO_PIPE"} => owed # <<>> /\ doutb = Head(owed)
  <2>1. PICK r \in Int, e \in Int : Reading(r, e)
    BY <1>11 DEF Read
  <2>2. Span(r, e) /\ InTime(r, e) /\ owed = Moving(doutb, q) \o Run(r, e)
    BY <1>1, <2>1 DEF Reading, Flight
  <2>3. r <= e /\ e <= n /\ e - r < CbufSize /\ CbufSize \in Nat \ {0, 1}
    BY <2>2, TrarecAssumption DEF Span
  <2>4. At(r) = ReadFrom /\ At(e) = inAddr
    BY <1>1, <2>2 DEF Span
  <2>5. ReadMore <=> r < e
    <3>1. At(r) = At(e) => r = e
      BY <2>3, Places
    <3>2. QED  BY <2>3, <2>4, <3>1 DEF ReadMore
  <2>6. /\ addrb' = IF ReadMore THEN ReadFrom ELSE addrb
        /\ outAddr' = IF ReadMore THEN (ReadFrom + 1) % CbufSize ELSE ReadFrom
        /\ memState' = IF ReadMore
                       THEN IF memState \in {"IDLE", "NO_PIPE"} THEN "START" ELSE "PIPE"
                       ELSE IF memState \in {"START", "PIPE"} THEN "NO_PIPE" ELSE "IDLE"
    BY <1>1 DEF Readout
  <2>7. Run(r, e) \in Seq(Int)
    BY <2>3, RunInts
  <2>8. memState \in {"PIPE", "NO_PIPE"} => owed # <<>> /\ doutb = Head(owed)
    <3>1. CASE memState = "PIPE"
      <4>1. owed = <<doutb, q>> \o Run(r, e)
        BY <2>2, <3>1 DEF Moving
      <4>2. QED  BY ONLY <1>2, <2>7, <4>1, Joining
    <3>2. CASE memState = "NO_PIPE"
      <4>1. owed = <<doutb>> \o Run(r, e)
        BY <2>2, <3>2 DEF Moving
      <4>2. QED  BY ONLY <1>2, <2>7, <4>1, Joining
    <3>3. QED  BY <3>1, <3>2
  <2>9. CASE r < e
    <3> DEFINE p == r + 1
               s == Run(p, e)
    <3>1. p \in Int /\ p <= e
      BY <2>9
    <3>2. s \in Seq(Int) /\ Run(r, e) = <<r>> \o s
      <4>1. Run(r, e) = <<r>> \o Run(r + 1, e)
        BY <2>9, RunFirst
      <4> HIDE DEF p
      <4>2. s \in Seq(Int)
        BY <3>1, RunInts
      <4>3. QED  BY <4>1, <4>2 DEF p
    <3>3. addrb' = At(r) /\ outAddr' = At(p)
      BY <2>4, <2>5, <2>6, <2>9, AtIs
    <3>4. cbuf'[addrb'] = r
      <4>1. Stored(cbuf, IF available THEN n - 1 ELSE n)
        BY <1>1 DEF Memory, Written
      <4>2. e < n /\ n - r <= CbufSize
        BY <1>1, <2>2, <2>9 DEF Span
      <4>3. cbuf[At(r)] = r
        <5>1. CASE available
          <6>1. Stored(cbuf, n - 1)
            BY <4>1, <5>1
          <6>2. n - 1 - CbufSize <= r /\ r < n - 1
            BY <1>1, <2>3, <2>9, <4>2
          <6>3. QED  BY <6>1, <6>2 DEF Stored
        <5>2. CASE ~ available
          <6>1. Stored(cbuf, n)
            BY <4>1, <5>2
          <6>2. n - CbufSize <= r /\ r < n
            BY <1>1, <2>3, <2>9, <4>2
          <6>3. QED  BY <6>1, <6>2 DEF Stored
        <5>3. QED  BY <5>1, <5>2
      <4>4. QED  BY <1>1, <3>3, <4>3
    <3>5. Span(p, e)'
      BY <1>1, <2>2, <2>3, <2>4, <2>9, <3>1, <3>3 DEF Span
    <3>6. InTime(p, e)'
      <4>1. \A x \in Int : InTime(IF r < e THEN r + 1 ELSE r, x)' => (r < e => InTime(p, x)')
        OBVIOUS
      <4>2. InTime(IF r < e THEN r + 1 ELSE r, e)'
        BY <2>2, <2>3, FallInTime
      <4>3. QED  BY <2>9, <4>1, <4>2
    <3> HIDE DEF p, s
    <3>7. Flight' = Moving(q, r)'
      BY <1>1, <3>4 DEF Flight, Moving
    <3>8. owed' = Moving(q, r)' \o s
      <4>1. CASE memState = "IDLE"
        <5>1. memState' = "START" /\ owed' = owed /\ owed = <<>> \o (<<r>> \o s)
          BY <1>7, <2>2, <2>5, <2>6, <2>9, <3>2, <4>1 DEF Moving
        <5>2. <<r>> \o s \in Seq(Int)
          BY <2>7, <3>2
        <5>3. <<>> \o (<<r>> \o s) = <<r>> \o s
          BY <5>2, Joining
        <5>4. Moving(q, r)' = <<r>>
          BY <5>1 DEF Moving
        <5>5. QED  BY <5>1, <5>3, <5>4
      <4>2. CASE memState = "START"
        <5>1. memState' = "PIPE" /\ owed' = owed /\ owed = <<q>> \o (<<r>> \o s)
          BY <1>7, <2>2, <2>5, <2>6, <2>9, <3>2, <4>2 DEF Moving
        <5>2. Moving(q, r)' = <<q, r>>
          BY <1>1, <5>1 DEF Moving
        <5>3. <<q>> \o (<<r>> \o s) = <<q, r>> \o s
          BY ONLY <1>2, <3>2, JoinTwo
        <5>4. QED  BY <5>1, <5>2, <5>3
      <4>3. CASE memState = "PIPE"
        <5>1. memState' = "PIPE" /\ owed' = Tail(owed) /\ owed = <<doutb, q>> \o (<<r>> \o s)
          BY <1>7, <2>2, <2>5, <2>6, <2>8, <2>9, <3>2, <4>3 DEF Moving
        <5>2. Moving(q, r)' = <<q, r>>
          BY <1>1, <5>1 DEF Moving
        <5>3. <<r>> \o s \in Seq(Int)
          BY <2>7, <3>2
        <5>4. owed' = <<q>> \o (<<r>> \o s)
          <6>1. owed' = Tail(<<doutb, q>> \o (<<r>> \o s))
            BY ONLY <5>1
          <6>2. Tail(<<doutb, q>> \o (<<r>> \o s)) = <<q>> \o (<<r>> \o s)
            BY ONLY <1>2, <5>3, JoinTwo
          <6>3. QED  BY ONLY <6>1, <6>2
        <5>5. <<q>> \o (<<r>> \o s) = <<q, r>> \o s
          BY ONLY <1>2, <3>2, JoinTwo
        <5>6. QED  BY <5>2, <5>4, <5>5
      <4>4. CASE memState = "NO_PIPE"
        <5>1. memState' = "START" /\ owed' = Tail(owed) /\ owed = <<doutb>> \o (<<r>> \o s)
          BY <1>7, <2>2, <2>5, <2>6, <2>8, <2>9, <3>2, <4>4 DEF Moving
        <5>2. Moving(q, r)' = <<r>>
          BY <5>1 DEF Moving
        <5>3. <<r>> \o s \in Seq(Int)
          BY <2>7, <3>2
        <5>4. owed' = <<r>> \o s
          BY <1>2, <5>1, <5>3, Joining
        <5>5. QED  BY <5>2, <5>4
      <4>5. QED  BY <1>2, <4>1, <4>2, <4>3, <4>4
    <3>9. Reading(p, e)'
      BY <3>5, <3>6, <3>7, <3>8 DEF Reading, s
    <3>10. QED  BY <2>8, <3>1, <3>9
  <2>10. CASE ~ (r < e)
    <3>1. r = e /\ ~ ReadMore
      BY <2>3, <2>5, <2>10
    <3>2. Run(r, e) = <<>>
      BY <3>1, RunNone
    <3>3. outAddr' = At(r)
      BY <2>4, <2>6, <3>1
    <3>4. Span(r, e)'
      BY <1>1, <2>2, <2>3, <2>4, <3>1, <3>3 DEF Span
    <3>5. InTime(r, e)'
      <4>1. \A x \in Int : InTime(IF r < e THEN r + 1 ELSE r, x)' => (~ (r < e) => InTime(r, x)')
        OBVIOUS
      <4>2. InTime(IF r < e THEN r + 1 ELSE r, e)'
        BY <2>2, <2>3, FallInTime
      <4>3. QED  BY <2>10, <4>1, <4>2
    <3>6. owed = Moving(doutb, q)
      <4>1. Moving(doutb, q) \in Seq(Int)
        BY <1>2 DEF Moving
      <4>2. QED  BY <2>2, <3>2, <4>1, ConcatEmptySeq
    <3>7. owed' = Flight' \o <<>>
      <4>1. CASE memState = "IDLE" \/ memState = "NO_PIPE"
        <5>1. memState' = "IDLE" /\ Flight' = <<>>
          BY <1>1, <2>6, <3>1, <4>1 DEF Flight, Moving
        <5>2. owed' = <<>>
          <6>1. Tail(<<doutb>>) = <<>>
            BY <1>2
          <6>2. QED  BY <1>7, <2>8, <3>6, <4>1, <6>1 DEF Moving
        <5>3. <<>> = <<>> \o <<>>
          OBVIOUS
        <5>4. QED  BY <5>1, <5>2, <5>3
      <4>2. CASE memState = "START" \/ memState = "PIPE"
        <5>1. memState' = "NO_PIPE" /\ Flight' = <<q>>
          BY <1>1, <2>6, <3>1, <4>2 DEF Flight, Moving
        <5>2. owed' = <<q>>
          <6>1. Tail(<<doutb, q>>) = <<q>>
            BY <1>2
          <6>2. QED  BY <1>7, <2>8, <3>6, <4>2, <6>1 DEF Moving
        <5>3. <<q>> = <<q>> \o <<>>
          BY <1>2
        <5>4. QED  BY <5>1, <5>2, <5>3
      <4>3. QED  BY <1>2, <4>1, <4>2
    <3>8. Reading(r, e)'
      BY <3>2, <3>4, <3>5, <3>7 DEF Reading
    <3>9. QED  BY <2>8, <3>8
  <2>11. QED  BY <2>9, <2>10
<1>12. Read'
  BY <1>1, <1>8, <1>9, <1>10, <1>11 DEF Read
<1>13. QED  BY <1>6, <1>11, <1>12

LEMMA ReadRise ==
  ASSUME Signals, Counting, Memory, Read, FrameRise
  PROVE  Read'
<1>1. /\ edge = "rise" /\ edge' = "fall" /\ n \in Nat /\ first \in Nat /\ cfg' = cfg /\ HandleState
      /\ n' = (IF Valid THEN n + 1 ELSE n)
      /\ UNCHANGED <<outAddr, memState>>
      /\ truncated' = (truncated \/ (Validated /\ outAddr # inAddr))
      /\ cut' = (cut \/ (state = "POST" /\ state' = "IDLE"))
      /\ owed' = IF Validated
                 THEN owed \o [k \in 1 .. n - 1 - first + cfg.pre |-> first - cfg.pre + k]
                 ELSE IF Recorded THEN Append(owed, n - 1) ELSE owed
  BY InputsNext DEF FrameRise, Rise, Signals
<1>2. /\ currIn = At(n) /\ doutb' = q /\ (memState \in {"START", "PIPE"} => q' = cbuf[addrb])
      /\ q \in Int /\ memState \in {"IDLE", "START", "PIPE", "NO_PIPE"} /\ cbuf \in [Addresses -> Int]
      /\ (memState \in {"START", "PIPE"} => addrb \in Addresses)
      /\ outAddr \in Addresses /\ inAddr \in Addresses /\ CbufSize \in Nat \ {0, 1}
  BY MemoryRise, TrarecAssumption DEF Memory, Ports
<1>3. Flight' = Flight /\ Flight \in Seq(Int)
  <2>1. Flight = Moving(q, cbuf[addrb]) /\ Flight' = Moving(doutb, q)'
    BY <1>1 DEF Flight
  <2>2. Moving(doutb, q)' = Moving(q, cbuf[addrb])
    BY <1>1, <1>2 DEF Moving
  <2>3. Moving(q, cbuf[addrb]) \in Seq(Int)
    <3>1. memState \in {"START", "PIPE"} => cbuf[addrb] \in Int
      BY <1>2
    <3>2. QED  BY <1>2, <3>1 DEF Moving
  <2>4. QED  BY <2>1, <2>2, <2>3
<1>4. Validated <=> FsmValidate
  BY <1>1 DEF HandleState, Validated, FsmIdle, FsmStop, FsmArmed, FsmRunning, FsmCheck, FsmValidate, FsmPost
<1>5. Quick' => Quick
  BY <1>1 DEF Quick
<1>6. CASE FsmValidate
  <2> DEFINE h == cfg.pre + cfg.trig
  <2>1. /\ n = first + 1 + cfg.trig /\ Valid /\ n' = n + 1
        /\ \A s, e \in Int : Quick /\ InTime(s, e) => e <= s
        /\ \A s, e \in Int : e - s = h => InTime(s, e)'
    BY <1>6, ValidateInTime
  <2>2. cfg.pre \in Nat /\ cfg.trig \in Nat /\ h \in 0 .. CbufSize - 1
    BY <1>2, ConfigIs DEF Signals
  <2>3. PICK x \in Int : x = n
    BY <1>1
  <2>4. PICK r \in Int : r = x - h
    BY <2>2
  <2>5. /\ state = "CHECK" /\ state' = "POST" /\ inAddr' = currIn
        /\ startOut' = LET a == currIn - cfg.pre - cfg.trig IN IF a < 0 THEN a + CbufSize ELSE a
    BY <1>6 DEF FsmValidate
  <2>6. startOut' = At(r)
    <3>1. At(x) \in Int
      BY AtIs
    <3>2. startOut' = IF At(x) - h < 0 THEN At(x) - h + CbufSize ELSE At(x) - h
      BY <1>2, <2>2, <2>3, <2>5, <3>1
    <3>3. (IF At(x) - h < 0 THEN At(x) - h + CbufSize ELSE At(x) - h) = At(x - h)
      <4> HIDE DEF h
      <4>1. QED  BY <2>2, Back
    <3>4. QED  BY <2>4, <3>2, <3>3
  <2>7. At(r) # None
    BY AtIs, NoneIsNo
  <2>8. ~ cfg.continuous
    BY <2>5 DEF Counting
  <2>9. ASSUME ~ truncated, outAddr = inAddr
        PROVE  Reading(r, x)'
    <3>2. PICK s \in Int, e \in Int : Reading(s, e)
      BY <2>9 DEF Read
    <3>3. s = e
      <4>1. At(s) = At(e) /\ s <= e /\ e - s < CbufSize
        BY <1>1, <2>9, <3>2 DEF Reading, Span
      <4>2. QED  BY <4>1, Places
    <3>4. owed = Flight
      <4>1. owed = Flight \o <<>>
        BY <3>2, <3>3, RunNone DEF Reading
      <4>2. QED  BY <1>3, <4>1, ConcatEmptySeq
    <3>5. owed' = Flight' \o Run(r, x)
      <4>1. [k \in 1 .. n - 1 - first + cfg.pre |-> first - cfg.pre + k] = Run(x - h, x)
        <5> DEFINE b == cfg.pre
                   g == cfg.trig
        <5>1. b \in Nat /\ g \in Nat /\ x = first + 1 + g /\ first \in Int
          BY <1>1, <2>1, <2>2, <2>3
        <5> HIDE DEF b, g
        <5>2. [k \in 1 .. x - 1 - first + b |-> first - b + k] = Run(x - (b + g), x)
          <6>1. 1 .. x - 1 - first + b = 1 .. x - (x - (b + g))
            BY <5>1
          <6>2. \A k \in 1 .. x - 1 - first + b : first - b + k = x - (b + g) + k - 1
            BY <5>1
          <6>3. QED  BY <6>1, <6>2 DEF Run
        <5>3. QED  BY <2>3, <5>2 DEF b, g
      <4>2. QED  BY <1>1, <1>3, <1>4, <1>6, <2>4, <3>4, <4>1
    <3>6. InTime(r, x)'
      <4>1. x - r = h
        BY <2>2, <2>4
      <4>2. QED  BY <2>1, <4>1
    <3>7. ReadFrom' = At(r)
      BY <2>6, <2>7 DEF ReadFrom
    <3>8. Span(r, x)'
      <4> HIDE DEF h
      <4>1. r <= x /\ x <= n' /\ x - r < CbufSize /\ x = n' - 1 /\ x < n' /\ n' - r <= CbufSize
        <5>1. PICK k : k = n'
          OBVIOUS
        <5>2. k = x + 1 /\ x \in Int /\ h \in 0 .. CbufSize - 1 /\ r = x - h /\ CbufSize \in Nat
          BY <1>2, <2>1, <2>2, <2>3, <2>4, <5>1
        <5>3. r <= x /\ x <= k /\ x - r < CbufSize /\ x = k - 1 /\ x < k /\ k - r <= CbufSize
          BY ONLY <5>2
        <5>4. QED  BY ONLY <5>1, <5>3
      <4>2. At(x) = inAddr' /\ edge' = "fall"
        BY <1>1, <1>2, <2>3, <2>5
      <4>3. QED  BY <3>7, <4>1, <4>2 DEF Span
    <3>9. QED  BY <3>5, <3>6, <3>8 DEF Reading
  <2>10. Quick /\ ~ truncated => outAddr = inAddr
    <3> SUFFICES ASSUME Quick, ~ truncated PROVE outAddr = inAddr
      OBVIOUS
    <3>1. PICK s \in Int, e \in Int : Reading(s, e)
      BY DEF Read
    <3>2. e <= s
      BY <2>1, <3>1 DEF Reading
    <3>3. e = s
      BY <3>1, <3>2 DEF Reading, Span
    <3>4. QED  BY <1>1, <3>1, <3>3 DEF Reading, Span
  <2>11. truncated' = (truncated \/ outAddr # inAddr)
    BY <1>1, <1>4, <1>6
  <2>12. Quick' => ~ truncated'
    BY <1>5, <2>10, <2>11 DEF Read
  <2>13. ~ truncated' => \E s, e \in Int : Reading(s, e)'
    BY <2>9, <2>11
  <2>14. QED  BY <1>1, <2>5, <2>8, <2>12, <2>13 DEF Read
<1>7. CASE ~ FsmValidate
  <2>1. inAddr' = IF Recorded THEN At(n) ELSE inAddr
    BY <1>1, <1>2, <1>7 DEF HandleState, FsmIdle, FsmStop, FsmArmed, FsmRunning, FsmCheck, FsmPost, Recorded
  <2>2. startOut' = None
    <3>1. state # "POST" => startOut = None
      BY DEF Read
    <3>2. QED
      BY <1>1, <1>7, <3>1 DEF HandleState, FsmIdle, FsmStop, FsmArmed, FsmRunning, FsmCheck, FsmPost
  <2>3. state' = "POST" => state = "POST" /\ cmd # "stop"
    BY <1>1, <1>7 DEF HandleState, FsmIdle, FsmStop, FsmArmed, FsmRunning, FsmCheck, FsmPost
  <2>4. (truncated' <=> truncated) /\ owed' = IF Recorded THEN Append(owed, n - 1) ELSE owed
    <3>1. truncated' = (truncated \/ (Validated /\ outAddr # inAddr))
      BY <1>1
    <3>2. truncated' <=> truncated
      BY <1>4, <1>7, <3>1, Zenon
    <3>3. QED  BY <1>1, <1>4, <1>7, <3>2
  <2>5. ReadFrom' = outAddr
    BY <1>1, <2>2 DEF ReadFrom
  <2>6. ASSUME ~ truncated
        PROVE  \E s, e \in Int : Reading(s, e)'
    <3>1. PICK r \in Int, e \in Int : Reading(r, e)
      BY <2>6 DEF Read
    <3>2. Span(r, e) /\ InTime(r, e) /\ owed = Flight \o Run(r, e)
      BY <3>1 DEF Reading
    <3>3. /\ r <= e /\ e <= n /\ e - r < CbufSize /\ At(r) = outAddr /\ At(e) = inAddr
          /\ state = "POST" => e = n - 1
          /\ r < e => e < n /\ n - r <= CbufSize - 1
      BY <1>1, <3>2 DEF Span
    <3>4. Run(r, e) \in Seq(Int)
      BY <3>3, RunInts
    <3>5. PICK f \in Int : f = IF Recorded THEN e + 1 ELSE e
      OBVIOUS
    <3>6. InTime(r, f)'
      BY <1>7, <3>2, <3>5, RiseInTime
    <3>7. CASE Recorded
      <4>1. state = "POST" /\ Valid
        BY <3>7 DEF Recorded
      <4>2. f = n /\ e = n - 1 /\ n' = n + 1
        BY <1>1, <3>3, <3>5, <3>7, <4>1
      <4>3. Span(r, f)'
        BY <1>1, <1>2, <2>1, <2>5, <3>3, <3>7, <4>2 DEF Span
      <4>4. owed' = Flight' \o Run(r, f)
        <5>1. Append(Run(r, e), e) = Run(r, e + 1)
          BY <3>3, RunLast
        <5>2. Append(Flight \o Run(r, e), e) = Flight \o Append(Run(r, e), e)
          BY <1>3, <3>4, AppendJoin
        <5>3. QED  BY <1>3, <2>4, <3>2, <3>5, <3>7, <4>2, <5>1, <5>2
      <4>5. QED  BY <3>6, <4>3, <4>4 DEF Reading
    <3>8. CASE ~ Recorded
      <4>1. f = e /\ owed' = Flight' \o Run(r, f)
        BY <1>3, <2>4, <3>2, <3>5, <3>8
      <4>2. state' = "POST" => ~ Valid
        BY <2>3, <3>8 DEF Recorded
      <4>3. Span(r, f)'
        BY <1>1, <1>2, <2>1, <2>3, <2>5, <3>3, <3>8, <4>1, <4>2 DEF Span
      <4>4. QED  BY <3>6, <4>1, <4>3 DEF Reading
    <3>9. QED  BY <3>7, <3>8
  <2>7. cfg.continuous => memState' = "IDLE" /\ owed' = <<>> /\ startOut' = None /\ outAddr' = inAddr'
    <3>1. cfg.continuous => ~ Recorded
      BY DEF Counting, Recorded
    <3>2. QED  BY <1>1, <2>1, <2>2, <2>4, <3>1 DEF Read
  <2>8. Quick' => ~ truncated'
    BY <1>5, <2>4 DEF Read
  <2>9. QED  BY <1>1, <2>2, <2>4, <2>6, <2>7, <2>8 DEF Read
<1>8. QED  BY <1>6, <1>7

LEMMA ReadStart ==
  ASSUME FrameInit
  PROVE  Read
<1>1. /\ edge = "rise" /\ n = 0 /\ inAddr = 0 /\ outAddr = 0 /\ startOut = None /\ memState = "IDLE"
      /\ owed = <<>> /\ state = "IDLE" /\ gap = 1 /\ truncated = FALSE /\ CbufSize \in Nat \ {0, 1}
  BY TrarecAssumption DEF FrameInit, Init
<1>2. At(0) = 0
  <2> DEFINE c == CbufSize
  <2>1. 0 \in 0 .. c - 1 /\ 0 = c * 0 + 0 /\ 0 \in Int /\ c \in Nat \ {0}
    BY <1>1
  <2> HIDE DEF c
  <2>2. 0 % c = 0
    BY <2>1, ModIs
  <2>3. QED  BY <2>2 DEF At, c
<1>3. Span(0, 0)
  BY <1>1, <1>2 DEF Span
<1>4. owed = Flight \o Run(0, 0)
  <2>1. Run(0, 0) = <<>>
    BY RunNone
  <2>2. Flight = <<>>
    BY <1>1 DEF Flight, Moving
  <2>3. <<>> = <<>> \o <<>>
    OBVIOUS
  <2>4. QED  BY <1>1, <2>1, <2>2, <2>3
<1>5. InTime(0, 0)
  <2> DEFINE d == cfg.dec
             u == Until(cfg, state, currCount)
             k == u - 1
  <2>1. d \in Nat \ {0} /\ u \in Nat \ {0}
    <3>1. Signals /\ Counting
      BY SignalsStart DEF FrameInit, Init, Counting
    <3>2. QED  BY <3>1, UntilIs
  <2>2. Coming(cfg, state, currCount) = 0
    BY <1>1 DEF Coming
  <2>3. Clocks(cfg, "rise", 1, u) = 0 + d - 1 + d * k
    BY DEF Clocks
  <2> HIDE DEF d, u
  <2>4. k \in Nat
    BY <2>1
  <2> HIDE DEF k
  <2>5. d * k \in Nat
    BY <2>1, <2>4, Product
  <2>6. 0 - 0 + 0 <= Clocks(cfg, "rise", 1, u)
    BY <2>1, <2>3, <2>5
  <2>7. QED  BY <1>1, <2>2, <2>6 DEF InTime, u
<1>6. Reading(0, 0)
  BY <1>3, <1>4, <1>5 DEF Reading
<1>7. QED  BY <1>1, <1>6 DEF Read

(* The read side of the recorder.                                          *)
Sound == Signals /\ Counting /\ Memory /\ Read

LEMMA SoundStart == FrameInit => Sound
  BY SignalsStart, MemoryStart, ReadStart DEF FrameInit, Init, Counting, Sound

LEMMA SoundNext == Sound /\ [FrameNext]_frameVars => Sound'
<1> SUFFICES ASSUME Sound, [FrameNext]_frameVars PROVE Sound'
  OBVIOUS
<1>1. Signals' /\ Counting' /\ Memory'
  BY SignalsNext, CountingNext, MemoryNext DEF Sound
<1>2. Read'
  <2>1. CASE UNCHANGED frameVars
    <3>1. UNCHANGED <<edge, cfg, gap, n, state, currCount, startOut, inAddr, outAddr, memState,
                      addrb, cbuf, q, doutb, owed, truncated, cut>>
      BY <2>1 DEF frameVars, vars, history, inVars, fsmVars, bufVars, ramVars
    <3>2. \A r, e \in Int : Reading(r, e) => Reading(r, e)'
      BY <3>1 DEF Reading, Span, InTime, Quick, Flight, Moving, ReadFrom
    <3>3. QED  BY <3>1, <3>2 DEF Sound, Read, Quick
  <2>2. QED  BY <2>1, ReadFall, ReadRise DEF FrameNext, Sound
<1>3. QED  BY <1>1, <1>2 DEF Sound

(* Each word the read pipeline puts out is the next sample the frames owe  *)
(* (handle_cbuf's Readout over a memory that goes on being written).       *)
THEOREM FramesAreTrue == FrameSpec => FrameContents
<1>1. Sound /\ [FrameNext]_frameVars
        => [edge = "fall" /\ ~ Streaming /\ m' # None /\ ~ truncated
              => owed # <<>> /\ m' = Head(owed)]_frameVars
  <2> SUFFICES ASSUME Sound, FrameFall, ~ Streaming, m' # None, ~ truncated
               PROVE  owed # <<>> /\ m' = Head(owed)
    BY DEF FrameNext, FrameRise, Rise
  <2>1. QED  BY ReadFall DEF Sound
<1>2. QED  BY <1>1, SoundStart, SoundNext, PTL DEF FrameSpec, FrameContents

(* When the readout has come to rest, every sample of the frames is out.   *)
THEOREM FramesAreWhole == FrameSpec => []FrameComplete
<1>1. Sound => FrameComplete
  <2> SUFFICES ASSUME Sound, edge = "rise", memState = "IDLE", outAddr = inAddr, ~ truncated
               PROVE  owed = <<>>
    BY DEF FrameComplete
  <2>1. PICK r \in Int, e \in Int : Reading(r, e)
    BY DEF Sound, Read
  <2>2. r <= e /\ e - r < CbufSize /\ At(r) = At(e) /\ owed = Flight \o Run(r, e)
    BY <2>1 DEF Reading, Span
  <2>3. r = e
    BY <2>2, Places
  <2>4. Run(r, e) = <<>>
    BY <2>3, RunNone
  <2>5. Flight = <<>>
    BY DEF Flight, Moving
  <2>6. <<>> \o <<>> = <<>>
    OBVIOUS
  <2>7. QED  BY <2>2, <2>4, <2>5, <2>6
<1>2. QED  BY <1>1, SoundStart, SoundNext, PTL DEF FrameSpec

(* A trigger is validated after the frame before it has been read, if the  *)
(* decimation leaves a clock to read each sample before the trigger.       *)
THEOREM NoFrameIsCut == FrameSpec => []NoTruncation
<1>1. Sound => NoTruncation
  BY DEF Sound, Read, Quick, Record, NoTruncation
<1>2. QED  BY <1>1, SoundStart, SoundNext, PTL DEF FrameSpec
=============================================================================
