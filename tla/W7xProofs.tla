------------------------------ MODULE W7xProofs ------------------------------
(***************************************************************************)
(* The pulse generator for any programs, any memory of times and any time: *)
(* a half-written program does not start after a delay, one call of trig   *)
(* is one shot, and the ticks of an accepted program are the schedule's.   *)
(*                                                                         *)
(* First the registers: what the stores a call has yet to do say of the    *)
(* program (Registers). Then the state machine: the counters say which     *)
(* cycle of the program it is in, and how far it is in it (Shots).         *)
(***************************************************************************)
EXTENDS W7xSchedule, TLAPS, WellFoundedInduction

States  == {"IDLE", "ARMED", "WAITING_DELAY", "WAITING_SAMPLE", "WAITING_HIGH",
            "WAITING_LOW", "WAITING_REPEAT"}
Signals == [state : States, error : {"NONE"} \cup States, sample_count : Nat,
            repeat_count : Nat, burst_count : Nat, period_ticks : Nat, cycle_ticks : Nat]
Flags   == [init : {0, 1}, trig : {0, 1}, clear : {0, 1}, reinit : {0, 1}]
Bits    == {"init", "trig", "clear", "reinit", "save", "idle"}
Body    == Heads \cup {"times"}
Stores  == [reg : Heads, val : Nat] \cup [reg : {"times"}, val : Seq(Nat)]
             \cup [reg : Bits, val : {0, 1}]

Typed ==
  /\ head \in [Heads -> Nat] /\ save \in [Heads -> Nat] /\ ctrl \in Flags
  /\ times \in [0 .. MaxSamples - 1 -> Nat] /\ todo \in Seq(Stores) /\ sample \in Nat
  /\ fsm \in Signals /\ elapsed \in Nat /\ excused \in BOOLEAN /\ asked \in BOOLEAN
  /\ program \in {"whole", "part", "mixed"}
  /\ head.count <= MaxSamples /\ save.count <= MaxSamples

(* What a program owes to the state machine.                               *)
Train(h) == h.burst * h.period
Valid(h, t) ==
  /\ h.count \in 1 .. MaxSamples /\ h.period >= 2 /\ h.width < h.period
  /\ h.cycle <= MaxTime /\ h.cycle >= t[h.count - 1] + Train(h)
  /\ \A i \in 1 .. h.count - 1 : t[i] >= t[i - 1] + Train(h)

-----------------------------------------------------------------------------
(* The stores a call has yet to do                                         *)

Items(td)      == {td[i] : i \in 1 .. Len(td)}
Pending(td, r) == \E w \in Items(td) : w.reg = r

(* They are those of one program p with times ts: the count is taken away  *)
(* first and given last.                                                   *)
Right(td, p, ts) ==
  \A i \in 1 .. Len(td) :
    /\ td[i].reg \in Params => td[i].val = p[td[i].reg]
    /\ td[i].reg = "times" => td[i].val = ts
    /\ td[i].reg = "count" => td[i].val \in {0, p.count}
Closed(td, p) ==
  \A i \in 1 .. Len(td) :
    td[i].reg \in Params \cup {"times"} \/ td[i] = To("count", 0) => To("count", p.count) \in Items(td)
Complete(td) ==
  To("count", 0) \in Items(td) => \A f \in Params \cup {"times"} : Pending(td, f)
Last(td) ==
  \A i, j \in 1 .. Len(td) :
    i < j /\ td[i].reg = "count" /\ td[i].val # 0 => td[j].reg \notin Body
First(td) ==
  \A i, j \in 1 .. Len(td) : i < j /\ td[j] = To("count", 0) => td[i].reg \notin Body

Good(p, ts) ==
  /\ p \in [Heads -> Nat] /\ ts \in Seq(Nat)
  /\ Len(ts) = p.count /\ Accepted(p, ts)
Queue(td, p, ts) ==
  Good(p, ts) /\ Right(td, p, ts) /\ Closed(td, p) /\ Complete(td) /\ Last(td) /\ First(td)

(* How far it has come.                                                    *)
Progress(p, ts) ==
  /\ program = "part" =>
       /\ head.count = 0 /\ To("count", 0) \notin Items(todo)
       /\ To("count", p.count) \in Items(todo)
       /\ \A f \in Params : head[f] = p[f] \/ Pending(todo, f)
       /\ (\A i \in 0 .. p.count - 1 : times[i] = ts[i + 1]) \/ Pending(todo, "times")
       /\ ~(fsm.state = "ARMED" /\ ctrl.reinit = 1)
  /\ program = "whole" =>
       /\ (\E w \in Items(todo) : w.reg \in Body) => To("count", 0) \in Items(todo)
       /\ Sound(head) => Valid(head, times)
Written == \E p, ts : Queue(todo, p, ts) /\ Progress(p, ts)

(* reinit waits for the generator to be idle, writes a program without     *)
(* repetitions, saves it, and only then lets the generator go on.          *)
Resets(w) == w.reg = "save" \/ w = To("reinit", 1)
Waits(td, init) ==
  \A i \in 1 .. Len(td) :
    td[i].reg = "idle" => (i = 1 /\ init = 0) \/ (i = 2 /\ td[1] = To("init", 0))
Holds(td) ==
  \A i, j \in 1 .. Len(td) :
    i < j /\ Resets(td[j]) /\ td[i].reg = "init"
      => \E m \in 1 .. Len(td) : i < m /\ td[m].reg = "idle"
Empties(td) ==
  \A i, j \in 1 .. Len(td) :
    /\ td[j].reg = "save" /\ td[i].reg = "repeat" => td[i].val = 0
    /\ i < j /\ td[i].reg = "save" => td[j].reg # "repeat"

Still ==
  (\E w \in Items(todo) : Resets(w)) /\ ~Pending(todo, "idle") => fsm.state = "IDLE" /\ ctrl.init = 0
Saved ==
  /\ save.repeat = 0
  /\ Pending(todo, "save") => Pending(todo, "repeat") \/ head.repeat = 0
  /\ fsm.state = "ARMED" /\ ctrl.reinit = 1 => head = save
Asked == ctrl.trig = 1 => asked

Registers ==
  /\ Written /\ Waits(todo, ctrl.init) /\ Holds(todo) /\ Empties(todo) /\ Still /\ Saved /\ Asked

-----------------------------------------------------------------------------
LEMMA Names ==
  /\ Heads = {"delay", "width", "period", "burst", "cycle", "repeat", "count"}
  /\ Body = {"delay", "width", "period", "burst", "cycle", "repeat", "count", "times"}
  BY DEF Heads, Params, Body

LEMMA MulComm == \A a, b \in Nat : a * b = b * a
  OBVIOUS

LEMMA HeadFields ==
  ASSUME NEW h \in [Heads -> Nat]
  PROVE  /\ h.delay \in Nat /\ h.width \in Nat /\ h.period \in Nat /\ h.burst \in Nat
         /\ h.cycle \in Nat /\ h.repeat \in Nat /\ h.count \in Nat
  BY Names

LEMMA StoreFields ==
  ASSUME NEW w \in Stores
  PROVE  /\ w.reg \in Body \cup Bits
         /\ w.reg \in Heads => w.val \in Nat
         /\ w.reg = "times" => w.val \in Seq(Nat)
         /\ w.reg \in Bits => w.val \in {0, 1}
         /\ w = To(w.reg, w.val)
<1>1. CASE w \in [reg : Heads, val : Nat]
  BY <1>1 DEF Heads, Params, Body, Bits, To
<1>2. CASE w \in [reg : {"times"}, val : Seq(Nat)]
  BY <1>2 DEF Heads, Params, Body, Bits, To
<1>3. CASE w \in [reg : Bits, val : {0, 1}]
  BY <1>3 DEF Heads, Params, Body, Bits, To
<1> QED
  BY <1>1, <1>2, <1>3 DEF Stores

LEMMA ToFields ==
  \A r, v : To(r, v).reg = r /\ To(r, v).val = v
  BY DEF To

(* The first store done, the others are left, each one place further.      *)
LEMMA TailItems ==
  ASSUME NEW td \in Seq(Stores), td # <<>>
  PROVE  /\ Head(td) \in Stores /\ Head(td) = td[1] /\ 1 \in 1 .. Len(td)
         /\ Tail(td) \in Seq(Stores) /\ Len(Tail(td)) = Len(td) - 1 /\ Len(td) \in Nat \ {0}
         /\ \A i \in 1 .. Len(Tail(td)) : Tail(td)[i] = td[i + 1] /\ i + 1 \in 1 .. Len(td)
         /\ \A i \in 1 .. Len(td) : i # 1 => i - 1 \in 1 .. Len(Tail(td)) /\ Tail(td)[i - 1] = td[i]
         /\ Items(td) = {td[1]} \cup Items(Tail(td))
         /\ \A i \in 1 .. Len(td) : td[i] \in Stores
<1>1. /\ Head(td) \in Stores /\ Head(td) = td[1] /\ 1 \in 1 .. Len(td)
      /\ Tail(td) \in Seq(Stores) /\ Len(Tail(td)) = Len(td) - 1 /\ Len(td) \in Nat \ {0}
      /\ \A i \in 1 .. Len(Tail(td)) : Tail(td)[i] = td[i + 1] /\ i + 1 \in 1 .. Len(td)
      /\ \A i \in 1 .. Len(td) : td[i] \in Stores
  OBVIOUS
<1>2. ASSUME NEW i \in 1 .. Len(td), i # 1
      PROVE  i - 1 \in 1 .. Len(Tail(td)) /\ Tail(td)[i - 1] = td[i]
  BY <1>1, <1>2
<1>3. ASSUME NEW w \in Items(td) PROVE w \in {td[1]} \cup Items(Tail(td))
  <2>1. PICK i \in 1 .. Len(td) : w = td[i]
    BY DEF Items
  <2>2. CASE i = 1
    BY <2>1, <2>2
  <2>3. CASE i # 1
    BY <2>1, <2>3, <1>2 DEF Items
  <2> QED
    BY <2>2, <2>3
<1>4. ASSUME NEW w \in {td[1]} \cup Items(Tail(td)) PROVE w \in Items(td)
  <2>1. CASE w = td[1]
    BY <2>1, <1>1 DEF Items
  <2>2. CASE w \in Items(Tail(td))
    BY <2>2, <1>1 DEF Items
  <2> QED
    BY <2>1, <2>2
<1>5. Items(td) = {td[1]} \cup Items(Tail(td))
  BY <1>3, <1>4
<1> QED
  BY <1>1, <1>2, <1>5

(* What remains of a call is still in order.                               *)
LEMMA TailQueue ==
  ASSUME NEW td \in Seq(Stores), td # <<>>, NEW p, NEW ts, Queue(td, p, ts)
  PROVE  Right(Tail(td), p, ts) /\ Last(Tail(td)) /\ First(Tail(td))
<1>1. Right(Tail(td), p, ts)
  BY TailItems DEF Queue, Right
<1>2. Last(Tail(td))
  BY TailItems DEF Queue, Last
<1>3. First(Tail(td))
  BY TailItems DEF Queue, First
<1> QED
  BY <1>1, <1>2, <1>3

LEMMA TailClosed ==
  ASSUME NEW td \in Seq(Stores), td # <<>>, NEW p, NEW ts, Queue(td, p, ts)
  PROVE  Queue(Tail(td), p, ts)
<1>0. p.count \in Nat \ {0} /\ MaxSamples \in Nat
  BY W7xAssumption, Names DEF Queue, Good, Accepted
<1>1. Closed(Tail(td), p)
  <2> SUFFICES ASSUME NEW i \in 1 .. Len(Tail(td)),
                      Tail(td)[i].reg \in Params \cup {"times"} \/ Tail(td)[i] = To("count", 0)
               PROVE  To("count", p.count) \in Items(Tail(td))
    BY DEF Closed
  <2>1. Tail(td)[i] = td[i + 1] /\ i + 1 \in 1 .. Len(td) /\ i \in Nat \ {0}
    BY TailItems
  <2>2. To("count", p.count) \in Items(td)
    BY <2>1 DEF Queue, Closed
  <2>3. td[i + 1].reg \in Body
    BY <2>1, Names, ToFields DEF Body, Heads
  <2>4. td[1] # To("count", p.count)
    <3>1. ASSUME td[1] = To("count", p.count) PROVE FALSE
      <4>1. td[1].reg = "count" /\ td[1].val # 0 /\ 1 \in 1 .. Len(td)
        BY <3>1, <1>0, ToFields, TailItems
      <4>2. 1 < i + 1
        BY <2>1
      <4> QED
        BY <4>1, <4>2, <2>1, <2>3 DEF Queue, Last
    <3> QED
      BY <3>1
  <2> QED
    BY <2>2, <2>4, TailItems
<1>2. Complete(Tail(td))
  <2> SUFFICES ASSUME To("count", 0) \in Items(Tail(td)), NEW f \in Params \cup {"times"}
               PROVE  Pending(Tail(td), f)
    BY DEF Complete
  <2>1. Pending(td, f)
    BY TailItems DEF Queue, Complete
  <2>2. PICK w \in Items(td) : w.reg = f
    BY <2>1 DEF Pending
  <2>3. PICK j \in 1 .. Len(Tail(td)) : Tail(td)[j] = To("count", 0)
    BY DEF Items
  <2>4. td[j + 1] = To("count", 0) /\ j + 1 \in 1 .. Len(td) /\ 1 < j + 1 /\ 1 \in 1 .. Len(td)
    BY <2>3, TailItems
  <2>5. td[1].reg \notin Body
    BY <2>4 DEF Queue, First
  <2>6. w # td[1]
    BY <2>5, <2>2 DEF Body, Heads
  <2> QED
    BY <2>2, <2>6, TailItems DEF Pending
<1> QED
  BY <1>1, <1>2, TailQueue DEF Queue

(* What a call may follow and what its library writes.                     *)
LEMMA ProgramItems ==
  ASSUME NEW p \in [Heads -> Nat], NEW ts \in Seq(Nat)
  PROVE  /\ Program(p, ts) \in Seq(Stores) /\ Len(Program(p, ts)) = 9
         /\ Program(p, ts)[1] = To("count", 0) /\ Program(p, ts)[2] = To("delay", p.delay)
         /\ Program(p, ts)[3] = To("width", p.width) /\ Program(p, ts)[4] = To("period", p.period)
         /\ Program(p, ts)[5] = To("burst", p.burst) /\ Program(p, ts)[6] = To("cycle", p.cycle)
         /\ Program(p, ts)[7] = To("repeat", p.repeat) /\ Program(p, ts)[8] = To("times", ts)
         /\ Program(p, ts)[9] = To("count", p.count)
<1>1. \A f \in Heads : \A v \in Nat : To(f, v) \in Stores
  BY DEF To, Stores
<1>2. To("times", ts) \in Stores
  BY DEF To, Stores
<1>3. /\ To("count", 0) \in Stores /\ To("delay", p.delay) \in Stores
      /\ To("width", p.width) \in Stores /\ To("period", p.period) \in Stores
      /\ To("burst", p.burst) \in Stores /\ To("cycle", p.cycle) \in Stores
      /\ To("repeat", p.repeat) \in Stores /\ To("count", p.count) \in Stores
  BY <1>1, Names
<1>4. Program(p, ts) \in Seq(Stores)
  BY <1>2, <1>3 DEF Program
<1> QED
  BY <1>4 DEF Program

(* A program among stores of other registers is a queue.                   *)
LEMMA ProgramQueue ==
  ASSUME NEW p, NEW ts, Good(p, ts), NEW td \in Seq(Stores), NEW o \in Nat,
         Len(td) >= o + 9,
         td[o + 1] = To("count", 0), td[o + 2] = To("delay", p.delay),
         td[o + 3] = To("width", p.width), td[o + 4] = To("period", p.period),
         td[o + 5] = To("burst", p.burst), td[o + 6] = To("cycle", p.cycle),
         td[o + 7] = To("repeat", p.repeat), td[o + 8] = To("times", ts),
         td[o + 9] = To("count", p.count),
         \A i \in 1 .. Len(td) : i \notin o + 1 .. o + 9 => td[i].reg \notin Body
  PROVE  /\ Queue(td, p, ts) /\ To("count", 0) \in Items(td)
         /\ \A i \in 1 .. Len(td) : td[i].reg = "repeat" => i = o + 7 /\ td[i].val = p.repeat
<1>1. p \in [Heads -> Nat] /\ ts \in Seq(Nat) /\ p.count \in Nat \ {0}
  BY W7xAssumption, Names DEF Good, Accepted
<1>2. /\ td[o + 1].reg = "count" /\ td[o + 1].val = 0
      /\ td[o + 2].reg = "delay" /\ td[o + 2].val = p.delay
      /\ td[o + 3].reg = "width" /\ td[o + 3].val = p.width
      /\ td[o + 4].reg = "period" /\ td[o + 4].val = p.period
      /\ td[o + 5].reg = "burst" /\ td[o + 5].val = p.burst
      /\ td[o + 6].reg = "cycle" /\ td[o + 6].val = p.cycle
      /\ td[o + 7].reg = "repeat" /\ td[o + 7].val = p.repeat
      /\ td[o + 8].reg = "times" /\ td[o + 8].val = ts
      /\ td[o + 9].reg = "count" /\ td[o + 9].val = p.count
  BY ToFields
<1>3. ASSUME NEW i \in 1 .. Len(td), td[i].reg \in Body
      PROVE  \/ i = o + 1 \/ i = o + 2 \/ i = o + 3 \/ i = o + 4 \/ i = o + 5
             \/ i = o + 6 \/ i = o + 7 \/ i = o + 8 \/ i = o + 9
  <2>1. i \in o + 1 .. o + 9
    BY <1>3
  <2> QED
    BY <2>1
<1>4. Right(td, p, ts)
  <2> SUFFICES ASSUME NEW i \in 1 .. Len(td)
               PROVE  /\ td[i].reg \in Params => td[i].val = p[td[i].reg]
                      /\ td[i].reg = "times" => td[i].val = ts
                      /\ td[i].reg = "count" => td[i].val \in {0, p.count}
    BY DEF Right
  <2>1. CASE td[i].reg \notin Body
    BY <2>1 DEF Body, Heads
  <2>2. CASE td[i].reg \in Body
    BY <2>2, <1>2, <1>3 DEF Params
  <2> QED
    BY <2>1, <2>2
<1>5. /\ td[o + 1] \in Items(td) /\ td[o + 2] \in Items(td) /\ td[o + 3] \in Items(td)
      /\ td[o + 4] \in Items(td) /\ td[o + 5] \in Items(td) /\ td[o + 6] \in Items(td)
      /\ td[o + 7] \in Items(td) /\ td[o + 8] \in Items(td) /\ td[o + 9] \in Items(td)
  <2>1. \A i \in 1 .. Len(td) : td[i] \in Items(td)
    BY DEF Items
  <2>2. Len(td) \in Nat
    OBVIOUS
  <2>3. /\ o + 1 \in 1 .. Len(td) /\ o + 2 \in 1 .. Len(td) /\ o + 3 \in 1 .. Len(td)
        /\ o + 4 \in 1 .. Len(td) /\ o + 5 \in 1 .. Len(td) /\ o + 6 \in 1 .. Len(td)
        /\ o + 7 \in 1 .. Len(td) /\ o + 8 \in 1 .. Len(td) /\ o + 9 \in 1 .. Len(td)
    BY <2>2
  <2> QED
    BY <2>1, <2>3
<1>6. To("count", p.count) \in Items(td) /\ To("count", 0) \in Items(td)
  BY <1>5
<1>7. Closed(td, p)
  BY <1>6 DEF Closed
<1>8. Complete(td)
  BY <1>5, <1>2 DEF Complete, Pending, Params
<1>9. Last(td)
  <2> SUFFICES ASSUME NEW i \in 1 .. Len(td), NEW j \in 1 .. Len(td), i < j,
                      td[i].reg = "count", td[i].val # 0, td[j].reg \in Body
               PROVE  FALSE
    BY DEF Last
  <2>1. i = o + 9
    BY <1>2, <1>3, Names
  <2> QED
    <3>1. j \in o + 1 .. o + 9 \/ j \notin o + 1 .. o + 9
      OBVIOUS
    <3>2. j \in Nat /\ i \in Nat /\ o \in Nat
      BY <2>1
    <3>3. j <= o + 9
      BY <1>3
    <3> QED
      BY ONLY <2>1, <3>2, <3>3, i < j
<1>10. First(td)
  <2> SUFFICES ASSUME NEW i \in 1 .. Len(td), NEW j \in 1 .. Len(td), i < j,
                      td[j] = To("count", 0), td[i].reg \in Body
               PROVE  FALSE
    BY DEF First
  <2>1. td[j].reg = "count" /\ td[j].val = 0
    BY ToFields
  <2>2. j = o + 1
    BY <2>1, <1>1, <1>2, <1>3, Names
  <2> QED
    BY <2>2, <1>3
<1>11. ASSUME NEW i \in 1 .. Len(td), td[i].reg = "repeat"
       PROVE  i = o + 7 /\ td[i].val = p.repeat
  BY <1>2, <1>3, <1>11, Names
<1> QED
  BY <1>4, <1>6, <1>7, <1>8, <1>9, <1>10, <1>11 DEF Queue

(* What CHECK_INPUTS lets through is a program.                            *)
LEMMA FilledGood ==
  ASSUME NEW a, a.times \in Seq(Nat), a.times # <<>>,
         \A f \in Params : a[f] \in Nat \cup {None}, Accepted(Filled(a), a.times)
  PROVE  Good(Filled(a), a.times)
<1>1. /\ a.delay \in Nat \cup {None} /\ a.width \in Nat \cup {None}
      /\ a.period \in Nat \cup {None} /\ a.burst \in Nat \cup {None}
      /\ a.cycle \in Nat \cup {None} /\ a.repeat \in Nat \cup {None}
  BY DEF Params
<1>2. Len(a.times) \in Nat \ {0} /\ a.times[Len(a.times)] \in Nat /\ DefaultDelay \in Nat
  BY W7xAssumption
<1>3. \A v \in Nat \cup {None}, u \in Nat : Or(v, u) \in Nat
  BY W7xAssumption DEF Or
<1> DEFINE bare   == \A f \in Params \ {"delay"} : a[f] = None
           width  == Or(a.width, IF a.period = None THEN 5 ELSE a.period \div 2)
           period == IF bare THEN 10 ELSE Or(a.period, 2 * width)
           burst  == IF bare THEN 0 ELSE Or(a.burst, 1)
           delay  == Or(a.delay, IF bare THEN DefaultDelay ELSE 0)
           cycle  == Or(a.cycle, a.times[Len(a.times)] + period * burst)
           repeat == IF bare THEN 0 ELSE Or(a.repeat, 1)
<1>4. Filled(a) = [delay |-> delay, width |-> width, period |-> period, burst |-> burst,
                   cycle |-> cycle, repeat |-> repeat, count |-> Len(a.times)]
  BY DEF Filled
<1>5. (IF a.period = None THEN 5 ELSE a.period \div 2) \in Nat
  BY <1>1
<1>6. width \in Nat
  BY <1>1, <1>3, <1>5
<1> HIDE DEF width
<1>7. 2 * width \in Nat
  BY <1>6
<1>8. period \in Nat
  BY <1>1, <1>3, <1>7
<1>9. burst \in Nat
  BY <1>1, <1>3
<1>10. delay \in Nat /\ repeat \in Nat
  BY <1>1, <1>2, <1>3
<1> HIDE DEF period, burst, delay, repeat, bare
<1>11. a.times[Len(a.times)] + period * burst \in Nat
  BY <1>2, <1>8, <1>9
<1>12. cycle \in Nat
  BY <1>1, <1>3, <1>11
<1> HIDE DEF cycle
<1>13. Filled(a) \in [Heads -> Nat] /\ Filled(a).count = Len(a.times)
  <2>1. PICK F : F = Filled(a)
    OBVIOUS
  <2>2. PICK n : n = Len(a.times)
    OBVIOUS
  <2>3. /\ F = [delay |-> delay, width |-> width, period |-> period, burst |-> burst,
                cycle |-> cycle, repeat |-> repeat, count |-> n]
        /\ n \in Nat
    BY ONLY <1>2, <1>4, <2>1, <2>2
  <2>4. F \in [Heads -> Nat] /\ F.count = n
    BY ONLY <1>6, <1>8, <1>9, <1>10, <1>12, <2>3, Names
  <2> QED
    BY ONLY <2>1, <2>2, <2>4
<1> QED
  BY <1>13 DEF Good

LEMMA ConcatItems ==
  ASSUME NEW S, NEW s \in Seq(S), NEW t \in Seq(S)
  PROVE  /\ s \o t \in Seq(S) /\ Len(s \o t) = Len(s) + Len(t)
         /\ \A k \in 1 .. Len(s) : (s \o t)[k] = s[k]
         /\ \A k \in 1 .. Len(t) : (s \o t)[k + Len(s)] = t[k]
  OBVIOUS

(* The program of reinit, and all its stores.                              *)
Bare(d) == [delay |-> d, width |-> None, period |-> None, burst |-> None,
            cycle |-> None, repeat |-> None, times |-> <<0>>]
Closing  == <<To("save", 1), To("clear", 1), To("reinit", 1), To("init", 1)>>
Reset(d) == <<To("init", 0), To("idle", 0)>> \o Program(Filled(Bare(d)), <<0>>) \o Closing

LEMMA BareGood ==
  ASSUME NEW d \in ReinitDelays
  PROVE  Good(Filled(Bare(d)), <<0>>) /\ Filled(Bare(d)).repeat = 0
<1>1. d \in Nat /\ d <= MaxTime /\ None \notin Nat /\ MaxSamples \in Nat \ {0} /\ MaxTime \in Nat
  BY W7xAssumption
<1>2. Filled(Bare(d)) = [delay |-> d, width |-> 5, period |-> 10, burst |-> 0, cycle |-> 0,
                         repeat |-> 0, count |-> 1]
  <2>1. \A f \in Params \ {"delay"} : Bare(d)[f] = None
    BY DEF Params, Bare
  <2>2. /\ Bare(d).delay = d /\ Bare(d).width = None /\ Bare(d).period = None
        /\ Bare(d).cycle = None /\ Bare(d).times = <<0>>
    BY DEF Bare
  <2>3. Or(d, DefaultDelay) = d /\ Or(None, 5) = 5
    BY <1>1 DEF Or
  <2>4. Or(None, <<0>>[Len(<<0>>)] + 10 * 0) = 0
    <3>1. Len(<<0>>) = 1 /\ <<0>>[1] = 0
      OBVIOUS
    <3> QED
      BY <3>1 DEF Or
  <2>5. Len(<<0>>) = 1
    OBVIOUS
  <2> QED
    BY <2>1, <2>2, <2>3, <2>4, <2>5 DEF Filled
<1>3. Filled(Bare(d)) \in [Heads -> Nat] /\ Filled(Bare(d)).count = 1
  BY <1>1, <1>2, Names
<1>4. Accepted(Filled(Bare(d)), <<0>>)
  <2>1. <<0>>[1] = 0
    OBVIOUS
  <2> QED
    BY <1>1, <1>2, <2>1 DEF Accepted
<1>5. <<0>> \in Seq(Nat) /\ Len(<<0>>) = 1
  OBVIOUS
<1> QED
  BY <1>2, <1>3, <1>4, <1>5 DEF Good

LEMMA ResetItems ==
  ASSUME NEW d \in ReinitDelays
  PROVE  /\ Reset(d) \in Seq(Stores) /\ Len(Reset(d)) = 15
         /\ Reset(d)[1] = To("init", 0) /\ Reset(d)[2] = To("idle", 0)
         /\ \A k \in 1 .. 9 : Reset(d)[k + 2] = Program(Filled(Bare(d)), <<0>>)[k]
         /\ Reset(d)[12] = To("save", 1) /\ Reset(d)[13] = To("clear", 1)
         /\ Reset(d)[14] = To("reinit", 1) /\ Reset(d)[15] = To("init", 1)
<1> DEFINE pre  == <<To("init", 0), To("idle", 0)>>
           body == Program(Filled(Bare(d)), <<0>>)
           post == Closing
<1>1. /\ pre \in Seq(Stores) /\ Len(pre) = 2 /\ pre[1] = To("init", 0) /\ pre[2] = To("idle", 0)
  <2>1. To("init", 0) \in Stores /\ To("idle", 0) \in Stores
    BY DEF To, Stores, Bits
  <2> QED
    BY <2>1
<1>2. /\ post \in Seq(Stores) /\ Len(post) = 4 /\ post[1] = To("save", 1)
      /\ post[2] = To("clear", 1) /\ post[3] = To("reinit", 1) /\ post[4] = To("init", 1)
  <2>1. /\ To("save", 1) \in Stores /\ To("clear", 1) \in Stores
        /\ To("reinit", 1) \in Stores /\ To("init", 1) \in Stores
    BY DEF To, Stores, Bits
  <2> QED
    BY <2>1 DEF Closing
<1>3. body \in Seq(Stores) /\ Len(body) = 9
  BY BareGood, ProgramItems DEF Good
<1>4. Reset(d) = (pre \o body) \o post
  BY DEF Reset
<1> HIDE DEF pre, body, post
<1> DEFINE mid == pre \o body
<1>5. /\ mid \in Seq(Stores) /\ Len(mid) = 11 /\ mid[1] = pre[1] /\ mid[2] = pre[2]
      /\ \A k \in 1 .. 9 : mid[k + 2] = body[k]
  <2>1. 1 \in 1 .. 2 /\ 2 \in 1 .. 2
    OBVIOUS
  <2>2. /\ mid \in Seq(Stores) /\ Len(mid) = Len(pre) + Len(body)
        /\ \A k \in 1 .. Len(pre) : mid[k] = pre[k]
        /\ \A k \in 1 .. Len(body) : mid[k + Len(pre)] = body[k]
    <3>1. pre \in Seq(Stores)
      BY <1>1
    <3>2. body \in Seq(Stores)
      BY <1>3
    <3> QED
      BY <3>1, <3>2, ConcatItems
  <2> HIDE DEF mid
  <2>3. /\ Len(mid) = 11 /\ \A k \in 1 .. 2 : mid[k] = pre[k]
        /\ \A k \in 1 .. 9 : mid[k + 2] = body[k]
    BY <1>1, <1>3, <2>2
  <2> QED
    BY <2>1, <2>2, <2>3
<1> HIDE DEF mid
<1>6. /\ mid \o post \in Seq(Stores) /\ Len(mid \o post) = 15
      /\ \A k \in 1 .. 11 : (mid \o post)[k] = mid[k]
      /\ \A k \in 1 .. 4 : (mid \o post)[k + 11] = post[k]
  <2> DEFINE all == mid \o post
  <2>1. /\ all \in Seq(Stores) /\ Len(all) = Len(mid) + Len(post)
        /\ \A k \in 1 .. Len(mid) : all[k] = mid[k]
        /\ \A k \in 1 .. Len(post) : all[k + Len(mid)] = post[k]
    <3>1. mid \in Seq(Stores)
      BY <1>5
    <3>2. post \in Seq(Stores)
      BY <1>2
    <3> QED
      BY <3>1, <3>2, ConcatItems
  <2> HIDE DEF all
  <2>2. /\ all \in Seq(Stores) /\ Len(all) = 15 /\ \A k \in 1 .. 11 : all[k] = mid[k]
        /\ \A k \in 1 .. 4 : all[k + 11] = post[k]
    BY <1>2, <1>5, <2>1
  <2> QED
    BY <2>2 DEF all
<1>7. Reset(d) = mid \o post
  BY <1>4 DEF mid
<1>8. \A k \in 1 .. 9 : k + 2 \in 1 .. 11
  OBVIOUS
<1>9. \A k \in 1 .. 9 : Reset(d)[k + 2] = body[k]
  <2> SUFFICES ASSUME NEW k \in 1 .. 9 PROVE Reset(d)[k + 2] = body[k]
    OBVIOUS
  <2>1. (mid \o post)[k + 2] = mid[k + 2]
    BY ONLY <1>6, <1>8, k \in 1 .. 9
  <2> QED
    BY ONLY <1>5, <1>7, <2>1, k \in 1 .. 9
<1>10. /\ Reset(d)[12] = post[1] /\ Reset(d)[13] = post[2]
       /\ Reset(d)[14] = post[3] /\ Reset(d)[15] = post[4]
  <2>1. 1 \in 1 .. 4 /\ 2 \in 1 .. 4 /\ 3 \in 1 .. 4 /\ 4 \in 1 .. 4
    OBVIOUS
  <2>2. /\ Reset(d)[1 + 11] = post[1] /\ Reset(d)[2 + 11] = post[2]
        /\ Reset(d)[3 + 11] = post[3] /\ Reset(d)[4 + 11] = post[4]
    BY <1>6, <1>7, <2>1
  <2> QED
    BY <2>2
<1>11. Reset(d)[1] = mid[1] /\ Reset(d)[2] = mid[2]
  <2>1. 1 \in 1 .. 11 /\ 2 \in 1 .. 11
    OBVIOUS
  <2>2. \A k \in 1 .. 11 : Reset(d)[k] = mid[k]
    BY <1>6, <1>7
  <2> HIDE DEF mid
  <2> QED
    BY <2>1, <2>2
<1>12. \A k \in 1 .. 9 : Reset(d)[k + 2] = Program(Filled(Bare(d)), <<0>>)[k]
  BY <1>9 DEF body
<1>13. Reset(d) \in Seq(Stores) /\ Len(Reset(d)) = 15
  BY <1>6, <1>7
<1> QED
  BY <1>1, <1>2, <1>5, <1>10, <1>11, <1>12, <1>13

-----------------------------------------------------------------------------
(* Every procedure leads signals to signals.                               *)
LEMMA ArmedType ==
  ASSUME NEW f \in Signals, NEW e \in States
  PROVE  StartArmed(f) \in Signals /\ DoError(f, e) \in Signals
  BY DEF StartArmed, DoError, Signals, States

LEMMA IncType ==
  ASSUME NEW f \in Signals
  PROVE  IncCycle(f) \in Signals /\ IncPeriod(f) \in Signals
<1>1. \A g \in Signals : IncCycle(g) \in Signals
  BY DEF IncCycle, Signals
<1>2. [f EXCEPT !.period_ticks = @ + 1] \in Signals
  BY DEF Signals
<1> QED
  BY <1>1, <1>2 DEF IncPeriod

LEMMA BurstType ==
  ASSUME NEW f \in Signals, NEW c \in Nat
  PROVE  StartSample(f) \in Signals /\ StartBurst(f, c) \in Signals
<1>1. \A g \in Signals : StartSample(g) \in Signals
  BY DEF StartSample, Signals, States
<1>2. [f EXCEPT !.burst_count = 1, !.sample_count = c + 1] \in Signals
  <2> DEFINE n == c + 1
  <2>1. n \in Nat
    OBVIOUS
  <2> HIDE DEF n
  <2>2. [f EXCEPT !.burst_count = 1, !.sample_count = n] \in Signals
    BY <2>1 DEF Signals
  <2> QED
    BY <2>2 DEF n
<1> QED
  BY <1>1, <1>2 DEF StartBurst

LEMMA PutType ==
  ASSUME NEW f \in Signals, NEW st \in States, NEW n \in Nat
  PROVE  /\ [f EXCEPT !.state = st] \in Signals /\ [f EXCEPT !.cycle_ticks = n] \in Signals
         /\ [f EXCEPT !.repeat_count = n] \in Signals /\ [f EXCEPT !.burst_count = n] \in Signals
         /\ [f EXCEPT !.error = "NONE"] \in Signals
         /\ [f EXCEPT !.sample_count = 0, !.period_ticks = 0, !.state = st] \in Signals
         /\ [f EXCEPT !.state = st, !.cycle_ticks = n] \in Signals
         /\ f.state \in States /\ f.sample_count \in Nat /\ f.repeat_count \in Nat
         /\ f.burst_count \in Nat /\ f.period_ticks \in Nat /\ f.cycle_ticks \in Nat
  BY DEF Signals

LEMMA StateNames ==
  /\ "IDLE" \in States /\ "ARMED" \in States /\ "WAITING_DELAY" \in States
  /\ "WAITING_SAMPLE" \in States /\ "WAITING_HIGH" \in States /\ "WAITING_LOW" \in States
  /\ "WAITING_REPEAT" \in States
  BY DEF States

LEMMA SampleType ==
  ASSUME NEW f \in Signals PROVE DoWaitingSample(f) \in Signals
<1>1. f.sample_count \in Nat /\ [f EXCEPT !.state = "WAITING_SAMPLE"] \in Signals
  BY PutType, StateNames
<1>2. IncCycle(StartBurst(f, f.sample_count)) \in Signals
  BY <1>1, BurstType, IncType
<1>3. IncCycle([f EXCEPT !.state = "WAITING_SAMPLE"]) \in Signals
  BY <1>1, IncType
<1> QED
  BY <1>2, <1>3, ArmedType, StateNames DEF DoWaitingSample

LEMMA CycleType ==
  ASSUME NEW f \in Signals PROVE StartCycle(f) \in Signals
<1>1. StartBurst(f, 0) \in Signals
  BY BurstType
<1>2. [f EXCEPT !.sample_count = 0, !.period_ticks = 0, !.state = "WAITING_SAMPLE"] \in Signals
  BY PutType, StateNames
<1>3. \A g \in Signals : [g EXCEPT !.cycle_ticks = 1] \in Signals
  BY PutType, StateNames
<1> QED
  BY <1>1, <1>2, <1>3 DEF StartCycle

LEMMA RepeatType ==
  ASSUME NEW f \in Signals PROVE DoWaitingRepeat(f) \in Signals /\ StartWaitingRepeat(f) \in Signals
<1>1. \A g \in Signals : DoWaitingRepeat(g) \in Signals
  <2> SUFFICES ASSUME NEW g \in Signals PROVE DoWaitingRepeat(g) \in Signals
    OBVIOUS
  <2>1. [g EXCEPT !.state = "WAITING_REPEAT"] \in Signals
    BY PutType, StateNames
  <2> QED
    BY <2>1, IncType, CycleType, ArmedType, StateNames DEF DoWaitingRepeat
<1>2. [f EXCEPT !.repeat_count = @ + 1] \in Signals
  BY DEF Signals
<1> QED
  BY <1>1, <1>2, ArmedType, StateNames DEF StartWaitingRepeat

LEMMA LowType ==
  ASSUME NEW f \in Signals PROVE DoWaitingLow(f) \in Signals
<1>1. StartWaitingSample(f) \in Signals
  BY RepeatType, ArmedType, SampleType, StateNames DEF StartWaitingSample
<1>2. [f EXCEPT !.burst_count = @ + 1] \in Signals /\ [f EXCEPT !.state = "WAITING_LOW"] \in Signals
  BY StateNames DEF Signals
<1>3. IncCycle(StartSample([f EXCEPT !.burst_count = @ + 1])) \in Signals
  BY <1>2, BurstType, IncType
<1> QED
  BY <1>1, <1>2, <1>3, IncType, ArmedType, StateNames DEF DoWaitingLow

LEMMA HighType ==
  ASSUME NEW f \in Signals PROVE DoWaitingHigh(f) \in Signals
<1>1. [f EXCEPT !.state = IF f.period_ticks = head.width THEN "WAITING_LOW" ELSE "WAITING_HIGH"]
        \in Signals
  BY StateNames DEF Signals
<1> QED
  BY <1>1, IncType, ArmedType, StateNames DEF DoWaitingHigh

LEMMA DelayType ==
  ASSUME NEW f \in Signals PROVE DoWaitingDelay(f) \in Signals /\ StartProgram(f) \in Signals
<1>1. [f EXCEPT !.state = "WAITING_DELAY"] \in Signals
  BY PutType, StateNames
<1>2. DoWaitingDelay(f) \in Signals
  BY <1>1, CycleType, ArmedType, IncType, StateNames DEF DoWaitingDelay
<1>3. [f EXCEPT !.repeat_count = 1] \in Signals
  BY PutType, StateNames
<1>4. \A g \in Signals : [g EXCEPT !.state = "WAITING_DELAY", !.cycle_ticks = 1] \in Signals
  BY PutType, StateNames
<1> QED
  BY <1>2, <1>3, <1>4, CycleType DEF StartProgram

LEMMA NowType ==
  ASSUME fsm \in Signals
  PROVE  /\ Now \in Signals /\ Now.state = fsm.state /\ Now.sample_count = fsm.sample_count
         /\ Now.repeat_count = fsm.repeat_count /\ Now.burst_count = fsm.burst_count
         /\ Now.period_ticks = fsm.period_ticks /\ Now.cycle_ticks = fsm.cycle_ticks
         /\ Now.error = fsm.error \/ Now.error = "NONE"
  BY DEF Now, Signals

(* Whatever the state, a tick is a step of the state machine, and the      *)
(* buffer follows.                                                         *)
LEMMA TickStep ==
  ASSUME Typed, Ticks
  PROVE  /\ fsm' \in Signals /\ Tick(fsm')
         /\ ctrl.init = 0 => fsm'.state = "IDLE"
<1>0. fsm \in Signals /\ Now \in Signals
  BY NowType DEF Typed
<1>1. [Now EXCEPT !.state = "IDLE"] \in Signals /\ [Now EXCEPT !.state = "IDLE"].state = "IDLE"
  BY <1>0, StateNames DEF Signals
<1>2. CASE Disarmed
  BY <1>2, <1>1 DEF Disarmed, Tick
<1>3. CASE Idle
  BY <1>3, <1>0, ArmedType, StateNames DEF Idle, Tick, In
<1>4. CASE Armed
  BY <1>4, <1>0 DEF Armed, Tick, In
<1>5. CASE Trigger
  BY <1>5, <1>0, DelayType DEF Trigger, Tick, In
<1>6. CASE Delay
  BY <1>6, <1>0, DelayType DEF Delay, Tick, In
<1>7. CASE Sample
  BY <1>7, <1>0, SampleType DEF Sample, Tick, In
<1>8. CASE High
  BY <1>8, <1>0, HighType DEF High, Tick, In
<1>9. CASE Low
  BY <1>9, <1>0, LowType DEF Low, Tick, In
<1>10. CASE Repeat
  BY <1>10, <1>0, RepeatType DEF Repeat, Tick, In
<1> QED
  BY <1>2, <1>3, <1>4, <1>5, <1>6, <1>7, <1>8, <1>9, <1>10 DEF Ticks

LEMMA ControlsFields ==
  ASSUME NEW c \in Flags, NEW f
  PROVE  /\ Controls(c, f) \in Flags
         /\ Controls(c, f).init = c.init /\ Controls(c, f).reinit = c.reinit
         /\ Controls(c, f).trig = IF f.state = "ARMED" THEN c.trig ELSE 0
  BY DEF Controls, Flags

(* What a tick makes of the registers.                                     *)
LEMMA TickRegisters ==
  ASSUME Typed, SchedTick
  PROVE  /\ fsm' \in Signals /\ sample' = times[Index] /\ UNCHANGED <<save, times, todo>>
         /\ ctrl' \in Flags /\ ctrl'.init = ctrl.init /\ ctrl'.reinit = ctrl.reinit
         /\ ctrl'.trig = IF fsm'.state = "ARMED" THEN ctrl.trig ELSE 0
         /\ head' = IF fsm'.state = "ARMED" /\ ctrl.reinit = 1 THEN save ELSE head
         /\ program' = IF fsm'.state = "ARMED" /\ ctrl.reinit = 1
                       THEN IF todo = <<>> THEN "whole" ELSE "mixed"
                       ELSE program
         /\ ctrl.init = 0 => fsm'.state = "IDLE"
<1>1. fsm' \in Signals /\ Tick(fsm') /\ (ctrl.init = 0 => fsm'.state = "IDLE")
  BY TickStep DEF SchedTick
<1>2. ctrl' = Controls(ctrl, fsm') /\ head' = Restored(ctrl, head, fsm')
  BY <1>1 DEF Tick
<1>3. sample' = times[Index] /\ UNCHANGED <<save, times, todo>>
  BY <1>1 DEF Tick
<1>4. ctrl \in Flags
  BY DEF Typed
<1> QED
  BY <1>1, <1>2, <1>3, <1>4, ControlsFields DEF Restored, SchedTick

(* What a store makes of them.                                             *)
LEMMA WriteRegisters ==
  ASSUME Typed, Write
  PROVE  LET w == todo[1]
         IN  /\ todo # <<>> /\ w \in Stores /\ todo' = Tail(todo) /\ UNCHANGED <<fsm, sample>>
             /\ w.reg = "idle" => fsm.state = "IDLE"
             /\ ctrl' \in Flags
             /\ ctrl'.init = (IF w.reg = "init" THEN w.val ELSE ctrl.init)
             /\ ctrl'.reinit = (IF w.reg = "reinit" THEN w.val ELSE ctrl.reinit)
             /\ ctrl'.trig = (IF fsm.state = "ARMED"
                              THEN IF w.reg = "trig" THEN w.val ELSE ctrl.trig ELSE 0)
             /\ head' = IF fsm.state = "ARMED" /\ ctrl'.reinit = 1 THEN save
                        ELSE IF w.reg \in Heads THEN [head EXCEPT ![w.reg] = w.val] ELSE head
             /\ save' = IF w.reg = "save" THEN head ELSE save
             /\ times' = IF w.reg = "times"
                         THEN [i \in DOMAIN times |->
                                 IF i < Len(w.val) THEN w.val[i + 1] ELSE times[i]]
                         ELSE times
<1> DEFINE w == todo[1]
           c == IF w.reg \in DOMAIN ctrl THEN [ctrl EXCEPT ![w.reg] = w.val] ELSE ctrl
           h == IF w.reg \in Heads THEN [head EXCEPT ![w.reg] = w.val] ELSE head
<1>1. todo # <<>> /\ todo \in Seq(Stores) /\ ctrl \in Flags
  BY DEF Write, Typed
<1>2. Head(todo) = w /\ w \in Stores
  BY <1>1, TailItems
<1>3. /\ w.reg = "idle" => fsm.state = "IDLE"
      /\ ctrl' = Controls(c, fsm) /\ head' = Restored(c, h, fsm)
      /\ save' = IF w.reg = "save" THEN head ELSE save
      /\ times' = IF w.reg = "times"
                  THEN [i \in DOMAIN times |-> IF i < Len(w.val) THEN w.val[i + 1] ELSE times[i]]
                  ELSE times
      /\ todo' = Tail(todo) /\ UNCHANGED <<fsm, sample>>
  BY <1>2 DEF Write
<1>4. DOMAIN ctrl = {"init", "trig", "clear", "reinit"}
  BY <1>1 DEF Flags
<1>5. /\ c \in Flags
      /\ c.init = (IF w.reg = "init" THEN w.val ELSE ctrl.init)
      /\ c.reinit = (IF w.reg = "reinit" THEN w.val ELSE ctrl.reinit)
      /\ c.trig = (IF w.reg = "trig" THEN w.val ELSE ctrl.trig)
  <2>1. w.reg \in Bits => w.val \in {0, 1}
    BY <1>2, StoreFields
  <2>2. CASE w.reg = "init"
    <3>1. w.val \in {0, 1} /\ c = [ctrl EXCEPT !.init = w.val]
      BY <2>1, <2>2, <1>4 DEF Bits
    <3> HIDE DEF c, w
    <3> QED
      BY <3>1, <2>2, <1>1 DEF Flags
  <2>3. CASE w.reg = "trig"
    <3>1. w.val \in {0, 1} /\ c = [ctrl EXCEPT !.trig = w.val]
      BY <2>1, <2>3, <1>4 DEF Bits
    <3> HIDE DEF c, w
    <3> QED
      BY <3>1, <2>3, <1>1 DEF Flags
  <2>4. CASE w.reg = "clear"
    <3>1. w.val \in {0, 1} /\ c = [ctrl EXCEPT !.clear = w.val]
      BY <2>1, <2>4, <1>4 DEF Bits
    <3> HIDE DEF c, w
    <3> QED
      BY <3>1, <2>4, <1>1 DEF Flags
  <2>5. CASE w.reg = "reinit"
    <3>1. w.val \in {0, 1} /\ c = [ctrl EXCEPT !.reinit = w.val]
      BY <2>1, <2>5, <1>4 DEF Bits
    <3> HIDE DEF c, w
    <3> QED
      BY <3>1, <2>5, <1>1 DEF Flags
  <2>6. CASE w.reg \notin {"init", "trig", "clear", "reinit"}
    BY <2>6, <1>1, <1>4
  <2> QED
    BY <2>2, <2>3, <2>4, <2>5, <2>6
<1> HIDE DEF c
<1>6. /\ Controls(c, fsm) \in Flags /\ Controls(c, fsm).init = c.init
      /\ Controls(c, fsm).reinit = c.reinit
      /\ Controls(c, fsm).trig = IF fsm.state = "ARMED" THEN c.trig ELSE 0
  BY <1>5, ControlsFields
<1>7. head' = IF fsm.state = "ARMED" /\ ctrl'.reinit = 1 THEN save ELSE h
  BY <1>3, <1>6 DEF Restored
<1> QED
  BY <1>1, <1>2, <1>3, <1>5, <1>6, <1>7

-----------------------------------------------------------------------------
(* The initial state.                                                      *)
LEMMA EmptyItems ==
  /\ <<>> \in Seq(Stores) /\ Len(<<>>) = 0 /\ Items(<<>>) = {}
  /\ \A r : ~Pending(<<>>, r)
  BY DEF Items, Pending

LEMMA InitTyped == SchedInit => Typed
<1> SUFFICES ASSUME SchedInit PROVE Typed
  OBVIOUS
<1>1. head \in [Heads -> Nat] /\ save \in [Heads -> Nat] /\ head.count = 0 /\ save.count = 0
  BY Names DEF SchedInit, Init
<1>2. ctrl \in Flags /\ times \in [0 .. MaxSamples - 1 -> Nat] /\ sample \in Nat
  BY DEF SchedInit, Init, Flags
<1>3. fsm \in Signals
  BY StateNames DEF SchedInit, Init, Signals
<1>4. todo \in Seq(Stores)
  BY EmptyItems DEF SchedInit, Init
<1>5. elapsed \in Nat /\ excused \in BOOLEAN /\ asked \in BOOLEAN /\ program = "whole"
  BY DEF SchedInit
<1> QED
  BY <1>1, <1>2, <1>3, <1>4, <1>5, W7xAssumption DEF Typed

(* Without stores to do any program will do.                               *)
LEMMA EmptyQueue == \E p, ts : Queue(<<>>, p, ts)
<1> DEFINE p == [f \in Heads |-> IF f = "count" THEN 1 ELSE IF f = "period" THEN 2 ELSE 0]
<1>1. /\ p \in [Heads -> Nat] /\ p.count = 1 /\ p.period = 2 /\ p.width = 0 /\ p.delay = 0
      /\ p.burst = 0 /\ p.cycle = 0
  BY Names
<1> HIDE DEF p
<1>2. <<0>> \in Seq(Nat) /\ Len(<<0>>) = 1 /\ <<0>>[1] = 0
  OBVIOUS
<1>3. Accepted(p, <<0>>)
  BY <1>1, <1>2, W7xAssumption DEF Accepted
<1>4. Good(p, <<0>>)
  BY <1>1, <1>2, <1>3 DEF Good
<1>5. Right(<<>>, p, <<0>>) /\ Closed(<<>>, p) /\ Complete(<<>>) /\ Last(<<>>) /\ First(<<>>)
  BY EmptyItems DEF Right, Closed, Complete, Last, First
<1> QED
  BY <1>4, <1>5 DEF Queue

LEMMA InitRegisters == SchedInit => Registers
<1> SUFFICES ASSUME SchedInit PROVE Registers
  OBVIOUS
<1>1. /\ todo = <<>> /\ head.repeat = 0 /\ save.repeat = 0 /\ fsm.state = "IDLE" /\ ctrl.trig = 0
      /\ program = "whole"
  BY Names DEF SchedInit, Init
<1>2. PICK p, ts : Queue(todo, p, ts)
  BY <1>1, EmptyQueue
<1>3. ~Sound(head)
  BY <1>1 DEF Sound
<1>4. Progress(p, ts)
  BY <1>1, <1>3, EmptyItems DEF Progress
<1>5. Written
  BY <1>2, <1>4 DEF Written
<1>6. Waits(todo, ctrl.init) /\ Holds(todo) /\ Empties(todo)
  BY <1>1, EmptyItems DEF Waits, Holds, Empties
<1>7. Still /\ Saved /\ Asked
  BY <1>1, EmptyItems DEF Still, Saved, Asked
<1> QED
  BY <1>5, <1>6, <1>7 DEF Registers

-----------------------------------------------------------------------------
(* A tick leaves the stores alone.                                         *)
LEMMA TickWritten ==
  ASSUME Typed, Registers, SchedTick PROVE Written'
<1>1. PICK p, ts : Queue(todo, p, ts) /\ Progress(p, ts)
  BY DEF Registers, Written
<1>2. Queue(todo', p, ts)
  BY <1>1, TickRegisters
<1> DEFINE restored == fsm'.state = "ARMED" /\ ctrl.reinit = 1
<1>3. save.repeat = 0
  BY DEF Registers, Saved
<1>4. CASE restored
  <2>1. head' = save /\ program' = (IF todo = <<>> THEN "whole" ELSE "mixed") /\ todo' = todo
    BY <1>4, TickRegisters
  <2>2. program' # "part"
    BY <2>1
  <2>3. program' = "whole" => todo' = <<>>
    BY <2>1
  <2>4. head'.repeat = 0
    BY <2>1, <1>3
  <2>5. ~Sound(head')
    BY <2>4 DEF Sound
  <2>6. Progress(p, ts)'
    BY <2>2, <2>3, <2>5, EmptyItems DEF Progress
  <2> QED
    BY <2>6, <1>2 DEF Written
<1>5. CASE ~restored
  <2>1. head' = head /\ program' = program /\ todo' = todo /\ times' = times
        /\ ctrl'.reinit = ctrl.reinit
    BY <1>5, TickRegisters
  <2>2. ~(fsm'.state = "ARMED" /\ ctrl'.reinit = 1)
    BY <1>5, <2>1
  <2>3. Progress(p, ts)'
    BY <2>1, <2>2, <1>1 DEF Progress
  <2> QED
    BY <2>3, <1>2 DEF Written
<1> QED
  BY <1>4, <1>5

LEMMA TickOthers ==
  ASSUME Typed, Registers, SchedTick
  PROVE  /\ Waits(todo', ctrl'.init) /\ Holds(todo') /\ Empties(todo')
         /\ Still' /\ Saved' /\ Asked'
<1>1. Waits(todo', ctrl'.init) /\ Holds(todo') /\ Empties(todo')
  BY TickRegisters DEF Registers
<1>2. Still'
  BY TickRegisters DEF Registers, Still
<1>3. Saved'
  BY TickRegisters DEF Registers, Saved
<1>4. Asked'
  <2>1. SUFFICES ASSUME ctrl'.trig = 1 PROVE asked'
    BY DEF Asked
  <2>2. fsm'.state = "ARMED" /\ ctrl.trig = 1
    BY <2>1, TickRegisters
  <2>3. ~Started
    BY <2>2 DEF Started, Shot, Pulsing
  <2> QED
    BY <2>2, <2>3 DEF SchedTick, Registers, Asked
<1> QED
  BY <1>1, <1>2, <1>3, <1>4

LEMMA TickTyped ==
  ASSUME Typed, SchedTick PROVE Typed'
<1>1. head' \in [Heads -> Nat] /\ head'.count <= MaxSamples /\ save' = save /\ times' = times /\ todo' = todo
  BY TickRegisters DEF Typed
<1>2. ctrl' \in Flags /\ fsm' \in Signals
  BY TickRegisters
<1>3. sample' \in Nat
  <2>1. Index \in 0 .. MaxSamples - 1
    <3>1. head.count \in Nat /\ fsm.sample_count \in Nat
      BY HeadFields, PutType, StateNames DEF Typed
    <3> QED
      BY <3>1, W7xAssumption DEF Index, Typed
  <2> QED
    BY <2>1, TickRegisters DEF Typed
<1>4. elapsed' \in Nat /\ asked' \in BOOLEAN
  BY DEF SchedTick, Typed
<1>5. excused' \in BOOLEAN
  BY DEF SchedTick, Typed
<1>6. program' \in {"whole", "part", "mixed"}
  BY TickRegisters DEF Typed
<1> QED
  BY <1>1, <1>2, <1>3, <1>4, <1>5, <1>6 DEF Typed

-----------------------------------------------------------------------------
(* A store.                                                                *)
LEMMA WriteHistory ==
  ASSUME Typed, SchedWrite
  PROVE  /\ Write /\ elapsed' = elapsed
         /\ program' = IF todo[1].reg \notin Heads THEN program
                       ELSE IF fsm.state = "ARMED" /\ ctrl.reinit = 1 THEN "mixed"
                       ELSE IF todo[1] = To("count", 0) THEN "part"
                       ELSE IF program = "whole" THEN "torn"
                       ELSE IF program = "part" /\ todo[1].reg = "count" THEN "whole"
                       ELSE program
         /\ excused' = (excused \/ Late(todo[1]))
         /\ asked' = (asked \/ todo[1].reg = "trig")
<1>1. todo # <<>> /\ todo \in Seq(Stores)
  BY DEF SchedWrite, Write, Typed
<1>2. Head(todo) = todo[1]
  BY <1>1
<1> QED
  BY <1>2 DEF SchedWrite

(* While something must wait for the idle generator nothing is restored.   *)
LEMMA ResetIdle ==
  ASSUME Typed, Registers, todo # <<>>, Resets(todo[1])
  PROVE  fsm.state = "IDLE" /\ ctrl.init = 0
<1>1. todo[1] \in Items(todo) /\ todo \in Seq(Stores)
  BY TailItems DEF Typed
<1>2. ASSUME Pending(todo, "idle") PROVE FALSE
  <2>1. PICK i \in 1 .. Len(todo) : todo[i].reg = "idle"
    BY <1>2 DEF Pending, Items
  <2>2. i = 1 \/ todo[1] = To("init", 0)
    BY <2>1 DEF Registers, Waits
  <2> QED
    BY <2>1, <2>2, ToFields DEF Resets
<1> QED
  BY <1>1, <1>2 DEF Registers, Still

LEMMA WritePart ==
  ASSUME Typed, Registers, SchedWrite, NEW p, NEW ts, Queue(todo, p, ts), Progress(p, ts),
         program = "part", todo[1].reg \in Heads
  PROVE  Progress(p, ts)' /\ program' \in {"part", "whole"}
<1> DEFINE w == todo[1]
<1>1. /\ head.count = 0 /\ To("count", 0) \notin Items(todo)
      /\ To("count", p.count) \in Items(todo)
      /\ \A f \in Params : head[f] = p[f] \/ Pending(todo, f)
      /\ (\A i \in 0 .. p.count - 1 : times[i] = ts[i + 1]) \/ Pending(todo, "times")
      /\ ~(fsm.state = "ARMED" /\ ctrl.reinit = 1)
  BY DEF Progress
<1>2. /\ todo # <<>> /\ w \in Stores /\ todo' = Tail(todo) /\ fsm' = fsm /\ todo \in Seq(Stores)
      /\ w.reg \notin Bits /\ w.reg # "times" /\ ctrl'.reinit = ctrl.reinit
  BY WriteHistory, WriteRegisters, Names DEF Bits, Typed
<1>3. w \in Items(todo) /\ Items(todo) = {w} \cup Items(todo') /\ 1 \in 1 .. Len(todo)
  BY <1>2, TailItems
<1>4. /\ head' = [head EXCEPT ![w.reg] = w.val] /\ times' = times
      /\ ~(fsm'.state = "ARMED" /\ ctrl'.reinit = 1)
  BY <1>1, <1>2, WriteHistory, WriteRegisters
<1>5. w # To("count", 0)
  BY <1>1, <1>3
<1>6. program' = IF w.reg = "count" THEN "whole" ELSE "part"
  BY <1>1, <1>5, WriteHistory
<1>7. head \in [Heads -> Nat] /\ p \in [Heads -> Nat]
  BY DEF Typed, Queue, Good
<1>8. CASE w.reg = "count"
  <2>1. w.val = p.count /\ p.count # 0
    <3>1. w.val \in {0, p.count}
      BY <1>3, <1>8 DEF Queue, Right
    <3>2. w = To("count", w.val)
      BY <1>2, <1>8, StoreFields
    <3>3. w.val # 0
      BY <3>2, <1>5
    <3> QED
      BY <3>1, <3>3
  <2>2. ASSUME NEW v \in Items(todo), v # w PROVE v.reg \notin Body
    <3>1. PICK j \in 1 .. Len(todo) : v = todo[j]
      BY DEF Items
    <3>2. j # 1 /\ 1 < j
      BY <3>1, <2>2
    <3> QED
      BY <3>1, <3>2, <2>1, <1>3, <1>8 DEF Queue, Last
  <2>3. \A f \in Params : head[f] = p[f]
    <3> SUFFICES ASSUME NEW f \in Params PROVE head[f] = p[f]
      OBVIOUS
    <3>1. ~Pending(todo, f)
      BY <2>2, <1>8 DEF Pending, Body, Heads, Params
    <3> QED
      BY <3>1, <1>1
  <2>4. \A i \in 0 .. p.count - 1 : times[i] = ts[i + 1]
    <3>1. ~Pending(todo, "times")
      BY <2>2, <1>2 DEF Pending, Body
    <3> QED
      BY <3>1, <1>1
  <2>5. /\ head'.count = p.count /\ head'.period = p.period /\ head'.width = p.width
        /\ head'.cycle = p.cycle /\ head'.burst = p.burst
    BY <1>4, <1>7, <1>8, <2>1, <2>3, Names DEF Params
  <2>6. Valid(head', times')
    <3>0. p.period * p.burst = Train(p) /\ Train(p) = Train(head')
      BY <2>5, <1>7, HeadFields, MulComm DEF Train
    <3>1. /\ p.count \in 1 .. MaxSamples /\ p.period >= 2 /\ p.width < p.period
          /\ p.cycle <= MaxTime /\ p.cycle >= ts[p.count] + Train(p)
          /\ \A i \in 2 .. p.count : ts[i] >= ts[i - 1] + Train(p)
      BY <3>0 DEF Queue, Good, Accepted
    <3>2. times'[p.count - 1] = ts[p.count]
      <4>1. p.count - 1 \in 0 .. p.count - 1 /\ (p.count - 1) + 1 = p.count
        BY <3>1, W7xAssumption
      <4> QED
        BY <4>1, <2>4, <1>4
    <3>3. ASSUME NEW i \in 1 .. p.count - 1 PROVE times'[i] >= times'[i - 1] + Train(p)
      <4>1. /\ i \in 0 .. p.count - 1 /\ i - 1 \in 0 .. p.count - 1 /\ i + 1 \in 2 .. p.count
            /\ (i - 1) + 1 = i /\ (i + 1) - 1 = i
        BY <3>1, W7xAssumption
      <4>2. times[i] = ts[i + 1] /\ times[i - 1] = ts[(i - 1) + 1]
        BY <4>1, <2>4
      <4>3. ts[i + 1] >= ts[(i + 1) - 1] + Train(p)
        BY <4>1, <3>1
      <4> QED
        BY <4>1, <4>2, <4>3, <1>4
    <3> QED
      BY <3>0, <3>1, <3>2, <3>3, <2>5 DEF Valid
  <2>7. \A v \in Items(todo') : v.reg \notin Body
    <3> SUFFICES ASSUME NEW v \in Items(todo') PROVE v.reg \notin Body
      OBVIOUS
    <3>1. PICK i \in 1 .. Len(Tail(todo)) : v = Tail(todo)[i]
      BY <1>2 DEF Items
    <3>2. v = todo[i + 1] /\ i + 1 \in 1 .. Len(todo) /\ 1 < i + 1
      BY <3>1, <1>2, TailItems
    <3> QED
      BY <3>2, <2>1, <1>3, <1>8 DEF Queue, Last
  <2>8. program' = "whole"
    BY <1>6, <1>8
  <2> QED
    BY <2>6, <2>7, <2>8 DEF Progress
<1>9. CASE w.reg # "count"
  <2>1. program' = "part"
    BY <1>6, <1>9
  <2>2. head'.count = 0
    BY <1>1, <1>4, <1>7, <1>9, Names
  <2>3. To("count", 0) \notin Items(todo') /\ To("count", p.count) \in Items(todo')
    BY <1>1, <1>3, <1>9, ToFields
  <2>4. ASSUME NEW f \in Params PROVE head'[f] = p[f] \/ Pending(todo', f)
    <3>1. CASE f = w.reg
      <4>1. w.val = p[f]
        BY <3>1, <1>3 DEF Queue, Right
      <4> QED
        BY <4>1, <3>1, <1>4, <1>7 DEF Heads
    <3>2. CASE f # w.reg
      <4>1. head'[f] = head[f]
        BY <3>2, <1>4, <1>7 DEF Heads
      <4>2. Pending(todo, f) => Pending(todo', f)
        BY <3>2, <1>3 DEF Pending
      <4> QED
        BY <4>1, <4>2, <1>1
    <3> QED
      BY <3>1, <3>2
  <2>5. (\A i \in 0 .. p.count - 1 : times'[i] = ts[i + 1]) \/ Pending(todo', "times")
    <3>1. Pending(todo, "times") => Pending(todo', "times")
      BY <1>2, <1>3 DEF Pending
    <3> QED
      BY <3>1, <1>1, <1>4
  <2> QED
    BY <2>1, <2>2, <2>3, <2>4, <2>5, <1>4 DEF Progress
<1> QED
  BY <1>6, <1>8, <1>9

(* The first store of a program.                                           *)
LEMMA WriteFresh ==
  ASSUME Typed, Registers, SchedWrite, NEW p, NEW ts, Queue(todo, p, ts), Progress(p, ts),
         program # "part", todo[1].reg \in Heads
  PROVE  Progress(p, ts)' /\ program' \in {"part", "mixed"}
<1> DEFINE w == todo[1]
           restored == fsm.state = "ARMED" /\ ctrl.reinit = 1
<1>1. /\ todo # <<>> /\ w \in Stores /\ todo' = Tail(todo) /\ fsm' = fsm /\ todo \in Seq(Stores)
      /\ w.reg \notin Bits /\ w.reg # "times" /\ ctrl'.reinit = ctrl.reinit
  BY WriteHistory, WriteRegisters, Names DEF Bits, Typed
<1>2. w \in Items(todo) /\ Items(todo) = {w} \cup Items(todo') /\ 1 \in 1 .. Len(todo)
  BY <1>1, TailItems
<1>3. program = "whole" => w = To("count", 0)
  <2> SUFFICES ASSUME program = "whole" PROVE w = To("count", 0)
    OBVIOUS
  <2>1. To("count", 0) \in Items(todo)
    BY <1>2 DEF Progress, Body
  <2>2. PICK j \in 1 .. Len(todo) : todo[j] = To("count", 0)
    BY <2>1 DEF Items
  <2>3. j = 1
    <3>1. ASSUME 1 < j PROVE FALSE
      BY <2>2, <3>1, <1>2 DEF Queue, First, Body
    <3> QED
      BY <3>1
  <2> QED
    BY <2>2, <2>3
<1>4. program \in {"whole", "mixed"}
  BY DEF Typed
<1>5. CASE restored
  <2>1. program' = "mixed"
    BY <1>5, WriteHistory
  <2> QED
    BY <2>1 DEF Progress
<1>6. CASE ~restored /\ w # To("count", 0)
  <2>1. program' = "mixed"
    BY <1>3, <1>4, <1>6, WriteHistory
  <2> QED
    BY <2>1 DEF Progress
<1>7. CASE ~restored /\ w = To("count", 0)
  <2>1. program' = "part"
    BY <1>7, WriteHistory
  <2>2. w.reg = "count" /\ w.val = 0
    BY <1>7, ToFields
  <2>3. ~(fsm'.state = "ARMED" /\ ctrl'.reinit = 1)
    BY <1>1, <1>7
  <2>4. head' = [head EXCEPT ![w.reg] = w.val]
    BY <1>1, <1>7, WriteHistory, WriteRegisters
  <2>5. head'.count = 0
    BY <2>2, <2>4, Names DEF Typed
  <2>6. p.count # 0
    BY W7xAssumption DEF Queue, Good, Accepted
  <2>7. To("count", p.count) \in Items(todo')
    <3>1. To("count", p.count) \in Items(todo)
      BY <1>2, <1>7 DEF Queue, Closed
    <3>2. To("count", p.count) # w
      BY <2>2, <2>6, ToFields
    <3> QED
      BY <3>1, <3>2, <1>2
  <2>8. To("count", 0) \notin Items(todo')
    <3> SUFFICES ASSUME To("count", 0) \in Items(todo') PROVE FALSE
      OBVIOUS
    <3>1. PICK i \in 1 .. Len(Tail(todo)) : Tail(todo)[i] = To("count", 0)
      BY <1>1 DEF Items
    <3>2. todo[i + 1] = To("count", 0) /\ i + 1 \in 1 .. Len(todo) /\ 1 < i + 1
      BY <3>1, <1>1, TailItems
    <3> QED
      BY <3>2, <1>2 DEF Queue, First, Body
  <2>9. \A f \in Params \cup {"times"} : Pending(todo', f)
    <3> SUFFICES ASSUME NEW f \in Params \cup {"times"} PROVE Pending(todo', f)
      OBVIOUS
    <3>1. Pending(todo, f)
      BY <1>2, <1>7 DEF Queue, Complete
    <3>2. f # w.reg
      BY <2>2 DEF Params
    <3> QED
      BY <3>1, <3>2, <1>2 DEF Pending
  <2> QED
    BY <2>1, <2>3, <2>5, <2>7, <2>8, <2>9 DEF Progress
<1> QED
  BY <1>5, <1>6, <1>7

(* Stores of other registers; no times are stored into a whole program.    *)
LEMMA WriteOther ==
  ASSUME Typed, Registers, SchedWrite, NEW p, NEW ts, Queue(todo, p, ts), Progress(p, ts),
         todo[1].reg \notin Heads
  PROVE  Progress(p, ts)' /\ program' = program
<1> DEFINE w == todo[1]
<1>1. /\ todo # <<>> /\ w \in Stores /\ todo' = Tail(todo) /\ fsm' = fsm /\ todo \in Seq(Stores)
  BY WriteHistory, WriteRegisters DEF Typed
<1>2. w \in Items(todo) /\ Items(todo) = {w} \cup Items(todo') /\ 1 \in 1 .. Len(todo)
  BY <1>1, TailItems
<1>3. program' = program
  BY WriteHistory
<1>4. head' = IF fsm.state = "ARMED" /\ ctrl'.reinit = 1 THEN save ELSE head
  BY WriteHistory, WriteRegisters
<1>5. save.repeat = 0
  BY DEF Registers, Saved
<1>6. program = "whole" => Progress(p, ts)'
  <2> SUFFICES ASSUME program = "whole" PROVE Progress(p, ts)'
    OBVIOUS
  <2>1. w.reg # "times"
    <3> SUFFICES ASSUME w.reg = "times" PROVE FALSE
      OBVIOUS
    <3>1. To("count", 0) \in Items(todo)
      BY <1>2 DEF Progress, Body
    <3>2. PICK j \in 1 .. Len(todo) : todo[j] = To("count", 0)
      BY <3>1 DEF Items
    <3>3. j # 1
      BY <3>2, ToFields
    <3> QED
      BY <3>2, <3>3, <1>2 DEF Queue, First, Body
  <2>2. times' = times
    BY <2>1, WriteHistory, WriteRegisters
  <2>3. Sound(head') => Valid(head', times')
    <3>1. CASE head' = head
      BY <3>1, <2>2 DEF Progress
    <3>2. CASE head' = save
      BY <3>2, <1>5 DEF Sound
    <3> QED
      BY <3>1, <3>2, <1>4
  <2>4. (\E v \in Items(todo') : v.reg \in Body) => To("count", 0) \in Items(todo')
    <3> SUFFICES ASSUME NEW v \in Items(todo'), v.reg \in Body PROVE To("count", 0) \in Items(todo')
      OBVIOUS
    <3>1. To("count", 0) \in Items(todo)
      BY <1>2 DEF Progress
    <3>2. To("count", 0) # w
      BY ToFields, Names
    <3> QED
      BY <3>1, <3>2, <1>2
  <2> QED
    BY <1>3, <2>3, <2>4 DEF Progress
<1>7. program = "part" => Progress(p, ts)'
  <2> SUFFICES ASSUME program = "part" PROVE Progress(p, ts)'
    OBVIOUS
  <2>1. /\ head.count = 0 /\ To("count", 0) \notin Items(todo)
        /\ To("count", p.count) \in Items(todo)
        /\ \A f \in Params : head[f] = p[f] \/ Pending(todo, f)
        /\ (\A i \in 0 .. p.count - 1 : times[i] = ts[i + 1]) \/ Pending(todo, "times")
        /\ ~(fsm.state = "ARMED" /\ ctrl.reinit = 1)
    BY DEF Progress
  <2>2. ~(fsm'.state = "ARMED" /\ ctrl'.reinit = 1)
    <3>1. CASE w.reg = "reinit" /\ w.val = 1
      <4>1. w = To("reinit", 1)
        BY <3>1, <1>1, StoreFields
      <4>2. fsm.state = "IDLE"
        BY <4>1, <1>1, ResetIdle DEF Resets
      <4> QED
        BY <4>2, <1>1
    <3>2. CASE w.reg = "reinit" /\ w.val # 1
      BY <3>2, WriteHistory, WriteRegisters
    <3>3. CASE w.reg # "reinit"
      BY <3>3, <2>1, <1>1, WriteHistory, WriteRegisters
    <3> QED
      BY <3>1, <3>2, <3>3
  <2>3. head' = head
    BY <2>2, <1>1, <1>4
  <2>4. To("count", 0) \notin Items(todo') /\ To("count", p.count) \in Items(todo')
    BY <2>1, <1>2, ToFields, Names
  <2>5. ASSUME NEW f \in Params PROVE head'[f] = p[f] \/ Pending(todo', f)
    <3>1. f # w.reg
      BY DEF Heads
    <3> QED
      BY <3>1, <2>1, <2>3, <1>2 DEF Pending
  <2>6. (\A i \in 0 .. p.count - 1 : times'[i] = ts[i + 1]) \/ Pending(todo', "times")
    <3>1. CASE w.reg = "times"
      <4>1. w.val = ts /\ Len(ts) = p.count /\ p.count \in 1 .. MaxSamples
        BY <3>1, <1>2 DEF Queue, Right, Good, Accepted
      <4>2. times' = [i \in DOMAIN times |-> IF i < Len(ts) THEN ts[i + 1] ELSE times[i]]
        BY <3>1, <4>1, WriteHistory, WriteRegisters
      <4>3. DOMAIN times = 0 .. MaxSamples - 1 /\ MaxSamples \in Nat
        BY W7xAssumption DEF Typed
      <4> QED
        BY <4>1, <4>2, <4>3
    <3>2. CASE w.reg # "times"
      <4>1. times' = times
        BY <3>2, WriteHistory, WriteRegisters
      <4>2. Pending(todo, "times") => Pending(todo', "times")
        BY <3>2, <1>2 DEF Pending
      <4> QED
        BY <4>1, <4>2, <2>1
    <3> QED
      BY <3>1, <3>2
  <2> QED
    BY <1>3, <2>1, <2>2, <2>3, <2>4, <2>5, <2>6 DEF Progress
<1>8. program = "mixed" => Progress(p, ts)'
  BY <1>3 DEF Progress
<1> QED
  BY <1>3, <1>6, <1>7, <1>8 DEF Typed

LEMMA WriteWritten ==
  ASSUME Typed, Registers, SchedWrite
  PROVE  Written' /\ program' \in {"whole", "part", "mixed"}
<1>1. PICK p, ts : Queue(todo, p, ts) /\ Progress(p, ts)
  BY DEF Registers, Written
<1>2. todo' = Tail(todo) /\ todo # <<>> /\ todo \in Seq(Stores)
  BY WriteHistory, WriteRegisters DEF Typed
<1>3. Queue(todo', p, ts)
  BY <1>1, <1>2, TailClosed
<1>4. Progress(p, ts)' /\ program' \in {"whole", "part", "mixed"}
  <2>1. CASE todo[1].reg \notin Heads
    BY <2>1, <1>1, WriteOther DEF Typed
  <2>2. CASE todo[1].reg \in Heads /\ program = "part"
    BY <2>2, <1>1, WritePart
  <2>3. CASE todo[1].reg \in Heads /\ program # "part"
    BY <2>3, <1>1, WriteFresh
  <2> QED
    BY <2>1, <2>2, <2>3
<1> QED
  BY <1>3, <1>4 DEF Written

LEMMA WriteTyped ==
  ASSUME Typed, Registers, SchedWrite PROVE Typed'
<1> DEFINE w == todo[1]
<1>1. /\ todo # <<>> /\ w \in Stores /\ todo' = Tail(todo) /\ UNCHANGED <<fsm, sample>>
      /\ todo \in Seq(Stores)
  BY WriteHistory, WriteRegisters DEF Typed
<1>2. w.reg = "count" => w.val <= MaxSamples
  <2>1. PICK p, ts : Queue(todo, p, ts)
    BY DEF Registers, Written
  <2>2. 1 \in 1 .. Len(todo)
    BY <1>1, TailItems
  <2>3. p.count <= MaxSamples /\ 0 <= MaxSamples
    BY <2>1, W7xAssumption DEF Queue, Good, Accepted
  <2> QED
    BY <2>1, <2>2, <2>3 DEF Queue, Right
<1>3. head' \in [Heads -> Nat] /\ head'.count <= MaxSamples
  <2>1. w.reg \in Heads => w.val \in Nat
    BY <1>1, StoreFields
  <2>2. head \in [Heads -> Nat] /\ head.count <= MaxSamples
    BY DEF Typed
  <2>3. CASE w.reg \in Heads
    <3>1. [head EXCEPT ![w.reg] = w.val] \in [Heads -> Nat]
      BY <2>1, <2>2, <2>3
    <3>2. [head EXCEPT ![w.reg] = w.val].count <= MaxSamples
      BY <1>2, <2>1, <2>2, <2>3, Names
    <3>3. head' = save \/ head' = [head EXCEPT ![w.reg] = w.val]
      BY <2>3, WriteHistory, WriteRegisters
    <3> QED
      BY <3>1, <3>2, <3>3 DEF Typed
  <2>4. CASE w.reg \notin Heads
    <3>1. head' = save \/ head' = head
      BY <2>4, WriteHistory, WriteRegisters
    <3> QED
      BY <3>1 DEF Typed
  <2> QED
    BY <2>3, <2>4
<1>4. save' \in [Heads -> Nat] /\ save'.count <= MaxSamples
  <2>1. save' = head \/ save' = save
    BY WriteHistory, WriteRegisters
  <2> QED
    BY <2>1 DEF Typed
<1>5. times' \in [0 .. MaxSamples - 1 -> Nat]
  <2>1. CASE w.reg = "times"
    <3>1. w.val \in Seq(Nat)
      BY <2>1, <1>1, StoreFields
    <3>2. times' = [i \in DOMAIN times |-> IF i < Len(w.val) THEN w.val[i + 1] ELSE times[i]]
      BY <2>1, WriteHistory, WriteRegisters
    <3>3. times \in [0 .. MaxSamples - 1 -> Nat] /\ MaxSamples \in Nat
      BY W7xAssumption DEF Typed
    <3> DEFINE v == w.val
    <3> HIDE DEF v
    <3>4. v \in Seq(Nat)
           /\ times' = [i \in DOMAIN times |-> IF i < Len(v) THEN v[i + 1] ELSE times[i]]
      BY <3>1, <3>2 DEF v
    <3>5. \A i \in 0 .. MaxSamples - 1 : (IF i < Len(v) THEN v[i + 1] ELSE times[i]) \in Nat
      BY <3>3, <3>4
    <3> QED
      BY <3>3, <3>4, <3>5
  <2>2. CASE w.reg # "times"
    BY <2>2, WriteHistory, WriteRegisters DEF Typed
  <2> QED
    BY <2>1, <2>2
<1>6. ctrl' \in Flags /\ todo' \in Seq(Stores)
  BY <1>1, WriteHistory, WriteRegisters, TailItems
<1>7. fsm' \in Signals /\ sample' \in Nat
  BY <1>1 DEF Typed
<1>8. elapsed' \in Nat /\ excused' \in BOOLEAN /\ asked' \in BOOLEAN
  <2>1. Late(todo[1]) \in BOOLEAN
    BY DEF Late
  <2> QED
    BY <2>1, WriteHistory DEF Typed
<1>9. program' \in {"whole", "part", "mixed"}
  BY WriteWritten
<1> QED
  BY <1>3, <1>4, <1>5, <1>6, <1>7, <1>8, <1>9 DEF Typed

LEMMA WriteOthers ==
  ASSUME Typed, Registers, SchedWrite
  PROVE  /\ Waits(todo', ctrl'.init) /\ Holds(todo') /\ Empties(todo')
         /\ Still' /\ Saved' /\ Asked'
<1> DEFINE w == todo[1]
<1>1. /\ todo # <<>> /\ w \in Stores /\ todo' = Tail(todo) /\ fsm' = fsm /\ todo \in Seq(Stores)
  BY WriteHistory, WriteRegisters DEF Typed
<1>2. w \in Items(todo) /\ Items(todo) = {w} \cup Items(todo') /\ 1 \in 1 .. Len(todo)
  BY <1>1, TailItems
<1>3. \A i \in 1 .. Len(Tail(todo)) : Tail(todo)[i] = todo[i + 1] /\ i + 1 \in 1 .. Len(todo)
  BY <1>1, TailItems
<1>4. ctrl'.init = (IF w.reg = "init" THEN w.val ELSE ctrl.init)
  BY WriteHistory, WriteRegisters
<1>5. Waits(todo', ctrl'.init)
  <2> SUFFICES ASSUME NEW i \in 1 .. Len(Tail(todo)), Tail(todo)[i].reg = "idle"
               PROVE  (i = 1 /\ ctrl'.init = 0) \/ (i = 2 /\ Tail(todo)[1] = To("init", 0))
    BY <1>1 DEF Waits
  <2>1. todo[i + 1].reg = "idle" /\ i + 1 \in 1 .. Len(todo) /\ i \in Nat \ {0}
    BY <1>3
  <2>2. i + 1 = 2 /\ w = To("init", 0)
    BY <2>1 DEF Registers, Waits
  <2>3. ctrl'.init = 0
    BY <2>2, <1>4, ToFields
  <2> QED
    BY <2>1, <2>2, <2>3
<1>6. Holds(todo')
  <2> SUFFICES ASSUME NEW i \in 1 .. Len(Tail(todo)), NEW j \in 1 .. Len(Tail(todo)), i < j,
                      Resets(Tail(todo)[j]), Tail(todo)[i].reg = "init"
               PROVE  \E m \in 1 .. Len(Tail(todo)) : i < m /\ Tail(todo)[m].reg = "idle"
    BY <1>1 DEF Holds
  <2>1. /\ todo[i + 1].reg = "init" /\ Resets(todo[j + 1]) /\ i + 1 < j + 1
        /\ i + 1 \in 1 .. Len(todo) /\ j + 1 \in 1 .. Len(todo)
    BY <1>3
  <2>2. PICK m \in 1 .. Len(todo) : i + 1 < m /\ todo[m].reg = "idle"
    BY <2>1 DEF Registers, Holds
  <2>3. m # 1 /\ i < m - 1
    BY <2>2
  <2>4. m - 1 \in 1 .. Len(Tail(todo)) /\ Tail(todo)[m - 1] = todo[m]
    BY <2>3, <1>1, TailItems
  <2> QED
    BY <2>2, <2>3, <2>4
<1>7. Empties(todo')
  <2> SUFFICES ASSUME NEW i \in 1 .. Len(Tail(todo)), NEW j \in 1 .. Len(Tail(todo))
               PROVE  /\ Tail(todo)[j].reg = "save" /\ Tail(todo)[i].reg = "repeat"
                           => Tail(todo)[i].val = 0
                      /\ i < j /\ Tail(todo)[i].reg = "save" => Tail(todo)[j].reg # "repeat"
    BY <1>1 DEF Empties
  <2>1. /\ Tail(todo)[i] = todo[i + 1] /\ Tail(todo)[j] = todo[j + 1]
        /\ i + 1 \in 1 .. Len(todo) /\ j + 1 \in 1 .. Len(todo) /\ (i < j => i + 1 < j + 1)
    BY <1>3
  <2> QED
    BY <2>1 DEF Registers, Empties
<1>8. Still'
  <2> SUFFICES ASSUME NEW v \in Items(todo'), Resets(v), ~Pending(todo', "idle")
               PROVE  fsm'.state = "IDLE" /\ ctrl'.init = 0
    BY DEF Still
  <2>1. v \in Items(todo)
    BY <1>2
  <2>2. CASE w.reg = "idle"
    <3>1. fsm.state = "IDLE"
      BY <2>2, WriteHistory, WriteRegisters
    <3>2. ctrl.init = 0
      <4>1. w = To("init", 0) => w.reg = "init"
        BY ToFields
      <4> QED
        BY <2>2, <4>1, <1>2 DEF Registers, Waits
    <3> QED
      BY <3>1, <3>2, <2>2, <1>1, <1>4
  <2>3. CASE w.reg # "idle"
    <3>1. ~Pending(todo, "idle")
      BY <2>3, <1>2 DEF Pending
    <3>2. fsm.state = "IDLE" /\ ctrl.init = 0
      BY <2>1, <3>1 DEF Registers, Still
    <3>3. w.reg # "init"
      <4> SUFFICES ASSUME w.reg = "init" PROVE FALSE
        OBVIOUS
      <4>1. PICK j \in 1 .. Len(Tail(todo)) : v = Tail(todo)[j]
        BY <1>1 DEF Items
      <4>2. v = todo[j + 1] /\ j + 1 \in 1 .. Len(todo) /\ 1 < j + 1
        BY <4>1, <1>3
      <4>3. \E m \in 1 .. Len(todo) : todo[m].reg = "idle"
        BY <4>2, <1>2 DEF Registers, Holds
      <4> QED
        BY <4>3, <3>1 DEF Pending, Items
    <3> QED
      BY <3>2, <3>3, <1>1, <1>4
  <2> QED
    BY <2>2, <2>3
<1>9. Saved'
  <2>1. /\ head' = IF fsm.state = "ARMED" /\ ctrl'.reinit = 1 THEN save
                   ELSE IF w.reg \in Heads THEN [head EXCEPT ![w.reg] = w.val] ELSE head
        /\ save' = IF w.reg = "save" THEN head ELSE save
        /\ ctrl'.reinit = (IF w.reg = "reinit" THEN w.val ELSE ctrl.reinit)
    BY WriteHistory, WriteRegisters
  <2>2. save.repeat = 0 /\ head \in [Heads -> Nat]
    BY DEF Registers, Saved, Typed
  <2>3. w.reg = "save" => head.repeat = 0 /\ fsm.state = "IDLE"
    <3> SUFFICES ASSUME w.reg = "save" PROVE head.repeat = 0 /\ fsm.state = "IDLE"
      OBVIOUS
    <3>1. fsm.state = "IDLE"
      BY <1>1, ResetIdle DEF Resets
    <3>2. Pending(todo, "save")
      BY <1>2 DEF Pending
    <3>3. ~Pending(todo, "repeat")
      <4> SUFFICES ASSUME Pending(todo, "repeat") PROVE FALSE
        OBVIOUS
      <4>1. PICK j \in 1 .. Len(todo) : todo[j].reg = "repeat"
        BY DEF Pending, Items
      <4>2. 1 < j
        BY <4>1
      <4> QED
        BY <4>1, <4>2, <1>2 DEF Registers, Empties
    <3> QED
      BY <3>1, <3>2, <3>3 DEF Registers, Saved
  <2>4. save'.repeat = 0
    BY <2>1, <2>2, <2>3
  <2>5. Pending(todo', "save") => Pending(todo', "repeat") \/ head'.repeat = 0
    <3> SUFFICES ASSUME Pending(todo', "save"), ~Pending(todo', "repeat") PROVE head'.repeat = 0
      OBVIOUS
    <3>1. Pending(todo, "save")
      BY <1>2 DEF Pending
    <3>2. CASE w.reg = "repeat"
      <4>1. PICK j \in 1 .. Len(todo) : todo[j].reg = "save"
        BY <3>1 DEF Pending, Items
      <4>2. w.val = 0
        BY <4>1, <3>2, <1>2 DEF Registers, Empties
      <4>3. head' = save \/ head' = [head EXCEPT !["repeat"] = 0]
        BY <2>1, <3>2, <4>2, Names
      <4> QED
        BY <4>3, <2>2, Names
    <3>3. CASE w.reg # "repeat"
      <4>1. ~Pending(todo, "repeat")
        BY <3>3, <1>2 DEF Pending
      <4>2. head.repeat = 0
        BY <3>1, <4>1 DEF Registers, Saved
      <4>3. head' = save \/ head' = head \/ head' = [head EXCEPT ![w.reg] = w.val]
        BY <2>1
      <4> QED
        BY <4>2, <4>3, <3>3, <2>2, Names
    <3> QED
      BY <3>2, <3>3
  <2>6. fsm'.state = "ARMED" /\ ctrl'.reinit = 1 => head' = save'
    BY <2>1, <2>3, <1>1
  <2> QED
    BY <2>4, <2>5, <2>6 DEF Saved
<1>10. Asked'
  <2>1. ctrl'.trig = (IF fsm.state = "ARMED" THEN IF w.reg = "trig" THEN w.val ELSE ctrl.trig ELSE 0)
    BY WriteHistory, WriteRegisters
  <2>2. asked' = (asked \/ w.reg = "trig")
    BY WriteHistory
  <2>3. CASE w.reg = "trig"
    BY <2>2, <2>3 DEF Asked
  <2>4. CASE w.reg # "trig"
    <3>1. ctrl'.trig = 1 => ctrl.trig = 1
      BY <2>1, <2>4
    <3>2. asked => asked'
      BY <2>2
    <3> QED
      BY <3>1, <3>2 DEF Registers, Asked
  <2> QED
    BY <2>3, <2>4
<1> QED
  BY <1>5, <1>6, <1>7, <1>8, <1>9, <1>10

-----------------------------------------------------------------------------
(* A call of the library finds all stores done and leaves its own to do.   *)
LEMMA CallTaken ==
  ASSUME Typed, Registers, NEW ws \in Seq(Stores), Call(ws), UNCHANGED history,
         \E p, ts : Queue(ws, p, ts),
         (\E v \in Items(ws) : v.reg \in Body) => To("count", 0) \in Items(ws),
         Waits(ws, ctrl.init), Holds(ws), Empties(ws),
         (\E v \in Items(ws) : Resets(v)) => Pending(ws, "idle"),
         Pending(ws, "save") => Pending(ws, "repeat")
  PROVE  Typed' /\ Registers'
<1>1. /\ todo = <<>> /\ todo' = ws
      /\ head' = head /\ save' = save /\ ctrl' = ctrl /\ times' = times /\ sample' = sample
      /\ fsm' = fsm /\ elapsed' = elapsed /\ program' = program /\ excused' = excused
      /\ asked' = asked
  BY DEF Call, history
<1>2. Typed'
  BY <1>1 DEF Typed
<1>3. PICK p, ts : Queue(ws, p, ts)
  OBVIOUS
<1>4. PICK q, us : Progress(q, us)
  BY DEF Registers, Written
<1>5. program # "part"
  BY <1>1, <1>4, EmptyItems DEF Progress
<1>6. Progress(p, ts)'
  BY <1>1, <1>4, <1>5 DEF Progress
<1>7. Written'
  BY <1>1, <1>3, <1>6 DEF Written
<1>8. Waits(todo', ctrl'.init) /\ Holds(todo') /\ Empties(todo')
  BY <1>1
<1>9. Still' /\ Saved' /\ Asked'
  BY <1>1 DEF Registers, Still, Saved, Asked
<1> QED
  BY <1>2, <1>7, <1>8, <1>9 DEF Registers

(* A call that stores only control bits.                                   *)
LEMMA PlainTaken ==
  ASSUME Typed, Registers, NEW ws \in Seq(Stores), Call(ws), UNCHANGED history,
         \A i \in 1 .. Len(ws) : ws[i].reg \in {"init", "trig", "clear", "reinit"} /\ ~Resets(ws[i])
  PROVE  Typed' /\ Registers'
<1>1. \A v \in Items(ws) : v.reg \in {"init", "trig", "clear", "reinit"} /\ ~Resets(v)
  BY DEF Items
<1>2. \A v \in Items(ws) : v.reg \notin Body /\ v # To("count", 0)
  BY <1>1, Names, ToFields
<1>3. \A i \in 1 .. Len(ws) : ws[i].reg \notin Body /\ ws[i].reg \notin Params \cup {"times", "count"}
  <2>1. ASSUME NEW i \in 1 .. Len(ws) PROVE ws[i] \in Items(ws)
    BY DEF Items
  <2> QED
    BY <2>1, <1>2 DEF Body, Heads
<1>4. PICK p, ts : Queue(<<>>, p, ts)
  BY EmptyQueue
<1>5. Queue(ws, p, ts)
  <2>1. Right(ws, p, ts)
    BY <1>3 DEF Right
  <2>2. Closed(ws, p)
    BY <1>3, ToFields DEF Closed
  <2>3. Complete(ws)
    BY <1>2 DEF Complete
  <2>4. Last(ws) /\ First(ws)
    BY <1>3 DEF Last, First
  <2> QED
    BY <1>4, <2>1, <2>2, <2>3, <2>4 DEF Queue
<1>6. Waits(ws, ctrl.init) /\ Holds(ws) /\ Empties(ws)
  BY DEF Waits, Holds, Empties
<1>7. ~Pending(ws, "save")
  BY <1>1 DEF Pending
<1> QED
  BY <1>1, <1>2, <1>5, <1>6, <1>7, CallTaken

LEMMA MakeTaken ==
  ASSUME Typed, Registers, NEW a \in Calls, Make(a), UNCHANGED history
  PROVE  Typed' /\ Registers'
<1> DEFINE p  == Filled(a)
           ts == a.times
           ws == Program(p, ts)
<1>1. Good(p, ts)
  <2>1. ts \in Seq(Nat) /\ ts # <<>> /\ \A f \in Params : a[f] \in Nat \cup {None}
    BY W7xAssumption
  <2> QED
    BY <2>1, FilledGood DEF Make
<1>2. Call(ws)
  BY DEF Make
<1> HIDE DEF p, ts
<1>3. /\ ws \in Seq(Stores) /\ Len(ws) = 9
      /\ ws[1] = To("count", 0) /\ ws[2] = To("delay", p.delay) /\ ws[3] = To("width", p.width)
      /\ ws[4] = To("period", p.period) /\ ws[5] = To("burst", p.burst)
      /\ ws[6] = To("cycle", p.cycle) /\ ws[7] = To("repeat", p.repeat)
      /\ ws[8] = To("times", ts) /\ ws[9] = To("count", p.count)
  <2>1. p \in [Heads -> Nat] /\ ts \in Seq(Nat)
    BY <1>1 DEF Good
  <2>2. ws = Program(p, ts)
    OBVIOUS
  <2> HIDE DEF ws
  <2>3. /\ Program(p, ts) \in Seq(Stores) /\ Len(Program(p, ts)) = 9
        /\ Program(p, ts)[1] = To("count", 0) /\ Program(p, ts)[2] = To("delay", p.delay)
        /\ Program(p, ts)[3] = To("width", p.width) /\ Program(p, ts)[4] = To("period", p.period)
        /\ Program(p, ts)[5] = To("burst", p.burst) /\ Program(p, ts)[6] = To("cycle", p.cycle)
        /\ Program(p, ts)[7] = To("repeat", p.repeat) /\ Program(p, ts)[8] = To("times", ts)
        /\ Program(p, ts)[9] = To("count", p.count)
    BY ONLY <2>1, ProgramItems
  <2> QED
    BY ONLY <2>2, <2>3
<1> HIDE DEF ws
<1>4. /\ ws[0 + 1] = To("count", 0) /\ ws[0 + 2] = To("delay", p.delay)
      /\ ws[0 + 3] = To("width", p.width) /\ ws[0 + 4] = To("period", p.period)
      /\ ws[0 + 5] = To("burst", p.burst) /\ ws[0 + 6] = To("cycle", p.cycle)
      /\ ws[0 + 7] = To("repeat", p.repeat) /\ ws[0 + 8] = To("times", ts)
      /\ ws[0 + 9] = To("count", p.count)
  BY <1>3
<1>5. 0 \in Nat /\ Len(ws) >= 0 + 9
  BY <1>3
<1>6. \A i \in 1 .. Len(ws) : i \notin 0 + 1 .. 0 + 9 => ws[i].reg \notin Body
  BY <1>3
<1>7. Queue(ws, p, ts) /\ To("count", 0) \in Items(ws)
  BY <1>1, <1>3, <1>4, <1>5, <1>6, ProgramQueue
<1>8. \A i \in 1 .. Len(ws) : ws[i].reg \in Body
  <2> SUFFICES ASSUME NEW i \in 1 .. Len(ws) PROVE ws[i].reg \in Body
    OBVIOUS
  <2>1. i = 1 \/ i = 2 \/ i = 3 \/ i = 4 \/ i = 5 \/ i = 6 \/ i = 7 \/ i = 8 \/ i = 9
    BY <1>3
  <2> QED
    BY <2>1, <1>3, ToFields, Names
<1>9. \A i \in 1 .. Len(ws) : ws[i].reg \notin {"idle", "init", "save", "reinit"}
  BY <1>8, Names
<1>10. \A v \in Items(ws) : v.reg \notin {"idle", "init", "save", "reinit"}
  BY <1>9 DEF Items
<1>11. Waits(ws, ctrl.init) /\ Holds(ws) /\ Empties(ws)
  BY <1>9 DEF Waits, Holds, Empties
<1>12. ~Pending(ws, "save") /\ \A v \in Items(ws) : ~Resets(v)
  BY <1>10, ToFields DEF Pending, Resets
<1> QED
  BY <1>2, <1>3, <1>7, <1>11, <1>12, CallTaken

LEMMA ReinitTaken ==
  ASSUME Typed, Registers, NEW d \in ReinitDelays, Reinit(d), UNCHANGED history
  PROVE  Typed' /\ Registers'
<1> DEFINE p  == Filled(Bare(d))
           ts == <<0>>
           ws == Reset(d)
<1>1. Good(p, ts) /\ p.repeat = 0
  BY BareGood
<1>2. Call(ws)
  BY DEF Reinit, Reset, Closing, Bare
<1>3. /\ ws \in Seq(Stores) /\ Len(ws) = 15
      /\ ws[1] = To("init", 0) /\ ws[2] = To("idle", 0)
      /\ \A k \in 1 .. 9 : ws[k + 2] = Program(p, ts)[k]
      /\ ws[12] = To("save", 1) /\ ws[13] = To("clear", 1)
      /\ ws[14] = To("reinit", 1) /\ ws[15] = To("init", 1)
  BY ResetItems
<1> HIDE DEF p, ts, ws
<1>4. /\ ws[2 + 1] = To("count", 0) /\ ws[2 + 2] = To("delay", p.delay)
      /\ ws[2 + 3] = To("width", p.width) /\ ws[2 + 4] = To("period", p.period)
      /\ ws[2 + 5] = To("burst", p.burst) /\ ws[2 + 6] = To("cycle", p.cycle)
      /\ ws[2 + 7] = To("repeat", p.repeat) /\ ws[2 + 8] = To("times", ts)
      /\ ws[2 + 9] = To("count", p.count)
  <2>1. /\ ws[1 + 2] = Program(p, ts)[1] /\ ws[2 + 2] = Program(p, ts)[2]
        /\ ws[3 + 2] = Program(p, ts)[3] /\ ws[4 + 2] = Program(p, ts)[4]
        /\ ws[5 + 2] = Program(p, ts)[5] /\ ws[6 + 2] = Program(p, ts)[6]
        /\ ws[7 + 2] = Program(p, ts)[7] /\ ws[8 + 2] = Program(p, ts)[8]
        /\ ws[9 + 2] = Program(p, ts)[9]
    <3>1. /\ 1 \in 1 .. 9 /\ 2 \in 1 .. 9 /\ 3 \in 1 .. 9 /\ 4 \in 1 .. 9 /\ 5 \in 1 .. 9
          /\ 6 \in 1 .. 9 /\ 7 \in 1 .. 9 /\ 8 \in 1 .. 9 /\ 9 \in 1 .. 9
      OBVIOUS
    <3> QED
      BY <3>1, <1>3
  <2>2. /\ Program(p, ts)[1] = To("count", 0) /\ Program(p, ts)[2] = To("delay", p.delay)
        /\ Program(p, ts)[3] = To("width", p.width) /\ Program(p, ts)[4] = To("period", p.period)
        /\ Program(p, ts)[5] = To("burst", p.burst) /\ Program(p, ts)[6] = To("cycle", p.cycle)
        /\ Program(p, ts)[7] = To("repeat", p.repeat) /\ Program(p, ts)[8] = To("times", ts)
        /\ Program(p, ts)[9] = To("count", p.count)
    BY <1>1, ProgramItems DEF Good
  <2> QED
    BY <2>1, <2>2
<1>5. 2 \in Nat /\ Len(ws) >= 2 + 9
  BY <1>3
<1>6. /\ ws[1].reg = "init" /\ ws[2].reg = "idle" /\ ws[12].reg = "save"
      /\ ws[13].reg = "clear" /\ ws[14].reg = "reinit" /\ ws[15].reg = "init"
  BY <1>3, ToFields
<1>7. /\ ws[3].reg = "count" /\ ws[4].reg = "delay" /\ ws[5].reg = "width"
      /\ ws[6].reg = "period" /\ ws[7].reg = "burst" /\ ws[8].reg = "cycle"
      /\ ws[9].reg = "repeat" /\ ws[10].reg = "times" /\ ws[11].reg = "count"
  BY <1>4, ToFields
<1>8. ASSUME NEW i \in 1 .. Len(ws)
      PROVE  \/ i = 1 \/ i = 2 \/ i = 3 \/ i = 4 \/ i = 5 \/ i = 6 \/ i = 7 \/ i = 8
             \/ i = 9 \/ i = 10 \/ i = 11 \/ i = 12 \/ i = 13 \/ i = 14 \/ i = 15
  BY <1>3
<1>9. \A i \in 1 .. Len(ws) : i \notin 2 + 1 .. 2 + 9 => ws[i].reg \notin Body
  <2> SUFFICES ASSUME NEW i \in 1 .. Len(ws), i \notin 2 + 1 .. 2 + 9 PROVE ws[i].reg \notin Body
    OBVIOUS
  <2>1. i = 1 \/ i = 2 \/ i = 12 \/ i = 13 \/ i = 14 \/ i = 15
    BY <1>8
  <2> QED
    BY <2>1, <1>6, Names
<1>10. /\ Queue(ws, p, ts) /\ To("count", 0) \in Items(ws)
       /\ \A i \in 1 .. Len(ws) : ws[i].reg = "repeat" => ws[i].val = p.repeat
  <2> DEFINE o == 2
  <2>1. /\ ws[o + 1] = To("count", 0) /\ ws[o + 2] = To("delay", p.delay)
        /\ ws[o + 3] = To("width", p.width) /\ ws[o + 4] = To("period", p.period)
        /\ ws[o + 5] = To("burst", p.burst) /\ ws[o + 6] = To("cycle", p.cycle)
        /\ ws[o + 7] = To("repeat", p.repeat) /\ ws[o + 8] = To("times", ts)
        /\ ws[o + 9] = To("count", p.count)
    BY <1>4
  <2>2. o \in Nat /\ Len(ws) >= o + 9
    BY <1>5
  <2>3. \A i \in 1 .. Len(ws) : i \notin o + 1 .. o + 9 => ws[i].reg \notin Body
    BY <1>9
  <2> HIDE DEF o
  <2>4. Good(p, ts)
    BY <1>1
  <2>5. ws \in Seq(Stores)
    BY <1>3
  <2>6. /\ Queue(ws, p, ts) /\ To("count", 0) \in Items(ws)
        /\ \A i \in 1 .. Len(ws) : ws[i].reg = "repeat" => i = o + 7 /\ ws[i].val = p.repeat
    BY <2>1, <2>2, <2>3, <2>4, <2>5, ProgramQueue
  <2> QED
    BY <2>6
<1>11. /\ \A i \in 1 .. Len(ws) : ws[i].reg = "idle" => i = 2
       /\ \A i \in 1 .. Len(ws) : ws[i].reg = "init" => i = 1 \/ i = 15
       /\ \A i \in 1 .. Len(ws) : ws[i].reg = "save" => i = 12
       /\ \A i \in 1 .. Len(ws) : ws[i].reg = "repeat" => i = 9
  BY <1>6, <1>7, <1>8
<1>12. Waits(ws, ctrl.init)
  BY <1>3, <1>11 DEF Waits
<1>13. Holds(ws)
  <2>1. 2 \in 1 .. Len(ws)
    BY <1>3
  <2>2. ASSUME NEW i \in 1 .. Len(ws), NEW j \in 1 .. Len(ws), i < j, ws[i].reg = "init"
        PROVE  i = 1
    BY <2>2, <1>3, <1>11
  <2> QED
    BY <2>1, <2>2, <1>6 DEF Holds
<1>14. Empties(ws)
  BY <1>1, <1>10, <1>11 DEF Empties
<1>15. Pending(ws, "idle") /\ Pending(ws, "repeat")
  <2>1. 2 \in 1 .. Len(ws) /\ 9 \in 1 .. Len(ws)
    BY <1>3
  <2>2. ws[2] \in Items(ws) /\ ws[9] \in Items(ws)
    BY <2>1 DEF Items
  <2> QED
    BY <2>2, <1>6, <1>7 DEF Pending
<1> QED
  BY <1>2, <1>3, <1>10, <1>12, <1>13, <1>14, <1>15, CallTaken

LEMMA CallStep ==
  ASSUME Typed, Registers, SchedCall PROVE Typed' /\ Registers'
<1>1. UNCHANGED history
  BY DEF SchedCall
<1>2. CASE \E a \in Calls : Make(a)
  BY <1>1, <1>2, MakeTaken
<1>3. CASE \E d \in ReinitDelays : Reinit(d)
  BY <1>1, <1>3, ReinitTaken
<1>4. /\ To("clear", 1) \in Stores /\ To("init", 1) \in Stores /\ To("init", 0) \in Stores
      /\ To("trig", 1) \in Stores /\ To("reinit", 0) \in Stores
  BY DEF To, Stores, Bits
<1>5. To("clear", 1).reg = "clear" /\ To("init", 1).reg = "init" /\ To("init", 0).reg = "init"
      /\ To("trig", 1).reg = "trig" /\ To("reinit", 0).reg = "reinit" /\ To("reinit", 0).val = 0
  BY ToFields
<1>6. /\ ~Resets(To("clear", 1)) /\ ~Resets(To("init", 1)) /\ ~Resets(To("init", 0))
      /\ ~Resets(To("trig", 1)) /\ ~Resets(To("reinit", 0))
  BY <1>5, ToFields DEF Resets
<1>7. CASE Arm
  <2> DEFINE ws == <<To("clear", 1), To("init", 1)>>
  <2>1. ws \in Seq(Stores) /\ Call(ws)
    BY <1>4, <1>7 DEF Arm
  <2>2. ASSUME NEW i \in 1 .. Len(ws)
        PROVE  ws[i].reg \in {"init", "trig", "clear", "reinit"} /\ ~Resets(ws[i])
    BY <1>5, <1>6
  <2> QED
    BY <1>1, <2>1, <2>2, PlainTaken
<1>8. CASE Disarm
  <2> DEFINE ws == <<To("init", 0)>>
  <2>1. ws \in Seq(Stores) /\ Call(ws)
    BY <1>4, <1>8 DEF Disarm
  <2>2. ASSUME NEW i \in 1 .. Len(ws)
        PROVE  ws[i].reg \in {"init", "trig", "clear", "reinit"} /\ ~Resets(ws[i])
    BY <1>5, <1>6
  <2> QED
    BY <1>1, <2>1, <2>2, PlainTaken
<1>9. CASE Trig
  <2> DEFINE ws == <<To("trig", 1)>>
  <2>1. ws \in Seq(Stores) /\ Call(ws)
    BY <1>4, <1>9 DEF Trig
  <2>2. ASSUME NEW i \in 1 .. Len(ws)
        PROVE  ws[i].reg \in {"init", "trig", "clear", "reinit"} /\ ~Resets(ws[i])
    BY <1>5, <1>6
  <2> QED
    BY <1>1, <2>1, <2>2, PlainTaken
<1>10. CASE ReinitOff
  <2> DEFINE ws == <<To("reinit", 0), To("init", 0)>>
  <2>1. ws \in Seq(Stores) /\ Call(ws)
    BY <1>4, <1>10 DEF ReinitOff
  <2>2. ASSUME NEW i \in 1 .. Len(ws)
        PROVE  ws[i].reg \in {"init", "trig", "clear", "reinit"} /\ ~Resets(ws[i])
    BY <1>5, <1>6
  <2> QED
    BY <1>1, <2>1, <2>2, PlainTaken
<1> QED
  BY <1>2, <1>3, <1>7, <1>8, <1>9, <1>10 DEF SchedCall

-----------------------------------------------------------------------------
(* The place in a cycle, x ticks from its start: what the counters of f    *)
(* say of it, and what the memory delivers, s.                             *)
Next0(h, f) == IF f.sample_count < h.count THEN f.sample_count ELSE 0

InPulse(h, t, f, x) ==
  /\ f.sample_count \in 1 .. h.count /\ f.burst_count \in 1 .. h.burst
  /\ f.period_ticks \in IF f.state = "WAITING_HIGH" THEN 1 .. h.width ELSE h.width + 1 .. h.period
  /\ x = t[f.sample_count - 1] + (f.burst_count - 1) * h.period + f.period_ticks - 1
InWait(h, t, f, x) ==
  /\ f.sample_count \in 0 .. h.count - 1 /\ x < t[f.sample_count]
  /\ f.sample_count > 0 => x >= t[f.sample_count - 1] + Train(h)
InPause(h, t, f, x) ==
  f.sample_count = h.count /\ x >= t[h.count - 1] + Train(h) /\ x < h.cycle

InCycle(h, t, f, x, s) ==
  /\ x \in Nat /\ f.cycle_ticks = x + 1
  /\ f.state # "WAITING_HIGH" => s = t[Next0(h, f)]
  /\ \/ f.state \in {"WAITING_HIGH", "WAITING_LOW"} /\ InPulse(h, t, f, x)
     \/ f.state = "WAITING_SAMPLE" /\ InWait(h, t, f, x)
     \/ f.state = "WAITING_REPEAT" /\ InPause(h, t, f, x)

(* The cycle it is in.                                                     *)
Round(f)       == IF f.state = "WAITING_REPEAT" THEN f.repeat_count - 2 ELSE f.repeat_count - 1
StartOf(h, r)  == h.delay + r * h.cycle
InShot(h, t, f, e, s) ==
  /\ Sound(h) /\ Valid(h, t)
  /\ Round(f) \in Nat /\ f.repeat_count <= h.repeat
  /\ InCycle(h, t, f, e - StartOf(h, Round(f)), s)

Shots ==
  /\ fsm.state \in {"ARMED", "WAITING_DELAY"} => fsm.sample_count = 0
  /\ fsm.state = "WAITING_DELAY" =>
       /\ fsm.cycle_ticks = elapsed + 1 /\ fsm.repeat_count = 1
       /\ ~excused => fsm.cycle_ticks <= head.delay
  /\ Pulsing /\ ~excused => InShot(head, times, fsm, elapsed, sample)

-----------------------------------------------------------------------------
(* The outcomes of the procedures, field by field.                         *)
LEMMA ArmedFields ==
  ASSUME NEW f \in Signals
  PROVE  /\ StartArmed(f).state = "ARMED" /\ StartArmed(f).sample_count = 0
         /\ StartArmed(f).error = f.error
         /\ \A e \in States : DoError(f, e).state = "ARMED" /\ DoError(f, e).sample_count = 0
<1>1. \A g \in Signals : /\ StartArmed(g).state = "ARMED" /\ StartArmed(g).sample_count = 0
                         /\ StartArmed(g).error = g.error
  BY DEF StartArmed, Signals
<1>2. \A e \in States : [f EXCEPT !.error = e] \in Signals
  BY DEF Signals
<1> QED
  BY <1>1, <1>2 DEF DoError

LEMMA CycleFields ==
  ASSUME NEW f \in Signals
  PROVE  LET g == StartCycle(f)
         IN  /\ g.repeat_count = f.repeat_count /\ g.error = f.error /\ g.cycle_ticks = 1
             /\ sample = 0 => /\ g.state = "WAITING_HIGH" /\ g.sample_count = 1
                              /\ g.burst_count = 1 /\ g.period_ticks = 1
             /\ sample # 0 => g.state = "WAITING_SAMPLE" /\ g.sample_count = 0
  BY DEF StartCycle, StartBurst, StartSample, Signals

LEMMA SampleFields ==
  ASSUME NEW f \in Signals, sample \in Nat, f.cycle_ticks <= sample
  PROVE  LET g == DoWaitingSample(f)
         IN  /\ g.repeat_count = f.repeat_count /\ g.error = f.error
             /\ g.cycle_ticks = f.cycle_ticks + 1
             /\ f.cycle_ticks = sample =>
                  /\ g.state = "WAITING_HIGH" /\ g.sample_count = f.sample_count + 1
                  /\ g.burst_count = 1 /\ g.period_ticks = 1
             /\ f.cycle_ticks < sample =>
                  g.state = "WAITING_SAMPLE" /\ g.sample_count = f.sample_count
<1>1. f.cycle_ticks \in Nat
  BY PutType, StateNames
<1>2. CASE f.cycle_ticks = sample
  <2>1. DoWaitingSample(f) = IncCycle(StartBurst(f, f.sample_count))
    BY <1>2 DEF DoWaitingSample
  <2> QED
    BY <1>1, <1>2, <2>1 DEF IncCycle, StartBurst, StartSample, Signals
<1>3. CASE f.cycle_ticks < sample
  <2>1. DoWaitingSample(f) = IncCycle([f EXCEPT !.state = "WAITING_SAMPLE"])
    BY <1>1, <1>3 DEF DoWaitingSample
  <2> QED
    BY <1>1, <1>3, <2>1 DEF IncCycle, Signals
<1> QED
  BY <1>1, <1>2, <1>3

LEMMA RepeatFields ==
  ASSUME NEW f \in Signals, head.cycle \in Nat, f.cycle_ticks <= head.cycle
  PROVE  LET g == DoWaitingRepeat(f)
         IN  /\ f.cycle_ticks = head.cycle => g = StartCycle(f)
             /\ f.cycle_ticks < head.cycle =>
                  /\ g.state = "WAITING_REPEAT" /\ g.cycle_ticks = f.cycle_ticks + 1
                  /\ g.sample_count = f.sample_count /\ g.repeat_count = f.repeat_count
                  /\ g.error = f.error
<1>1. f.cycle_ticks \in Nat
  BY PutType, StateNames
<1>2. CASE f.cycle_ticks = head.cycle
  BY <1>2, <1>1 DEF DoWaitingRepeat
<1>3. CASE f.cycle_ticks < head.cycle
  <2>1. DoWaitingRepeat(f) = IncCycle([f EXCEPT !.state = "WAITING_REPEAT"])
    BY <1>1, <1>3 DEF DoWaitingRepeat
  <2> QED
    BY <1>1, <1>3, <2>1 DEF IncCycle, Signals
<1> QED
  BY <1>1, <1>2, <1>3

LEMMA HighFields ==
  ASSUME NEW f \in Signals, head.width \in Nat, f.period_ticks <= head.width
  PROVE  LET g == DoWaitingHigh(f)
         IN  /\ g.state = (IF f.period_ticks = head.width THEN "WAITING_LOW" ELSE "WAITING_HIGH")
             /\ g.period_ticks = f.period_ticks + 1 /\ g.cycle_ticks = f.cycle_ticks + 1
             /\ g.sample_count = f.sample_count /\ g.repeat_count = f.repeat_count
             /\ g.burst_count = f.burst_count /\ g.error = f.error
<1>1. f.period_ticks \in Nat /\ f.cycle_ticks \in Nat
  BY PutType, StateNames
<1> DEFINE st == IF f.period_ticks = head.width THEN "WAITING_LOW" ELSE "WAITING_HIGH"
<1>2. DoWaitingHigh(f) = IncPeriod([f EXCEPT !.state = st])
  BY <1>1 DEF DoWaitingHigh
<1> HIDE DEF st
<1>3. LET g == DoWaitingHigh(f)
      IN  /\ g.state = st
          /\ g.period_ticks = f.period_ticks + 1 /\ g.cycle_ticks = f.cycle_ticks + 1
          /\ g.sample_count = f.sample_count /\ g.repeat_count = f.repeat_count
          /\ g.burst_count = f.burst_count /\ g.error = f.error
  BY <1>1, <1>2 DEF IncPeriod, IncCycle, Signals
<1> QED
  BY <1>3 DEF st

(* In the middle of a period; at its end; with the last of a burst.        *)
LEMMA LowFields ==
  ASSUME NEW f \in Signals, head \in [Heads -> Nat], f.period_ticks <= head.period,
         f.burst_count <= head.burst
  PROVE  LET g == DoWaitingLow(f)
         IN  /\ f.period_ticks < head.period =>
                  /\ g.state = "WAITING_LOW" /\ g.period_ticks = f.period_ticks + 1
                  /\ g.cycle_ticks = f.cycle_ticks + 1 /\ g.sample_count = f.sample_count
                  /\ g.repeat_count = f.repeat_count /\ g.burst_count = f.burst_count
                  /\ g.error = f.error
             /\ f.period_ticks = head.period /\ f.burst_count < head.burst =>
                  /\ g.state = "WAITING_HIGH" /\ g.period_ticks = 1
                  /\ g.cycle_ticks = f.cycle_ticks + 1 /\ g.sample_count = f.sample_count
                  /\ g.repeat_count = f.repeat_count /\ g.burst_count = f.burst_count + 1
                  /\ g.error = f.error
             /\ f.period_ticks = head.period /\ f.burst_count = head.burst =>
                  g = StartWaitingSample(f)
<1>1. /\ f.period_ticks \in Nat /\ f.cycle_ticks \in Nat /\ f.burst_count \in Nat
      /\ head.period \in Nat /\ head.burst \in Nat
  BY PutType, StateNames, HeadFields
<1>2. CASE f.period_ticks < head.period
  <2>1. DoWaitingLow(f) = IncPeriod([f EXCEPT !.state = "WAITING_LOW"])
    BY <1>1, <1>2 DEF DoWaitingLow
  <2> QED
    BY <1>1, <1>2, <2>1 DEF IncPeriod, IncCycle, Signals
<1>3. CASE f.period_ticks = head.period /\ f.burst_count < head.burst
  <2>1. DoWaitingLow(f) = IncCycle(StartSample([f EXCEPT !.burst_count = @ + 1]))
    BY <1>1, <1>3 DEF DoWaitingLow
  <2> QED
    BY <1>1, <1>3, <2>1 DEF IncCycle, StartSample, Signals
<1>4. CASE f.period_ticks = head.period /\ f.burst_count = head.burst
  BY <1>1, <1>4 DEF DoWaitingLow
<1> QED
  BY <1>1, <1>2, <1>3, <1>4

-----------------------------------------------------------------------------
(* Arithmetic of cycles and bursts.                                        *)
LEMMA MulStep ==
  ASSUME NEW a \in Nat, NEW c \in Nat
  PROVE  (a + 1) * c = a * c + c /\ a * c \in Nat /\ 0 * c = 0
  OBVIOUS

LEMMA MulMono ==
  ASSUME NEW a \in Nat, NEW b \in Nat, NEW c \in Nat, a < b
  PROVE  a * c + c <= b * c /\ a * c \in Nat /\ b * c \in Nat
<1>1. PICK d \in Nat : b = (a + 1) + d
  <2>1. b - (a + 1) \in Nat /\ b = (a + 1) + (b - (a + 1))
    OBVIOUS
  <2> QED
    BY <2>1
<1>2. \A u, v \in Nat : (u + v) * c = u * c + v * c /\ v * c \in Nat
  OBVIOUS
<1>3. b * c = (a + 1) * c + d * c /\ d * c \in Nat
  BY <1>1, <1>2
<1> QED
  BY <1>2, <1>3, MulStep

LEMMA TrainType ==
  ASSUME NEW h \in [Heads -> Nat] PROVE Train(h) \in Nat
<1>1. \A a, b \in Nat : a * b \in Nat
  OBVIOUS
<1> QED
  BY <1>1, HeadFields DEF Train

(* Every burst of a valid program ends before the next begins.             *)
LEMMA TimesApart ==
  ASSUME NEW h \in [Heads -> Nat], NEW t \in [0 .. MaxSamples - 1 -> Nat], Valid(h, t)
  PROVE  /\ \A i \in 0 .. h.count - 1 : t[i] \in Nat
         /\ \A j \in 0 .. h.count - 1 : \A i \in 0 .. j - 1 : t[i] + Train(h) <= t[j]
<1>1. h.count \in Nat /\ h.count <= MaxSamples /\ MaxSamples \in Nat /\ Train(h) \in Nat
  BY HeadFields, TrainType, W7xAssumption DEF Valid
<1>2. \A i \in 0 .. h.count - 1 : t[i] \in Nat
  BY <1>1
<1> DEFINE bad == {j \in 0 .. h.count - 1 : \E i \in 0 .. j - 1 : ~(t[i] + Train(h) <= t[j])}
           R   == OpToRel(<, Nat)
<1>3. ASSUME bad # {} PROVE FALSE
  <2>1. \A u, v \in Nat : <<v, u>> \in R <=> v < u
    BY DEF OpToRel
  <2>2. bad \in SUBSET Nat
    BY <1>1
  <2>3. PICK j \in bad : \A k \in bad : ~ (<<k, j>> \in R)
    <3>1. IsWellFoundedOn(R, Nat)
      BY NatLessThanWellFounded, Zenon
    <3> HIDE DEF R, bad
    <3> QED
      BY <3>1, <2>2, <1>3, WFMin
  <2> HIDE DEF R
  <2>4. \A k \in bad : ~(k < j)
    <3> HIDE DEF bad
    <3> QED
      BY <2>1, <2>2, <2>3, Zenon
  <2>5. j \in 0 .. h.count - 1
    OBVIOUS
  <2>6. PICK i \in 0 .. j - 1 : ~(t[i] + Train(h) <= t[j])
    OBVIOUS
  <2>7. j - 1 \in 0 .. h.count - 1 /\ j \in 1 .. h.count - 1 /\ j - 1 < j
    BY <1>1, <2>5, <2>6
  <2>8. t[j] >= t[j - 1] + Train(h)
    BY <2>7 DEF Valid
  <2>9. i # j - 1
    BY <2>6, <2>8, <1>1, <1>2, <2>5, <2>7
  <2>10. i \in 0 .. (j - 1) - 1 /\ i \in 0 .. h.count - 1
    BY <2>9, <2>6, <2>7, <1>1
  <2>11. j - 1 \notin bad
    BY <2>4, <2>7
  <2>12. t[i] + Train(h) <= t[j - 1]
    BY <2>10, <2>11, <2>7
  <2>13. t[i] \in Nat /\ t[j] \in Nat /\ t[j - 1] \in Nat
    BY <1>2, <2>10, <2>7, <2>5
  <2> HIDE DEF bad
  <2> QED
    BY <2>13, <2>12, <2>8, <2>6, <1>1
<1>4. \A j \in 0 .. h.count - 1 : \A i \in 0 .. j - 1 : t[i] + Train(h) <= t[j]
  BY <1>3
<1> QED
  BY <1>2, <1>4

(* Where a pulse is: within its period, within its burst.                  *)
LEMMA PulseFields ==
  ASSUME NEW h \in [Heads -> Nat], NEW t \in [0 .. MaxSamples - 1 -> Nat], Valid(h, t),
         NEW f \in Signals, NEW x, InPulse(h, t, f, x)
  PROVE  /\ f.sample_count - 1 \in 0 .. h.count - 1 /\ t[f.sample_count - 1] \in Nat
         /\ f.burst_count - 1 \in Nat /\ f.burst_count <= h.burst
         /\ (f.burst_count - 1) * h.period \in Nat
         /\ (f.burst_count - 1) * h.period + h.period = f.burst_count * h.period
         /\ f.burst_count * h.period \in Nat /\ f.burst_count * h.period <= Train(h)
         /\ f.period_ticks \in 1 .. h.period
<1>1. /\ f.sample_count \in Nat /\ f.burst_count \in Nat /\ f.period_ticks \in Nat
      /\ h.count \in Nat /\ h.burst \in Nat /\ h.period \in Nat /\ h.width \in Nat /\ h.width < h.period
  BY PutType, StateNames, HeadFields DEF Valid
<1>2. f.sample_count \in 1 .. h.count /\ f.burst_count \in 1 .. h.burst
  BY DEF InPulse
<1>3. f.sample_count - 1 \in 0 .. h.count - 1 /\ f.burst_count - 1 \in Nat /\ f.burst_count <= h.burst
  BY <1>1, <1>2
<1>4. f.period_ticks \in 1 .. h.period
  <2>1. f.period_ticks \in IF f.state = "WAITING_HIGH" THEN 1 .. h.width ELSE h.width + 1 .. h.period
    BY DEF InPulse
  <2>2. PICK u, w, p : u = f.period_ticks /\ w = h.width /\ p = h.period
    OBVIOUS
  <2>3. w \in Nat /\ p \in Nat /\ w < p /\ (u \in 1 .. w \/ u \in w + 1 .. p)
    BY <1>1, <2>1, <2>2
  <2>4. u \in 1 .. p
    BY ONLY <2>3
  <2> QED
    BY ONLY <2>2, <2>4
<1>5. t[f.sample_count - 1] \in Nat
  BY <1>3, TimesApart
<1> DEFINE b == f.burst_count - 1
<1>6. b \in Nat /\ f.burst_count = b + 1
  BY <1>3, <1>1
<1>7. b * h.period \in Nat /\ b * h.period + h.period = f.burst_count * h.period
  <2>1. PICK c, n : c = h.period /\ n = f.burst_count
    OBVIOUS
  <2>2. c \in Nat /\ b \in Nat /\ n = b + 1
    BY <1>1, <1>6, <2>1
  <2> HIDE DEF b
  <2>3. b * c \in Nat /\ b * c + c = n * c
    BY ONLY <2>2, MulStep
  <2> QED
    BY ONLY <2>1, <2>3
<1>8. f.burst_count * h.period \in Nat /\ f.burst_count * h.period <= Train(h)
  <2>1. b < h.burst
    BY <1>6, <1>3, <1>1
  <2>2. b * h.period + h.period <= h.burst * h.period
    BY <2>1, <1>6, <1>1, MulMono
  <2> QED
    BY <2>2, <1>7, <1>1 DEF Train
<1> QED
  BY <1>3, <1>4, <1>5, <1>7, <1>8

(* Within a cycle, and whether within its last burst.                      *)
(* The last time is not before any other.                                  *)
LEMMA LastTime ==
  ASSUME NEW h \in [Heads -> Nat], NEW t \in [0 .. MaxSamples - 1 -> Nat], Valid(h, t),
         NEW c \in 0 .. h.count - 1
  PROVE  t[c] \in Nat /\ t[h.count - 1] \in Nat /\ t[c] <= t[h.count - 1]
<1>1. h.count \in Nat \ {0}
  BY W7xAssumption, HeadFields DEF Valid
<1>2. h.count - 1 \in 0 .. h.count - 1
  BY <1>1
<1>3. t[c] \in Nat /\ t[h.count - 1] \in Nat /\ Train(h) \in Nat
  BY <1>2, TimesApart, TrainType
<1>4. CASE c = h.count - 1
  BY <1>3, <1>4
<1>5. CASE c # h.count - 1
  <2>1. c \in 0 .. (h.count - 1) - 1
    BY <1>1, <1>5
  <2>2. t[c] + Train(h) <= t[h.count - 1]
    BY <2>1, <1>2, TimesApart
  <2> QED
    BY <1>3, <2>2
<1> QED
  BY <1>4, <1>5

LEMMA CycleBound ==
  ASSUME NEW h \in [Heads -> Nat], NEW t \in [0 .. MaxSamples - 1 -> Nat], Valid(h, t),
         NEW f \in Signals, NEW x, NEW s, InCycle(h, t, f, x, s)
  PROVE  /\ x < h.cycle /\ x + 1 <= MaxTime
         /\ f.state # "WAITING_REPEAT" => x < t[h.count - 1] + Train(h)
         /\ f.state = "WAITING_REPEAT" => x >= t[h.count - 1] + Train(h)
<1> DEFINE T == Train(h)
           e == t[h.count - 1]
<1>1. T \in Nat /\ e \in Nat /\ x \in Nat /\ h.cycle \in Nat /\ MaxTime \in Nat
  <2>1. h.count - 1 \in 0 .. h.count - 1
    <3>1. h.count \in 1 .. MaxSamples /\ MaxSamples \in Nat
      BY W7xAssumption DEF Valid
    <3> QED
      BY ONLY <3>1
  <2> QED
    BY <2>1, LastTime, TrainType, HeadFields, W7xAssumption DEF InCycle
<1>2. h.cycle >= e + T /\ h.cycle <= MaxTime
  BY DEF Valid
<1>3. x < h.cycle => x + 1 <= MaxTime
  BY <1>1, <1>2
<1>4. x < e + T => x < h.cycle
  BY <1>1, <1>2
<1>5. CASE f.state \in {"WAITING_HIGH", "WAITING_LOW"} /\ InPulse(h, t, f, x)
  <2>1. PICK c, u, v : /\ c = f.sample_count - 1 /\ u = (f.burst_count - 1) * h.period
                       /\ v = f.burst_count * h.period
    OBVIOUS
  <2>2. c \in 0 .. h.count - 1 /\ f.period_ticks \in 1 .. h.period /\ h.period \in Nat
    BY <1>5, <2>1, PulseFields, HeadFields
  <2>3. u \in Nat /\ v \in Nat /\ u + h.period = v /\ v <= T
    BY <1>5, <2>1, PulseFields
  <2>4. x = t[c] + u + f.period_ticks - 1
    BY <1>5, <2>1 DEF InPulse
  <2>5. t[c] \in Nat /\ t[c] <= e
    BY <2>2, LastTime
  <2> HIDE DEF T, e
  <2>6. x < e + T
    <3>1. PICK a, p, k : a = t[c] /\ p = h.period /\ k = f.period_ticks
      OBVIOUS
    <3>2. a \in Nat /\ a <= e /\ p \in Nat /\ k \in 1 .. p /\ u \in Nat /\ v \in Nat
      BY ONLY <2>2, <2>3, <2>5, <3>1
    <3>3. u + p = v /\ v <= T /\ x = a + u + k - 1
      BY ONLY <2>3, <2>4, <3>1
    <3>4. T \in Nat /\ e \in Nat /\ x \in Nat
      BY ONLY <1>1
    <3> QED
      BY ONLY <3>2, <3>3, <3>4
  <2> QED
    BY <1>3, <1>4, <1>5, <2>6 DEF T, e
<1>6. CASE f.state = "WAITING_SAMPLE" /\ InWait(h, t, f, x)
  <2>1. PICK c : c = f.sample_count
    OBVIOUS
  <2>2. c \in 0 .. h.count - 1 /\ x < t[c]
    BY <1>6, <2>1 DEF InWait
  <2>3. t[c] \in Nat /\ t[c] <= e
    BY <2>2, LastTime
  <2> HIDE DEF T, e
  <2>4. x < e + T
    BY ONLY <1>1, <2>2, <2>3
  <2> QED
    BY <1>3, <1>4, <1>6, <2>4 DEF T, e
<1>7. CASE f.state = "WAITING_REPEAT" /\ InPause(h, t, f, x)
  <2>1. x >= t[h.count - 1] + Train(h) /\ x < h.cycle
    BY <1>7 DEF InPause
  <2> QED
    BY <2>1, <1>3, <1>7
<1> QED
  BY <1>5, <1>6, <1>7 DEF InCycle

(* A burst begins at a time.                                               *)
LEMMA BurstStart ==
  ASSUME NEW h \in [Heads -> Nat], Sound(h), NEW t, NEW g, NEW x \in Nat,
         g.state = "WAITING_HIGH", g.sample_count \in 1 .. h.count,
         g.burst_count = 1, g.period_ticks = 1, x = t[g.sample_count - 1]
  PROVE  InPulse(h, t, g, x)
<1>1. h.period \in Nat /\ h.width \in Nat \ {0} /\ h.burst \in Nat \ {0}
  BY HeadFields DEF Sound
<1>2. g.burst_count \in 1 .. h.burst
  BY <1>1
<1>3. g.period_ticks \in IF g.state = "WAITING_HIGH" THEN 1 .. h.width ELSE h.width + 1 .. h.period
  BY <1>1
<1>4. (g.burst_count - 1) * h.period = 0
  <2>1. g.burst_count - 1 = 0
    OBVIOUS
  <2> QED
    BY <1>1, <2>1, MulStep
<1>5. x = t[g.sample_count - 1] + (g.burst_count - 1) * h.period + g.period_ticks - 1
  BY <1>4
<1> QED
  BY <1>2, <1>3, <1>5 DEF InPulse

(* A cycle starts: with a pulse if its first time is 0.                    *)
LEMMA StartLeads ==
  ASSUME Typed, NEW f \in Signals, Sound(head), Valid(head, times), Read
  PROVE  LET g == StartCycle(f)
         IN  /\ InCycle(head, times, g, 0, times[0]) /\ Round(g) = f.repeat_count - 1
             /\ g.repeat_count = f.repeat_count /\ g.error = f.error
             /\ g.state \in {"WAITING_HIGH", "WAITING_SAMPLE"}
<1> DEFINE g == StartCycle(f)
<1>1. /\ g.repeat_count = f.repeat_count /\ g.error = f.error /\ g.cycle_ticks = 1
      /\ sample = 0 => /\ g.state = "WAITING_HIGH" /\ g.sample_count = 1
                       /\ g.burst_count = 1 /\ g.period_ticks = 1
      /\ sample # 0 => g.state = "WAITING_SAMPLE" /\ g.sample_count = 0
  BY CycleFields
<1> HIDE DEF g
<1>2. /\ head.count \in Nat \ {0} /\ head.width \in Nat \ {0} /\ head.burst \in Nat \ {0}
      /\ head.period \in Nat /\ head \in [Heads -> Nat] /\ times \in [0 .. MaxSamples - 1 -> Nat]
  BY HeadFields DEF Typed, Sound
<1>3. times[0] \in Nat
  <2>1. 0 \in 0 .. head.count - 1
    BY <1>2
  <2> QED
    BY <1>2, <2>1, LastTime
<1>4. Read <=> (sample = 0 <=> times[0] = 0)
  BY DEF Read
<1>5. CASE sample = 0
  <2>1. times[g.sample_count - 1] = 0 /\ g.sample_count \in 1 .. head.count
    BY <1>1, <1>2, <1>4, <1>5
  <2>2. InPulse(head, times, g, 0)
    BY <1>1, <1>2, <1>5, <2>1, BurstStart
  <2>3. InCycle(head, times, g, 0, times[0])
    BY <1>1, <1>5, <2>2 DEF InCycle
  <2> QED
    BY <1>1, <1>5, <2>3 DEF g, Round
<1>6. CASE sample # 0
  <2>1. times[0] > 0
    BY <1>3, <1>4, <1>6
  <2>2. InWait(head, times, g, 0)
    BY <1>1, <1>2, <1>6, <2>1 DEF InWait
  <2>3. Next0(head, g) = 0
    BY <1>1, <1>6 DEF Next0
  <2>4. InCycle(head, times, g, 0, times[0])
    BY <1>1, <1>6, <2>2, <2>3 DEF InCycle
  <2> QED
    BY <1>1, <1>6, <2>4 DEF g, Round
<1> QED
  BY <1>5, <1>6

(* A tick leads from a place of a cycle to the next, from the end of a     *)
(* cycle to the next one, and from the end of the last burst to rest.      *)
Along(f, g, x) ==
  /\ InCycle(head, times, g, x + 1, times[Next0(head, f)])
  /\ Round(g) = Round(f) /\ g.repeat_count <= head.repeat
Over(f, g, x) ==
  /\ x + 1 = head.cycle /\ InCycle(head, times, g, 0, times[Next0(head, f)])
  /\ Round(g) = Round(f) + 1 /\ g.repeat_count <= head.repeat
Out(f, g, x) ==
  /\ x + 1 = times[head.count - 1] + Train(head) /\ f.repeat_count = head.repeat
  /\ Round(f) = f.repeat_count - 1 /\ g.state = "ARMED" /\ g.sample_count = 0
Leads(f, g, x) == g.error = f.error /\ (Along(f, g, x) \/ Over(f, g, x) \/ Out(f, g, x))

(* While the signal is high.                                               *)
LEMMA HighLeads ==
  ASSUME Typed, NEW f \in Signals, Sound(head), Valid(head, times), f.repeat_count <= head.repeat,
         NEW x, InCycle(head, times, f, x, sample), f.state = "WAITING_HIGH"
  PROVE  Leads(f, DoWaitingHigh(f), x)
<1> DEFINE g == DoWaitingHigh(f)
<1>1. /\ head \in [Heads -> Nat] /\ head.width \in Nat /\ head.period \in Nat
      /\ head.width < head.period /\ f.period_ticks \in Nat /\ x \in Nat /\ f.cycle_ticks = x + 1
  BY HeadFields, PutType, StateNames DEF Typed, Valid, InCycle
<1>2. InPulse(head, times, f, x)
  BY DEF InCycle
<1>3. f.period_ticks \in 1 .. head.width
  BY <1>2 DEF InPulse
<1>4. /\ g.state = (IF f.period_ticks = head.width THEN "WAITING_LOW" ELSE "WAITING_HIGH")
      /\ g.period_ticks = f.period_ticks + 1 /\ g.cycle_ticks = f.cycle_ticks + 1
      /\ g.sample_count = f.sample_count /\ g.repeat_count = f.repeat_count
      /\ g.burst_count = f.burst_count /\ g.error = f.error
  BY <1>1, <1>3, HighFields
<1> HIDE DEF g
<1>5. InPulse(head, times, g, x + 1)
  <2>1. PICK a, u : a = times[f.sample_count - 1] /\ u = (f.burst_count - 1) * head.period
    OBVIOUS
  <2>2. a \in Nat /\ u \in Nat
    BY <1>1, <1>2, <2>1, PulseFields DEF Typed
  <2>3. x = a + u + f.period_ticks - 1
    BY <1>2, <2>1 DEF InPulse
  <2>4. x + 1 = a + u + g.period_ticks - 1
    <3>1. PICK q, q1 : q = f.period_ticks /\ q1 = g.period_ticks
      OBVIOUS
    <3>2. q \in Nat /\ q1 = q + 1 /\ x = a + u + q - 1 /\ x \in Nat
      BY <1>1, <1>4, <2>3, <3>1
    <3>3. x + 1 = a + u + q1 - 1
      BY ONLY <2>2, <3>2
    <3> QED
      BY <3>1, <3>3
  <2>5. g.period_ticks \in IF g.state = "WAITING_HIGH" THEN 1 .. head.width
                           ELSE head.width + 1 .. head.period
    BY <1>1, <1>3, <1>4
  <2>6. f.sample_count \in 1 .. head.count /\ f.burst_count \in 1 .. head.burst
    BY <1>2 DEF InPulse
  <2> QED
    BY <2>1, <2>4, <2>5, <2>6, <1>4 DEF InPulse
<1>6. Next0(head, g) = Next0(head, f)
  BY <1>4 DEF Next0
<1>7. x + 1 \in Nat /\ g.cycle_ticks = (x + 1) + 1
  BY <1>1, <1>4
<1>8. InCycle(head, times, g, x + 1, times[Next0(head, f)])
  BY <1>4, <1>5, <1>6, <1>7 DEF InCycle
<1>9. Round(g) = Round(f)
  BY <1>4 DEF Round
<1>10. Along(f, g, x)
  BY <1>4, <1>8, <1>9 DEF Along
<1> QED
  BY <1>4, <1>10 DEF g, Leads

(* Before or at a time.                                                    *)
LEMMA SampleLeads ==
  ASSUME Typed, NEW f \in Signals, Sound(head), Valid(head, times), f.repeat_count <= head.repeat,
         NEW x \in Nat, f.cycle_ticks = x + 1, f.state \in {"WAITING_LOW", "WAITING_SAMPLE"},
         f.sample_count \in 0 .. head.count - 1, sample = times[f.sample_count],
         x < times[f.sample_count],
         f.sample_count > 0 => x + 1 >= times[f.sample_count - 1] + Train(head)
  PROVE  Leads(f, DoWaitingSample(f), x)
<1> DEFINE g == DoWaitingSample(f)
<1>1. /\ head \in [Heads -> Nat] /\ times \in [0 .. MaxSamples - 1 -> Nat] /\ sample \in Nat
      /\ head.count \in Nat /\ f.sample_count \in Nat
  BY HeadFields, PutType, StateNames DEF Typed
<1>0. f.cycle_ticks <= sample
  BY <1>1
<1>2. /\ g.repeat_count = f.repeat_count /\ g.error = f.error
      /\ g.cycle_ticks = f.cycle_ticks + 1
      /\ f.cycle_ticks = sample =>
           /\ g.state = "WAITING_HIGH" /\ g.sample_count = f.sample_count + 1
           /\ g.burst_count = 1 /\ g.period_ticks = 1
      /\ f.cycle_ticks < sample =>
           g.state = "WAITING_SAMPLE" /\ g.sample_count = f.sample_count
  BY <1>0, <1>1, SampleFields
<1> HIDE DEF g
<1>3. Round(g) = Round(f)
  BY <1>1, <1>2 DEF Round
<1>4. Next0(head, f) = f.sample_count
  BY <1>1 DEF Next0
<1>5. x + 1 \in Nat /\ g.cycle_ticks = (x + 1) + 1
  BY <1>2
<1>6. CASE f.cycle_ticks = sample
  <2>1. g.sample_count \in 1 .. head.count /\ g.sample_count - 1 = f.sample_count
    BY <1>1, <1>2, <1>6
  <2>4. x + 1 \in Nat /\ x + 1 = times[g.sample_count - 1]
    BY <2>1, <1>6
  <2>5. InPulse(head, times, g, x + 1)
    BY <1>1, <1>2, <1>6, <2>1, <2>4, BurstStart
  <2>6. InCycle(head, times, g, x + 1, times[Next0(head, f)])
    BY <1>2, <1>5, <1>6, <2>5 DEF InCycle
  <2>7. Along(f, g, x)
    BY <1>2, <1>3, <2>6 DEF Along
  <2> QED
    BY <1>2, <2>7 DEF g, Leads
<1>7. CASE f.cycle_ticks < sample
  <2>1. g.state = "WAITING_SAMPLE" /\ g.sample_count = f.sample_count
    BY <1>2, <1>7
  <2>2. x + 1 < times[f.sample_count]
    BY <1>7
  <2>3. InWait(head, times, g, x + 1)
    BY <2>1, <2>2 DEF InWait
  <2>4. Next0(head, g) = f.sample_count
    BY <2>1, <1>4 DEF Next0
  <2>5. InCycle(head, times, g, x + 1, times[Next0(head, f)])
    BY <1>4, <1>5, <2>1, <2>3, <2>4 DEF InCycle
  <2>6. Along(f, g, x)
    BY <1>2, <1>3, <2>5 DEF Along
  <2> QED
    BY <1>2, <2>6 DEF g, Leads
<1>8. f.cycle_ticks \in Nat
  BY PutType, StateNames
<1> QED
  BY <1>0, <1>1, <1>6, <1>7, <1>8

(* After the last burst, f counting the cycle to come.                     *)
LEMMA RepeatLeads ==
  ASSUME Typed, NEW f \in Signals, Sound(head), Valid(head, times), f.repeat_count <= head.repeat,
         NEW x \in Nat, f.cycle_ticks = x + 1, f.sample_count = head.count,
         sample = times[0], x + 1 <= head.cycle, x + 1 >= times[head.count - 1] + Train(head)
  PROVE  LET g == DoWaitingRepeat(f)
         IN  /\ g.error = f.error /\ g.repeat_count = f.repeat_count
             /\ \/ /\ InCycle(head, times, g, x + 1, times[0]) /\ g.state = "WAITING_REPEAT"
                \/ /\ x + 1 = head.cycle /\ InCycle(head, times, g, 0, times[0])
                   /\ g.state \in {"WAITING_HIGH", "WAITING_SAMPLE"}
<1> DEFINE g == DoWaitingRepeat(f)
<1>1. head.cycle \in Nat /\ head.count \in Nat \ {0}
  BY HeadFields DEF Typed, Sound
<1>2. /\ f.cycle_ticks = head.cycle => g = StartCycle(f)
      /\ f.cycle_ticks < head.cycle =>
           /\ g.state = "WAITING_REPEAT" /\ g.cycle_ticks = f.cycle_ticks + 1
           /\ g.sample_count = f.sample_count /\ g.repeat_count = f.repeat_count
           /\ g.error = f.error
  BY <1>1, RepeatFields
<1> HIDE DEF g
<1>3. CASE f.cycle_ticks = head.cycle
  <2>1. Read
    BY DEF Read
  <2> QED
    BY <1>2, <1>3, <2>1, StartLeads DEF g
<1>4. CASE f.cycle_ticks < head.cycle
  <2>1. InPause(head, times, g, x + 1)
    BY <1>2, <1>4 DEF InPause
  <2>2. Next0(head, g) = 0
    BY <1>1, <1>2, <1>4 DEF Next0
  <2>3. x + 1 \in Nat /\ g.cycle_ticks = (x + 1) + 1
    BY <1>2, <1>4
  <2>4. InCycle(head, times, g, x + 1, times[0])
    BY <1>2, <1>4, <2>1, <2>2, <2>3 DEF InCycle
  <2> QED
    BY <1>2, <1>4, <2>4 DEF g
<1> QED
  BY <1>1, <1>3, <1>4

LEMMA HeadSound ==
  ASSUME Typed, Sound(head), Valid(head, times)
  PROVE  /\ head \in [Heads -> Nat] /\ times \in [0 .. MaxSamples - 1 -> Nat]
         /\ head.width \in Nat \ {0} /\ head.period \in Nat /\ head.count \in Nat \ {0}
         /\ head.burst \in Nat \ {0} /\ head.cycle \in Nat /\ head.repeat \in Nat \ {0}
         /\ head.delay \in Nat /\ head.width < head.period
<1>1. head \in [Heads -> Nat] /\ times \in [0 .. MaxSamples - 1 -> Nat]
  BY DEF Typed
<1>2. /\ head.delay \in Nat /\ head.width \in Nat /\ head.period \in Nat /\ head.burst \in Nat
      /\ head.cycle \in Nat /\ head.repeat \in Nat /\ head.count \in Nat
  BY <1>1, HeadFields
<1>3. head.width < head.period
  BY DEF Valid
<1> QED
  BY <1>1, <1>2, <1>3 DEF Sound

(* The last burst of a cycle is over.                                      *)
LEMMA BurstsOver ==
  ASSUME Typed, NEW f \in Signals, Sound(head), Valid(head, times), f.repeat_count <= head.repeat,
         NEW x \in Nat, f.cycle_ticks = x + 1, f.sample_count = head.count, f.state = "WAITING_LOW",
         sample = times[0], x + 1 = times[head.count - 1] + Train(head)
  PROVE  Leads(f, StartWaitingRepeat(f), x)
<1>1. /\ head \in [Heads -> Nat] /\ head.repeat \in Nat /\ f.repeat_count \in Nat
      /\ x + 1 <= head.cycle /\ head.count \in Nat
  BY HeadFields, PutType, StateNames DEF Typed, Valid
<1>2. Round(f) = f.repeat_count - 1 /\ Next0(head, f) = 0
  BY <1>1 DEF Round, Next0
<1>3. CASE f.repeat_count < head.repeat
  <2> DEFINE n == f.repeat_count + 1
             e == [f EXCEPT !.repeat_count = n]
             g == DoWaitingRepeat(e)
  <2>1. n \in Nat /\ n <= head.repeat
    BY <1>1, <1>3
  <2>2. StartWaitingRepeat(f) = g
    BY <1>3 DEF StartWaitingRepeat
  <2>3. /\ e \in Signals /\ e.repeat_count = n /\ e.cycle_ticks = x + 1
        /\ e.sample_count = head.count /\ e.error = f.error
    <3> HIDE DEF n
    <3> QED
      BY <2>1 DEF Signals
  <2> HIDE DEF e
  <2>4. x + 1 >= times[head.count - 1] + Train(head)
    <3>1. times[head.count - 1] + Train(head) \in Nat
      OBVIOUS
    <3> QED
      BY <3>1
  <2>5. /\ g.error = e.error /\ g.repeat_count = e.repeat_count
        /\ \/ /\ InCycle(head, times, g, x + 1, times[0]) /\ g.state = "WAITING_REPEAT"
           \/ /\ x + 1 = head.cycle /\ InCycle(head, times, g, 0, times[0])
              /\ g.state \in {"WAITING_HIGH", "WAITING_SAMPLE"}
    BY <1>1, <2>1, <2>3, <2>4, RepeatLeads
  <2> HIDE DEF g
  <2>6. g.repeat_count <= head.repeat
    BY <2>1, <2>3, <2>5
  <2>7. CASE InCycle(head, times, g, x + 1, times[0]) /\ g.state = "WAITING_REPEAT"
    <3>1. Round(g) = Round(f)
      BY <1>1, <1>2, <2>3, <2>5, <2>7 DEF Round
    <3> QED
      BY <1>2, <2>2, <2>3, <2>5, <2>6, <2>7, <3>1 DEF Leads, Along
  <2>8. CASE /\ x + 1 = head.cycle /\ InCycle(head, times, g, 0, times[0])
             /\ g.state \in {"WAITING_HIGH", "WAITING_SAMPLE"}
    <3>1. Round(g) = Round(f) + 1
      BY <1>1, <1>2, <2>3, <2>5, <2>8 DEF Round
    <3> QED
      BY <1>2, <2>2, <2>3, <2>5, <2>6, <2>8, <3>1 DEF Leads, Over
  <2> QED
    BY <2>5, <2>7, <2>8
<1>4. CASE f.repeat_count = head.repeat
  <2>1. StartWaitingRepeat(f) = StartArmed(f)
    BY <1>1, <1>4 DEF StartWaitingRepeat
  <2>2. /\ StartArmed(f).state = "ARMED" /\ StartArmed(f).sample_count = 0
        /\ StartArmed(f).error = f.error
    BY ArmedFields
  <2>3. Out(f, StartArmed(f), x)
    BY <1>2, <1>4, <2>2 DEF Out
  <2> QED
    BY <2>1, <2>2, <2>3 DEF Leads
<1> QED
  BY <1>1, <1>3, <1>4

(* While it is low, and how a burst goes on or ends.                       *)
LEMMA LowLeads ==
  ASSUME Typed, NEW f \in Signals, Sound(head), Valid(head, times), f.repeat_count <= head.repeat,
         NEW x, InCycle(head, times, f, x, sample), f.state = "WAITING_LOW"
  PROVE  Leads(f, DoWaitingLow(f), x)
<1> DEFINE g == DoWaitingLow(f)
<1>1. /\ head \in [Heads -> Nat] /\ times \in [0 .. MaxSamples - 1 -> Nat]
      /\ head.width \in Nat \ {0} /\ head.period \in Nat /\ head.count \in Nat /\ head.burst \in Nat
      /\ head.width < head.period
  BY HeadSound
<1>2. /\ f.period_ticks \in Nat /\ f.burst_count \in Nat /\ f.sample_count \in Nat
      /\ x \in Nat /\ f.cycle_ticks = x + 1
  BY PutType, StateNames DEF InCycle
<1>3. InPulse(head, times, f, x) /\ sample = times[Next0(head, f)]
  BY DEF InCycle
<1>4. /\ f.period_ticks \in head.width + 1 .. head.period
      /\ f.sample_count \in 1 .. head.count /\ f.burst_count \in 1 .. head.burst
  BY <1>3 DEF InPulse
<1>5. f.period_ticks <= head.period /\ f.burst_count <= head.burst
  BY <1>1, <1>2, <1>4
<1>6. /\ f.period_ticks < head.period =>
           /\ g.state = "WAITING_LOW" /\ g.period_ticks = f.period_ticks + 1
           /\ g.cycle_ticks = f.cycle_ticks + 1 /\ g.sample_count = f.sample_count
           /\ g.repeat_count = f.repeat_count /\ g.burst_count = f.burst_count
           /\ g.error = f.error
      /\ f.period_ticks = head.period /\ f.burst_count < head.burst =>
           /\ g.state = "WAITING_HIGH" /\ g.period_ticks = 1
           /\ g.cycle_ticks = f.cycle_ticks + 1 /\ g.sample_count = f.sample_count
           /\ g.repeat_count = f.repeat_count /\ g.burst_count = f.burst_count + 1
           /\ g.error = f.error
      /\ f.period_ticks = head.period /\ f.burst_count = head.burst => g = StartWaitingSample(f)
  BY <1>1, <1>5, LowFields
<1> HIDE DEF g
<1>7. PICK a, u, v, q : /\ a = times[f.sample_count - 1] /\ u = (f.burst_count - 1) * head.period
                        /\ v = f.burst_count * head.period /\ q = f.period_ticks
  OBVIOUS
<1>8. a \in Nat /\ u \in Nat /\ v \in Nat /\ u + head.period = v /\ q \in Nat
  BY <1>1, <1>2, <1>3, <1>7, PulseFields
<1>9. x = a + u + q - 1
  BY <1>3, <1>7 DEF InPulse
<1>10. x + 1 = a + u + q
  BY ONLY <1>8, <1>9
<1>11. x + 1 \in Nat
  BY <1>2
<1>12. CASE f.period_ticks < head.period
  <2>1. /\ g.state = "WAITING_LOW" /\ g.period_ticks = q + 1 /\ g.cycle_ticks = (x + 1) + 1
        /\ g.sample_count = f.sample_count /\ g.repeat_count = f.repeat_count
        /\ g.burst_count = f.burst_count /\ g.error = f.error
    BY <1>2, <1>6, <1>7, <1>12
  <2>2. g.period_ticks \in head.width + 1 .. head.period
    BY <1>1, <1>4, <1>7, <1>12, <2>1
  <2>3. a + u + (q + 1) - 1 = a + u + q
    BY ONLY <1>8
  <2>4. x + 1 = times[g.sample_count - 1] + (g.burst_count - 1) * head.period + g.period_ticks - 1
    BY <1>7, <1>10, <2>1, <2>3
  <2>5. InPulse(head, times, g, x + 1)
    BY <1>4, <2>1, <2>2, <2>4 DEF InPulse
  <2>6. Next0(head, g) = Next0(head, f) /\ Round(g) = Round(f)
    BY <2>1 DEF Next0, Round
  <2>7. InCycle(head, times, g, x + 1, times[Next0(head, f)])
    BY <1>11, <2>1, <2>5, <2>6 DEF InCycle
  <2> QED
    BY <2>1, <2>6, <2>7 DEF Leads, Along, g
<1>13. CASE f.period_ticks = head.period /\ f.burst_count < head.burst
  <2>1. /\ g.state = "WAITING_HIGH" /\ g.period_ticks = 1 /\ g.cycle_ticks = (x + 1) + 1
        /\ g.sample_count = f.sample_count /\ g.repeat_count = f.repeat_count
        /\ g.burst_count = f.burst_count + 1 /\ g.error = f.error
    BY <1>2, <1>6, <1>13
  <2>2. g.period_ticks \in 1 .. head.width /\ g.burst_count \in 1 .. head.burst
    <3>1. g.period_ticks = 1 /\ head.width \in Nat \ {0} => g.period_ticks \in 1 .. head.width
      OBVIOUS
    <3>2. g.burst_count = f.burst_count + 1 /\ f.burst_count \in Nat /\ head.burst \in Nat
          /\ f.burst_count < head.burst => g.burst_count \in 1 .. head.burst
      OBVIOUS
    <3> QED
      BY <1>1, <1>2, <1>4, <1>13, <2>1, <3>1, <3>2
  <2>3. (g.burst_count - 1) = f.burst_count
    BY <1>2, <2>1
  <2>4. x + 1 = a + v
    BY <1>7, <1>8, <1>10, <1>13
  <2>5. a + v = a + v + 1 - 1
    BY ONLY <1>8
  <2>6. x + 1 = times[g.sample_count - 1] + (g.burst_count - 1) * head.period + g.period_ticks - 1
    BY <1>7, <2>1, <2>3, <2>4, <2>5
  <2>7. InPulse(head, times, g, x + 1)
    BY <1>4, <2>1, <2>2, <2>6 DEF InPulse
  <2>8. Round(g) = Round(f)
    BY <2>1 DEF Round
  <2>9. InCycle(head, times, g, x + 1, times[Next0(head, f)])
    BY <1>11, <2>1, <2>7 DEF InCycle
  <2> QED
    BY <2>1, <2>8, <2>9 DEF Leads, Along, g
<1>14. CASE f.period_ticks = head.period /\ f.burst_count = head.burst
  <2>1. g = StartWaitingSample(f)
    BY <1>6, <1>14
  <2>2. v = Train(head)
    BY <1>7, <1>14 DEF Train
  <2>3. x + 1 = a + Train(head)
    BY <1>7, <1>8, <1>10, <1>14, <2>2
  <2>4. CASE f.sample_count = head.count
    <3>1. g = StartWaitingRepeat(f)
      BY <2>1, <2>4 DEF StartWaitingSample
    <3>2. sample = times[0]
      BY <1>1, <1>3, <2>4 DEF Next0
    <3>3. x + 1 = times[head.count - 1] + Train(head)
      BY <1>7, <2>3, <2>4
    <3> QED
      BY <1>2, <2>4, <3>1, <3>2, <3>3, BurstsOver DEF g
  <2>5. CASE f.sample_count < head.count
    <3>1. g = DoWaitingSample(f)
      BY <1>1, <1>2, <2>1, <2>5 DEF StartWaitingSample
    <3>2. sample = times[f.sample_count]
      BY <1>3, <2>5 DEF Next0
    <3>3. f.sample_count \in 1 .. head.count - 1 /\ f.sample_count \in 0 .. head.count - 1
      BY <1>1, <1>4, <2>5
    <3>4. times[f.sample_count] \in Nat /\ Train(head) \in Nat
      BY <1>1, <3>3, LastTime, TrainType
    <3>5. times[f.sample_count] >= a + Train(head)
      BY <1>7, <3>3 DEF Valid
    <3>6. x < times[f.sample_count]
      BY <1>2, <1>8, <2>3, <3>4, <3>5
    <3>7. x + 1 >= times[f.sample_count - 1] + Train(head)
      BY <1>7, <1>11, <2>3
    <3> QED
      BY <1>2, <3>1, <3>2, <3>3, <3>6, <3>7, SampleLeads DEF g
  <2> QED
    BY <1>1, <1>2, <1>4, <2>4, <2>5
<1> QED
  BY <1>1, <1>2, <1>5, <1>12, <1>13, <1>14

(* Before a time, and after the last one.                                  *)
LEMMA WaitLeads ==
  ASSUME Typed, NEW f \in Signals, Sound(head), Valid(head, times), f.repeat_count <= head.repeat,
         NEW x, InCycle(head, times, f, x, sample), f.state = "WAITING_SAMPLE"
  PROVE  Leads(f, DoWaitingSample(f), x)
<1>1. x \in Nat /\ f.cycle_ticks = x + 1 /\ InWait(head, times, f, x) /\ sample = times[Next0(head, f)]
  BY DEF InCycle
<1>2. f.sample_count \in 0 .. head.count - 1 /\ x < times[f.sample_count]
  BY <1>1 DEF InWait
<1>3. head.count \in Nat /\ f.sample_count \in Nat /\ head \in [Heads -> Nat]
      /\ times \in [0 .. MaxSamples - 1 -> Nat]
  BY HeadFields, PutType, StateNames DEF Typed
<1>4. sample = times[f.sample_count]
  BY <1>1, <1>2, <1>3 DEF Next0
<1>5. ASSUME f.sample_count > 0
      PROVE  x + 1 >= times[f.sample_count - 1] + Train(head)
  <2>1. x >= times[f.sample_count - 1] + Train(head)
    BY <1>1, <1>5 DEF InWait
  <2>2. f.sample_count - 1 \in 0 .. head.count - 1
    BY <1>2, <1>3, <1>5
  <2>3. times[f.sample_count - 1] \in Nat /\ Train(head) \in Nat
    BY <1>3, <2>2, LastTime, TrainType
  <2> QED
    BY <1>1, <2>1, <2>3
<1> QED
  BY <1>1, <1>2, <1>4, <1>5, SampleLeads

LEMMA PauseLeads ==
  ASSUME Typed, NEW f \in Signals, Sound(head), Valid(head, times), f.repeat_count <= head.repeat,
         NEW x, InCycle(head, times, f, x, sample), f.state = "WAITING_REPEAT"
  PROVE  Leads(f, DoWaitingRepeat(f), x)
<1> DEFINE g == DoWaitingRepeat(f)
<1>1. x \in Nat /\ f.cycle_ticks = x + 1 /\ InPause(head, times, f, x) /\ sample = times[Next0(head, f)]
  BY DEF InCycle
<1>2. /\ f.sample_count = head.count /\ x >= times[head.count - 1] + Train(head) /\ x < head.cycle
  BY <1>1 DEF InPause
<1>3. /\ head.count \in Nat \ {0} /\ f.sample_count \in Nat /\ f.repeat_count \in Nat /\ head.cycle \in Nat
      /\ head \in [Heads -> Nat] /\ times \in [0 .. MaxSamples - 1 -> Nat]
  BY HeadSound, PutType, StateNames
<1>4. sample = times[0] /\ Next0(head, f) = 0
  BY <1>1, <1>2, <1>3 DEF Next0
<1>5. x + 1 <= head.cycle /\ x + 1 >= times[head.count - 1] + Train(head)
  <2>1. head.count - 1 \in 0 .. head.count - 1
    BY <1>3
  <2>2. times[head.count - 1] \in Nat /\ Train(head) \in Nat
    BY <1>3, <2>1, LastTime, TrainType
  <2> QED
    BY <1>1, <1>2, <1>3, <2>2
<1>6. /\ g.error = f.error /\ g.repeat_count = f.repeat_count
      /\ \/ /\ InCycle(head, times, g, x + 1, times[0]) /\ g.state = "WAITING_REPEAT"
         \/ /\ x + 1 = head.cycle /\ InCycle(head, times, g, 0, times[0])
            /\ g.state \in {"WAITING_HIGH", "WAITING_SAMPLE"}
  BY <1>1, <1>2, <1>4, <1>5, RepeatLeads
<1> HIDE DEF g
<1>7. CASE InCycle(head, times, g, x + 1, times[0]) /\ g.state = "WAITING_REPEAT"
  <2>1. Round(g) = Round(f)
    BY <1>6, <1>7 DEF Round
  <2> QED
    BY <1>4, <1>6, <1>7, <2>1 DEF Leads, Along, g
<1>8. CASE /\ x + 1 = head.cycle /\ InCycle(head, times, g, 0, times[0])
           /\ g.state \in {"WAITING_HIGH", "WAITING_SAMPLE"}
  <2>1. Round(g) = Round(f) + 1
    BY <1>3, <1>6, <1>8 DEF Round
  <2> QED
    BY <1>4, <1>6, <1>8, <2>1 DEF Leads, Over, g
<1> QED
  BY <1>6, <1>7, <1>8

(* When the cycles start, and when the last burst ends.                    *)
LEMMA StartStep ==
  ASSUME NEW h \in [Heads -> Nat], NEW r \in Nat
  PROVE  /\ StartOf(h, r) \in Nat /\ StartOf(h, r + 1) = StartOf(h, r) + h.cycle
         /\ StartOf(h, 0) = h.delay
         /\ \A q \in Nat : r < q => StartOf(h, r) + h.cycle <= StartOf(h, q)
<1>1. h.delay \in Nat /\ h.cycle \in Nat
  BY HeadFields
<1>2. r * h.cycle \in Nat /\ (r + 1) * h.cycle = r * h.cycle + h.cycle /\ 0 * h.cycle = 0
  BY <1>1, MulStep
<1>3. StartOf(h, r) = h.delay + r * h.cycle /\ StartOf(h, r + 1) = h.delay + (r + 1) * h.cycle
      /\ StartOf(h, 0) = h.delay + 0 * h.cycle
  BY DEF StartOf
<1>4. ASSUME NEW q \in Nat, r < q PROVE StartOf(h, r) + h.cycle <= StartOf(h, q)
  <2>1. r * h.cycle + h.cycle <= q * h.cycle /\ q * h.cycle \in Nat
    BY <1>1, <1>4, MulMono
  <2>2. StartOf(h, q) = h.delay + q * h.cycle
    BY DEF StartOf
  <2> QED
    BY <1>1, <1>2, <1>3, <2>1, <2>2
<1> QED
  BY <1>1, <1>2, <1>3, <1>4

LEMMA EndAt ==
  ASSUME Typed, Sound(head), Valid(head, times)
  PROVE  /\ End = StartOf(head, head.repeat - 1) + times[head.count - 1] + Train(head)
         /\ End \in Nat /\ StartOf(head, head.repeat - 1) <= End
         /\ times[head.count - 1] \in Nat /\ Train(head) \in Nat
<1>1. End = StartOf(head, head.repeat - 1) + times[head.count - 1] + Train(head)
  BY DEF End, CycleEnd, CycleStart, BurstLength, StartOf, Train
<1>2. head.count - 1 \in 0 .. head.count - 1 /\ head.repeat - 1 \in Nat /\ head \in [Heads -> Nat]
      /\ times \in [0 .. MaxSamples - 1 -> Nat]
  BY HeadSound
<1>3. times[head.count - 1] \in Nat /\ Train(head) \in Nat /\ StartOf(head, head.repeat - 1) \in Nat
  BY <1>2, LastTime, TrainType, StartStep
<1> QED
  BY <1>1, <1>3

(* The place of a shot: which cycle, how far.                              *)
LEMMA ShotPlace ==
  ASSUME Typed, NEW f \in Signals, NEW e \in Nat, NEW s, InShot(head, times, f, e, s)
  PROVE  /\ Sound(head) /\ Valid(head, times) /\ f.repeat_count <= head.repeat
         /\ Round(f) \in 0 .. head.repeat - 1
         /\ f.state = "WAITING_REPEAT" => Round(f) \in 0 .. head.repeat - 2
         /\ \E x \in Nat : /\ InCycle(head, times, f, x, s) /\ e = StartOf(head, Round(f)) + x
                           /\ x = e - StartOf(head, Round(f))
<1>1. /\ Sound(head) /\ Valid(head, times) /\ Round(f) \in Nat /\ f.repeat_count <= head.repeat
      /\ InCycle(head, times, f, e - StartOf(head, Round(f)), s)
  BY DEF InShot
<1>2. f.repeat_count \in Nat /\ head.repeat \in Nat /\ head \in [Heads -> Nat]
  BY <1>1, HeadSound, PutType, StateNames
<1>3. /\ Round(f) \in 0 .. head.repeat - 1
      /\ f.state = "WAITING_REPEAT" => Round(f) \in 0 .. head.repeat - 2
  BY <1>1, <1>2 DEF Round
<1>4. e - StartOf(head, Round(f)) \in Nat
  BY <1>1 DEF InCycle
<1>5. StartOf(head, Round(f)) \in Nat
  BY <1>1, <1>2, StartStep
<1>6. e = StartOf(head, Round(f)) + (e - StartOf(head, Round(f)))
  BY <1>5
<1> QED
  BY <1>1, <1>3, <1>4, <1>6

(* A shot that goes on has not come to its end.                            *)
LEMMA ShotBeforeEnd ==
  ASSUME Typed, NEW f \in Signals, NEW e \in Nat, NEW s, InShot(head, times, f, e, s)
  PROVE  e < End
<1>1. PICK x \in Nat : InCycle(head, times, f, x, s) /\ e = StartOf(head, Round(f)) + x
  BY ShotPlace
<1>2. Sound(head) /\ Valid(head, times)
  BY ShotPlace
<1>3. /\ head \in [Heads -> Nat] /\ times \in [0 .. MaxSamples - 1 -> Nat]
      /\ head.repeat \in Nat \ {0} /\ head.cycle \in Nat
  BY <1>2, HeadSound
<1>4. PICK r, z, st, T : /\ r = Round(f) /\ z = head.repeat - 1 /\ st = StartOf(head, r)
                         /\ T = times[head.count - 1] + Train(head)
  OBVIOUS
<1>5. z \in Nat /\ r \in 0 .. z /\ st \in Nat /\ StartOf(head, z) \in Nat /\ T \in Nat
  <2>1. z \in Nat /\ r \in 0 .. z
    BY <1>3, <1>4, ShotPlace
  <2>2. r \in Nat
    BY <2>1
  <2>3. st \in Nat /\ StartOf(head, z) \in Nat
    BY <1>3, <1>4, <2>1, <2>2, StartStep
  <2>4. times[head.count - 1] \in Nat /\ Train(head) \in Nat
    BY <1>2, EndAt
  <2> QED
    BY <1>4, <2>1, <2>3, <2>4
<1>6. End = StartOf(head, z) + T
  <2>1. End = StartOf(head, z) + times[head.count - 1] + Train(head)
    BY <1>2, <1>4, EndAt
  <2>2. times[head.count - 1] \in Nat /\ Train(head) \in Nat
    BY <1>2, EndAt
  <2> QED
    BY <2>1, <2>2, <1>4, <1>5
<1>7. x < head.cycle
  BY <1>1, <1>2, <1>3, CycleBound
<1>8. CASE r = z
  <2>1. f.state # "WAITING_REPEAT"
    <3>1. ASSUME f.state = "WAITING_REPEAT" PROVE FALSE
      <4>1. r \in 0 .. head.repeat - 2
        BY <3>1, <1>4, ShotPlace
      <4> QED
        BY <4>1, <1>3, <1>4, <1>8
    <3> QED
      BY <3>1
  <2>2. x < T
    BY <1>1, <1>2, <1>3, <1>4, <2>1, CycleBound
  <2>3. e = st + x /\ End = st + T
    BY <1>1, <1>4, <1>6, <1>8
  <2> QED
    BY <1>5, <2>2, <2>3
<1>9. CASE r # z
  <2>1. r \in Nat /\ r < z
    BY <1>5, <1>9
  <2>2. st + head.cycle <= StartOf(head, z)
    BY <1>3, <1>4, <1>5, <2>1, StartStep
  <2>3. e = st + x
    BY <1>1, <1>4
  <2> QED
    BY <1>3, <1>5, <1>6, <1>7, <2>2, <2>3
<1> QED
  BY <1>8, <1>9

(* From tick to tick, a shot goes on until it has.                         *)
LEMMA ShotGoes ==
  ASSUME Typed, NEW f \in Signals, NEW e \in Nat, InShot(head, times, f, e, sample), NEW g \in Signals,
         Leads(f, g, e - StartOf(head, Round(f)))
  PROVE  /\ g.error = f.error
         /\ \/ /\ InShot(head, times, g, e + 1, times[Next0(head, f)])
               /\ g.state \in {"WAITING_SAMPLE", "WAITING_HIGH", "WAITING_LOW", "WAITING_REPEAT"}
            \/ g.state = "ARMED" /\ g.sample_count = 0 /\ e + 1 = End
<1>1. PICK r, st, x : r = Round(f) /\ st = StartOf(head, r) /\ x = e - st
  OBVIOUS
<1>2. /\ Sound(head) /\ Valid(head, times) /\ f.repeat_count <= head.repeat
      /\ r \in 0 .. head.repeat - 1 /\ x \in Nat /\ e = st + x
  BY <1>1, ShotPlace
<1>3. head \in [Heads -> Nat] /\ times \in [0 .. MaxSamples - 1 -> Nat] /\ head.cycle \in Nat
      /\ head.repeat \in Nat
  BY <1>2, HeadSound
<1>4. r \in Nat /\ st \in Nat /\ StartOf(head, r + 1) = st + head.cycle
  <2>1. r \in Nat
    BY <1>2, <1>3
  <2> QED
    BY <1>1, <1>3, <2>1, StartStep
<1>5. Leads(f, g, x)
  BY <1>1
<1>6. g.error = f.error
  BY <1>5 DEF Leads
<1>7. CASE Along(f, g, x)
  <2>1. Round(g) = r /\ InCycle(head, times, g, x + 1, times[Next0(head, f)]) /\ g.repeat_count <= head.repeat
    BY <1>1, <1>7 DEF Along
  <2>2. (e + 1) - st = x + 1
    BY <1>2, <1>4
  <2>3. InShot(head, times, g, e + 1, times[Next0(head, f)])
    BY <1>1, <1>2, <1>4, <2>1, <2>2 DEF InShot
  <2> QED
    BY <1>6, <2>1, <2>3 DEF InCycle
<1>8. CASE Over(f, g, x)
  <2>1. /\ Round(g) = r + 1 /\ InCycle(head, times, g, 0, times[Next0(head, f)])
        /\ g.repeat_count <= head.repeat /\ x + 1 = head.cycle
    BY <1>1, <1>8 DEF Over
  <2>2. (e + 1) - StartOf(head, r + 1) = 0 /\ r + 1 \in Nat
    BY <1>2, <1>4, <2>1
  <2>3. InShot(head, times, g, e + 1, times[Next0(head, f)])
    BY <1>2, <2>1, <2>2 DEF InShot
  <2> QED
    BY <1>6, <2>1, <2>3 DEF InCycle
<1>9. CASE Out(f, g, x)
  <2>1. /\ x + 1 = times[head.count - 1] + Train(head) /\ f.repeat_count = head.repeat
        /\ Round(f) = f.repeat_count - 1 /\ g.state = "ARMED" /\ g.sample_count = 0
    BY <1>9 DEF Out
  <2>2. st = StartOf(head, head.repeat - 1)
    BY <1>1, <2>1
  <2>3. End = st + times[head.count - 1] + Train(head)
    BY <1>2, <2>2, EndAt
  <2>4. times[head.count - 1] \in Nat /\ Train(head) \in Nat
    BY <1>2, EndAt
  <2>5. e + 1 = End
    BY <1>2, <1>4, <2>1, <2>3, <2>4
  <2> QED
    BY <1>6, <2>1, <2>5
<1> QED
  BY <1>5, <1>7, <1>8, <1>9 DEF Leads

(* A clear does not touch the counters.                                    *)
LEMMA NowShot ==
  ASSUME Typed, NEW e, NEW s, InShot(head, times, fsm, e, s)
  PROVE  InShot(head, times, Now, e, s) /\ Round(Now) = Round(fsm) /\ Next0(head, Now) = Index
<1>1. /\ Now \in Signals /\ Now.state = fsm.state /\ Now.sample_count = fsm.sample_count
      /\ Now.repeat_count = fsm.repeat_count /\ Now.burst_count = fsm.burst_count
      /\ Now.period_ticks = fsm.period_ticks /\ Now.cycle_ticks = fsm.cycle_ticks
  BY NowType DEF Typed
<1>2. Round(Now) = Round(fsm) /\ Next0(head, Now) = Next0(head, fsm) /\ Next0(head, fsm) = Index
  BY <1>1 DEF Round, Next0, Index
<1>3. \A x : /\ InPulse(head, times, Now, x) <=> InPulse(head, times, fsm, x)
             /\ InWait(head, times, Now, x) <=> InWait(head, times, fsm, x)
             /\ InPause(head, times, Now, x) <=> InPause(head, times, fsm, x)
  BY <1>1 DEF InPulse, InWait, InPause
<1>4. \A x : InCycle(head, times, fsm, x, s) => InCycle(head, times, Now, x, s)
  BY <1>1, <1>2, <1>3 DEF InCycle
<1> QED
  BY <1>1, <1>2, <1>4 DEF InShot

(* The tick of a shot.                                                     *)
LEMMA ShotTick ==
  ASSUME Typed, Shots, SchedTick, Pulsing, ~excused, ctrl.init = 1
  PROVE  /\ fsm'.error = Now.error
         /\ \/ InShot(head, times, fsm', elapsed + 1, sample') /\ Pulsing'
            \/ fsm'.state = "ARMED" /\ fsm'.sample_count = 0 /\ elapsed + 1 = End
<1> DEFINE x == elapsed - StartOf(head, Round(Now))
<1>1. InShot(head, times, Now, elapsed, sample) /\ Next0(head, Now) = Index
  BY NowShot DEF Shots
<1>2. /\ Now \in Signals /\ Now.state = fsm.state /\ elapsed \in Nat
  BY NowType DEF Typed
<1>3. /\ Sound(head) /\ Valid(head, times) /\ Now.repeat_count <= head.repeat
      /\ InCycle(head, times, Now, x, sample)
  BY <1>1 DEF InShot
<1>4. fsm' \in Signals /\ sample' = times[Index]
  BY TickRegisters
<1> HIDE DEF x
<1>5. Leads(Now, fsm', x)
  <2>1. \/ Sample /\ fsm.state = "WAITING_SAMPLE"
        \/ High /\ fsm.state = "WAITING_HIGH"
        \/ Low /\ fsm.state = "WAITING_LOW"
        \/ Repeat /\ fsm.state = "WAITING_REPEAT"
    BY DEF SchedTick, Ticks, Pulsing, Disarmed, Idle, Armed, Trigger, Delay, Sample, High, Low,
           Repeat, In
  <2>2. CASE Sample /\ fsm.state = "WAITING_SAMPLE"
    <3>1. fsm' = DoWaitingSample(Now)
      BY <2>2 DEF Sample, Tick
    <3> QED
      BY <1>2, <1>3, <2>2, <3>1, WaitLeads
  <2>3. CASE High /\ fsm.state = "WAITING_HIGH"
    <3>1. fsm' = DoWaitingHigh(Now)
      BY <2>3 DEF High, Tick
    <3> QED
      BY <1>2, <1>3, <2>3, <3>1, HighLeads
  <2>4. CASE Low /\ fsm.state = "WAITING_LOW"
    <3>1. fsm' = DoWaitingLow(Now)
      BY <2>4 DEF Low, Tick
    <3> QED
      BY <1>2, <1>3, <2>4, <3>1, LowLeads
  <2>5. CASE Repeat /\ fsm.state = "WAITING_REPEAT"
    <3>1. fsm' = DoWaitingRepeat(Now)
      BY <2>5 DEF Repeat, Tick
    <3> QED
      BY <1>2, <1>3, <2>5, <3>1, PauseLeads
  <2> QED
    BY <2>1, <2>2, <2>3, <2>4, <2>5
<1>6. /\ fsm'.error = Now.error
      /\ \/ /\ InShot(head, times, fsm', elapsed + 1, times[Next0(head, Now)])
            /\ fsm'.state \in {"WAITING_SAMPLE", "WAITING_HIGH", "WAITING_LOW", "WAITING_REPEAT"}
         \/ fsm'.state = "ARMED" /\ fsm'.sample_count = 0 /\ elapsed + 1 = End
  BY <1>1, <1>2, <1>4, <1>5, ShotGoes DEF x
<1> QED
  BY <1>1, <1>4, <1>6 DEF Pulsing

(* Whatever its counters, a shot goes on or comes to rest.                 *)
Rests(g) ==
  \/ g.state = "ARMED" /\ g.sample_count = 0
  \/ g.state \in {"WAITING_SAMPLE", "WAITING_HIGH", "WAITING_LOW", "WAITING_REPEAT"}

LEMMA StateKept ==
  ASSUME NEW f \in Signals
  PROVE  /\ IncCycle(f).state = f.state /\ IncPeriod(f).state = f.state
         /\ StartSample(f).state = "WAITING_HIGH"
         /\ \A c \in Nat : StartBurst(f, c).state = "WAITING_HIGH"
  BY DEF IncCycle, IncPeriod, StartSample, StartBurst, Signals

LEMMA SampleRests ==
  ASSUME NEW f \in Signals PROVE Rests(DoWaitingSample(f))
<1>1. f.sample_count \in Nat /\ [f EXCEPT !.state = "WAITING_SAMPLE"] \in Signals
  BY PutType, StateNames
<1>2. StartBurst(f, f.sample_count) \in Signals
  BY <1>1, BurstType
<1>3. IncCycle(StartBurst(f, f.sample_count)).state = "WAITING_HIGH"
  BY <1>1, <1>2, StateKept
<1>4. IncCycle([f EXCEPT !.state = "WAITING_SAMPLE"]).state = "WAITING_SAMPLE"
  <2>1. [f EXCEPT !.state = "WAITING_SAMPLE"].state = "WAITING_SAMPLE"
    BY DEF Signals
  <2> QED
    BY <1>1, <2>1, StateKept
<1>5. Rests(DoError(f, "WAITING_SAMPLE"))
  BY ArmedFields, StateNames DEF Rests
<1>6. DoWaitingSample(f) \in {IncCycle(StartBurst(f, f.sample_count)), DoError(f, "WAITING_SAMPLE"),
                              IncCycle([f EXCEPT !.state = "WAITING_SAMPLE"])}
  BY DEF DoWaitingSample
<1> QED
  BY <1>3, <1>4, <1>5, <1>6 DEF Rests

LEMMA RepeatRests ==
  ASSUME NEW f \in Signals PROVE Rests(DoWaitingRepeat(f)) /\ Rests(StartWaitingRepeat(f))
<1>1. ASSUME NEW g \in Signals PROVE Rests(DoWaitingRepeat(g))
  <2>1. [g EXCEPT !.state = "WAITING_REPEAT"] \in Signals
    BY PutType, StateNames
  <2>2. IncCycle([g EXCEPT !.state = "WAITING_REPEAT"]).state = "WAITING_REPEAT"
    <3>1. [g EXCEPT !.state = "WAITING_REPEAT"].state = "WAITING_REPEAT"
      BY DEF Signals
    <3> QED
      BY <2>1, <3>1, StateKept
  <2>3. Rests(DoError(g, "WAITING_REPEAT")) /\ Rests(StartCycle(g))
    BY ArmedFields, CycleFields, StateNames DEF Rests
  <2> QED
    BY <2>2, <2>3 DEF DoWaitingRepeat, Rests
<1>2. [f EXCEPT !.repeat_count = @ + 1] \in Signals
  BY DEF Signals
<1>3. Rests(StartArmed(f))
  BY ArmedFields DEF Rests
<1> QED
  BY <1>1, <1>2, <1>3 DEF StartWaitingRepeat

LEMMA LowRests ==
  ASSUME NEW f \in Signals PROVE Rests(DoWaitingLow(f))
<1>1. Rests(DoError(f, "WAITING_SAMPLE")) /\ Rests(DoError(f, "WAITING_LOW"))
  BY ArmedFields, StateNames DEF Rests
<1>2. Rests(StartWaitingSample(f))
  BY <1>1, RepeatRests, SampleRests DEF StartWaitingSample
<1>3. [f EXCEPT !.burst_count = @ + 1] \in Signals /\ [f EXCEPT !.state = "WAITING_LOW"] \in Signals
  BY StateNames DEF Signals
<1>4. StartSample([f EXCEPT !.burst_count = @ + 1]) \in Signals
  BY <1>3, BurstType, 0 \in Nat
<1>5. IncCycle(StartSample([f EXCEPT !.burst_count = @ + 1])).state = "WAITING_HIGH"
  BY <1>3, <1>4, StateKept
<1>6. IncPeriod([f EXCEPT !.state = "WAITING_LOW"]).state = "WAITING_LOW"
  <2>1. [f EXCEPT !.state = "WAITING_LOW"].state = "WAITING_LOW"
    BY DEF Signals
  <2> QED
    BY <1>3, <2>1, StateKept
<1>7. DoWaitingLow(f) \in {StartWaitingSample(f), DoError(f, "WAITING_LOW"),
                           IncCycle(StartSample([f EXCEPT !.burst_count = @ + 1])),
                           IncPeriod([f EXCEPT !.state = "WAITING_LOW"])}
  BY DEF DoWaitingLow
<1> QED
  BY <1>1, <1>2, <1>5, <1>6, <1>7 DEF Rests

LEMMA HighRests ==
  ASSUME NEW f \in Signals PROVE Rests(DoWaitingHigh(f))
<1>1. Rests(DoError(f, "WAITING_HIGH"))
  BY ArmedFields, StateNames DEF Rests
<1> DEFINE st == IF f.period_ticks = head.width THEN "WAITING_LOW" ELSE "WAITING_HIGH"
<1>2. st \in States /\ st \in {"WAITING_LOW", "WAITING_HIGH"}
  BY StateNames
<1>3. DoWaitingHigh(f) \in {DoError(f, "WAITING_HIGH"), IncPeriod([f EXCEPT !.state = st])}
  BY DEF DoWaitingHigh
<1> HIDE DEF st
<1>4. [f EXCEPT !.state = st] \in Signals
  BY <1>2 DEF Signals
<1>5. IncPeriod([f EXCEPT !.state = st]).state = st
  <2>1. [f EXCEPT !.state = st].state = st
    BY DEF Signals
  <2> QED
    BY <1>4, <2>1, StateKept
<1> QED
  BY <1>1, <1>2, <1>3, <1>5 DEF Rests

(* The delay, and what ends it.                                            *)
LEMMA DelayFields ==
  ASSUME NEW f \in Signals, head \in [Heads -> Nat]
  PROVE  LET g == DoWaitingDelay(f)
         IN  /\ \/ g = StartCycle(f) /\ f.cycle_ticks = head.delay /\ head.repeat > 0 /\ head.count > 0
                \/ g = StartArmed(f) /\ f.cycle_ticks = head.delay
                \/ g = DoError(f, "WAITING_DELAY") /\ f.cycle_ticks > head.delay
                \/ /\ g.state = "WAITING_DELAY" /\ g.cycle_ticks = f.cycle_ticks + 1
                   /\ g.repeat_count = f.repeat_count /\ g.sample_count = f.sample_count
                   /\ g.error = f.error /\ f.cycle_ticks < head.delay
<1>1. f.cycle_ticks \in Nat /\ head.delay \in Nat
  BY PutType, StateNames, HeadFields
<1>2. CASE f.cycle_ticks < head.delay
  <2>1. DoWaitingDelay(f) = IncCycle([f EXCEPT !.state = "WAITING_DELAY"])
    BY <1>1, <1>2 DEF DoWaitingDelay
  <2> QED
    BY <1>2, <2>1 DEF IncCycle, Signals
<1>3. CASE f.cycle_ticks >= head.delay
  BY <1>1, <1>3 DEF DoWaitingDelay
<1> QED
  BY <1>1, <1>2, <1>3

LEMMA ProgramFields ==
  ASSUME NEW f \in Signals, head \in [Heads -> Nat]
  PROVE  LET g == StartProgram(f)
         IN  \/ /\ head.delay = 0
                /\ \E e \in Signals : /\ g = StartCycle(e) /\ e.repeat_count = 1 /\ e.error = f.error
             \/ /\ head.delay > 0 /\ g.state = "WAITING_DELAY" /\ g.cycle_ticks = 1
                /\ g.repeat_count = 1 /\ g.sample_count = f.sample_count /\ g.error = f.error
<1>1. head.delay \in Nat
  BY HeadFields
<1> DEFINE e == [f EXCEPT !.repeat_count = 1]
<1>2. e \in Signals /\ e.repeat_count = 1 /\ e.error = f.error /\ e.sample_count = f.sample_count
  BY DEF Signals
<1>3. CASE head.delay = 0
  <2>1. StartProgram(f) = StartCycle(e)
    BY <1>3 DEF StartProgram
  <2> HIDE DEF e
  <2> QED
    BY <1>2, <1>3, <2>1
<1>4. CASE head.delay > 0
  <2>1. StartProgram(f) = [e EXCEPT !.state = "WAITING_DELAY", !.cycle_ticks = 1]
    BY <1>4 DEF StartProgram
  <2> HIDE DEF e
  <2>2. /\ StartProgram(f).state = "WAITING_DELAY" /\ StartProgram(f).cycle_ticks = 1
        /\ StartProgram(f).repeat_count = 1 /\ StartProgram(f).sample_count = f.sample_count
        /\ StartProgram(f).error = f.error
    BY <1>2, <2>1 DEF Signals
  <2> QED
    BY <1>4, <2>2
<1> QED
  BY <1>1, <1>3, <1>4

(* A cycle that starts a shot starts it at the end of the delay.           *)
LEMMA FirstShot ==
  ASSUME Typed, Registers, SchedTick, fsm.sample_count = 0, NEW e \in Signals, e.repeat_count = 1,
         fsm' = StartCycle(e), ~Pulsing, ~excused', elapsed' = head.delay
  PROVE  InShot(head', times', fsm', elapsed', sample')
<1>1. fsm'.state \in {"WAITING_HIGH", "WAITING_SAMPLE"}
  BY CycleFields DEF Typed
<1>2. FirstCycle
  BY <1>1 DEF FirstCycle, Pulsing
<1>3. program = "whole" /\ Sound(head) /\ Read
  BY <1>2 DEF SchedTick
<1>4. Valid(head, times)
  BY <1>3 DEF Registers, Written, Progress
<1>5. /\ InCycle(head, times, fsm', 0, times[0]) /\ Round(fsm') = e.repeat_count - 1
      /\ fsm'.repeat_count = e.repeat_count
  BY <1>3, <1>4, StartLeads
<1>6. head' = head /\ times' = times /\ sample' = times[Index]
  BY <1>1, TickRegisters
<1>7. head \in [Heads -> Nat] /\ head.count \in Nat \ {0} /\ head.repeat \in Nat \ {0} /\ head.delay \in Nat
  BY <1>3, <1>4, HeadSound
<1>8. Index = 0
  BY <1>7 DEF Index
<1>9. Round(fsm') = 0 /\ fsm'.repeat_count <= head.repeat
  BY <1>5, <1>7
<1>10. head.delay - StartOf(head, 0) = 0
  BY <1>7, StartStep
<1> QED
  BY <1>3, <1>4, <1>5, <1>6, <1>8, <1>9, <1>10 DEF InShot

(* Whatever tick it is, the counters keep saying where the shot is.        *)
LEMMA TickShots ==
  ASSUME Typed, Registers, Shots, SchedTick PROVE Shots'
<1>1. /\ Now \in Signals /\ Now.state = fsm.state /\ Now.sample_count = fsm.sample_count
      /\ Now.repeat_count = fsm.repeat_count /\ Now.cycle_ticks = fsm.cycle_ticks
      /\ head \in [Heads -> Nat] /\ elapsed \in Nat /\ head.delay \in Nat /\ fsm.cycle_ticks \in Nat
  BY NowType, HeadFields, PutType, StateNames DEF Typed
<1>2. head' = head \/ fsm'.state = "ARMED"
  BY TickRegisters
<1>3. excused' = ((excused /\ ~Started) \/ (FirstCycle /\ ~(program = "whole" /\ Sound(head) /\ Read)))
  BY DEF SchedTick
<1>4. elapsed' = IF Shot /\ Shot' THEN elapsed + 1 ELSE 0
  BY DEF SchedTick
<1>5. ASSUME fsm'.state = "IDLE" PROVE Shots'
  BY <1>5 DEF Shots, Pulsing
<1>6. ASSUME fsm'.state = "ARMED", fsm'.sample_count = 0 PROVE Shots'
  BY <1>6 DEF Shots, Pulsing
<1>7. ASSUME fsm'.state \in {"WAITING_HIGH", "WAITING_SAMPLE", "WAITING_LOW", "WAITING_REPEAT"},
             ~excused' => InShot(head', times', fsm', elapsed', sample')
      PROVE  Shots'
  BY <1>7 DEF Shots, Pulsing
<1>8. CASE Disarmed
  <2>1. fsm'.state = "IDLE"
    BY <1>8, TickRegisters DEF Disarmed
  <2> QED
    BY <1>5, <2>1
<1>9. CASE Idle
  <2>1. fsm' = StartArmed(Now)
    BY <1>9 DEF Idle, Tick
  <2> QED
    BY <1>1, <1>6, <2>1, ArmedFields
<1>10. CASE Armed
  <2>1. fsm' = Now /\ fsm.state = "ARMED"
    BY <1>10 DEF Armed, Tick, In
  <2> QED
    BY <1>1, <1>6, <2>1 DEF Shots
<1>11. CASE Trigger
  <2>1. fsm' = StartProgram(Now) /\ fsm.state = "ARMED"
    BY <1>11 DEF Trigger, Tick, In
  <2>2. fsm.sample_count = 0 /\ ~Pulsing /\ ~Shot
    BY <2>1 DEF Shots, Shot, Pulsing
  <2>3. elapsed' = 0
    BY <1>4, <2>2
  <2>4. CASE head.delay = 0 /\ \E e \in Signals : fsm' = StartCycle(e) /\ e.repeat_count = 1
    <3>1. PICK e \in Signals : fsm' = StartCycle(e) /\ e.repeat_count = 1
      BY <2>4
    <3>2. fsm'.state \in {"WAITING_HIGH", "WAITING_SAMPLE"}
      BY <3>1, CycleFields
    <3>3. ~excused' => InShot(head', times', fsm', elapsed', sample')
      BY <2>2, <2>3, <2>4, <3>1, FirstShot
    <3> QED
      BY <1>7, <3>2, <3>3
  <2>5. CASE /\ head.delay > 0 /\ fsm'.state = "WAITING_DELAY" /\ fsm'.cycle_ticks = 1
             /\ fsm'.repeat_count = 1 /\ fsm'.sample_count = fsm.sample_count
    <3>1. fsm'.cycle_ticks = elapsed' + 1 /\ fsm'.cycle_ticks <= head'.delay
      BY <1>1, <1>2, <2>3, <2>5
    <3> QED
      BY <2>2, <2>5, <3>1 DEF Shots, Pulsing
  <2> QED
    BY <1>1, <2>1, <2>4, <2>5, ProgramFields
<1>12. CASE Delay
  <2>1. fsm' = DoWaitingDelay(Now) /\ fsm.state = "WAITING_DELAY"
    BY <1>12 DEF Delay, Tick, In
  <2>2. /\ fsm.sample_count = 0 /\ ~Pulsing /\ Shot /\ ~Started
        /\ fsm.cycle_ticks = elapsed + 1 /\ fsm.repeat_count = 1
        /\ ~excused => fsm.cycle_ticks <= head.delay
    BY <2>1 DEF Shots, Shot, Pulsing, Started
  <2>3. CASE fsm' = StartCycle(Now) /\ fsm.cycle_ticks = head.delay
    <3>1. fsm'.state \in {"WAITING_HIGH", "WAITING_SAMPLE"}
      BY <1>1, <2>3, CycleFields
    <3>2. elapsed' = head.delay
      BY <1>4, <2>2, <2>3, <3>1 DEF Shot, Pulsing
    <3>3. ~excused' => InShot(head', times', fsm', elapsed', sample')
      BY <1>1, <2>2, <2>3, <3>2, FirstShot
    <3> QED
      BY <1>7, <3>1, <3>3
  <2>4. CASE fsm' = StartArmed(Now) \/ fsm' = DoError(Now, "WAITING_DELAY")
    BY <1>1, <1>6, <2>4, ArmedFields, StateNames
  <2>5. CASE /\ fsm'.state = "WAITING_DELAY" /\ fsm'.cycle_ticks = fsm.cycle_ticks + 1
             /\ fsm'.repeat_count = fsm.repeat_count /\ fsm'.sample_count = fsm.sample_count
             /\ fsm.cycle_ticks < head.delay
    <3>1. elapsed' = elapsed + 1
      BY <1>4, <2>2, <2>5 DEF Shot
    <3>2. fsm'.cycle_ticks = elapsed' + 1 /\ fsm'.cycle_ticks <= head'.delay
      BY <1>1, <1>2, <2>2, <2>5, <3>1
    <3> QED
      BY <2>2, <2>5, <3>2 DEF Shots, Pulsing
  <2> QED
    BY <1>1, <2>1, <2>3, <2>4, <2>5, DelayFields
<1>13. CASE Sample \/ High \/ Low \/ Repeat
  <2>1. Pulsing /\ Shot /\ ctrl.init = 1 /\ ~Started
    BY <1>13 DEF Sample, High, Low, Repeat, In, Pulsing, Shot, Started
  <2>2. Rests(fsm')
    <3>1. \/ fsm' = DoWaitingSample(Now)
          \/ fsm' = DoWaitingHigh(Now)
          \/ fsm' = DoWaitingLow(Now)
          \/ fsm' = DoWaitingRepeat(Now)
      BY <1>13 DEF Sample, High, Low, Repeat, Tick
    <3> QED
      BY <1>1, <3>1, SampleRests, HighRests, LowRests, RepeatRests
  <2>3. CASE fsm'.state = "ARMED" /\ fsm'.sample_count = 0
    BY <1>6, <2>3
  <2>4. CASE fsm'.state \in {"WAITING_SAMPLE", "WAITING_HIGH", "WAITING_LOW", "WAITING_REPEAT"}
    <3>1. Shot' /\ elapsed' = elapsed + 1 /\ head' = head /\ times' = times
      BY <1>2, <1>4, <2>1, <2>4, TickRegisters DEF Shot, Pulsing
    <3>2. ASSUME ~excused' PROVE InShot(head', times', fsm', elapsed', sample')
      <4>1. ~excused
        BY <1>3, <2>1, <3>2
      <4> QED
        BY <2>1, <2>4, <3>1, <4>1, ShotTick
    <3> QED
      BY <1>7, <2>4, <3>2
  <2> QED
    BY <2>2, <2>3, <2>4 DEF Rests
<1> QED
  BY <1>8, <1>9, <1>10, <1>11, <1>12, <1>13 DEF SchedTick, Ticks

(* A store that does not excuse the shot leaves its program alone.         *)
LEMMA WriteShots ==
  ASSUME Typed, Registers, Shots, SchedWrite PROVE Shots'
<1>1. Write /\ UNCHANGED <<fsm, sample, elapsed>> /\ excused' = (excused \/ Late(todo[1]))
  BY WriteHistory DEF Write
<1>2. CASE ~Shot
  BY <1>1, <1>2 DEF Shots, Shot, Pulsing
<1>3. CASE Shot
  <2>1. fsm.state # "ARMED"
    BY <1>3 DEF Shot, Pulsing
  <2>2. /\ todo[1].reg \notin Heads => head' = head
        /\ todo[1].reg \in Heads => head' = [head EXCEPT ![todo[1].reg] = todo[1].val]
        /\ todo[1].reg # "times" => times' = times
    BY <1>1, <2>1, WriteRegisters
  <2>3. CASE Pulsing
    <3>1. ASSUME ~excused' PROVE InShot(head', times', fsm', elapsed', sample')
      <4>1. ~excused /\ todo[1].reg \notin Heads /\ todo[1].reg # "times"
        BY <1>1, <2>3, <3>1 DEF Late
      <4> QED
        BY <1>1, <2>2, <2>3, <4>1 DEF Shots
    <3> QED
      BY <1>1, <2>1, <2>3, <3>1 DEF Shots, Pulsing
  <2>4. CASE fsm.state = "WAITING_DELAY"
    <3>1. ASSUME ~excused' PROVE fsm.cycle_ticks <= head'.delay
      <4>1. ~excused /\ fsm.cycle_ticks <= head.delay
        BY <1>1, <2>4, <3>1 DEF Shots
      <4>2. CASE todo[1].reg = "delay"
        <5>1. head \in [Heads -> Nat] /\ "delay" \in Heads
          BY Names DEF Typed
        <5>2. head'.delay = todo[1].val
          BY <2>2, <4>2, <5>1
        <5>3. ~(todo[1].val < fsm.cycle_ticks)
          BY <1>1, <2>4, <3>1, <4>2 DEF Late
        <5>4. todo[1].val \in Nat /\ fsm.cycle_ticks \in Nat
          <6>1. todo[1] \in Stores
            BY <1>1, TailItems DEF Write, Typed
          <6> QED
            BY <6>1, <4>2, <5>1, StoreFields, PutType, StateNames DEF Typed
        <5> QED
          BY <5>2, <5>3, <5>4
      <4>3. CASE todo[1].reg # "delay"
        <5>1. head \in [Heads -> Nat]
          BY DEF Typed
        <5>2. head'.delay = head.delay
          BY <2>2, <4>3, <5>1, Names
        <5> QED
          BY <4>1, <5>2
      <4> QED
        BY <4>2, <4>3
    <3> QED
      BY <1>1, <2>4, <3>1 DEF Shots, Pulsing
  <2> QED
    BY <1>3, <2>3, <2>4 DEF Shot
<1> QED
  BY <1>2, <1>3

LEMMA CallShots ==
  ASSUME Shots, SchedCall PROVE Shots'
<1>1. UNCHANGED <<head, times, sample, fsm, elapsed, excused>>
  BY DEF SchedCall, Make, Arm, Disarm, Trig, ReinitOff, Reinit, Call, history
<1> QED
  BY <1>1 DEF Shots, Pulsing

(* Arithmetic of pulses: the a-th tick, u more, a signal of w ticks in p.   *)
LEMMA PulseSpan ==
  ASSUME NEW a \in Nat, NEW u \in Nat, NEW w \in Nat, NEW p \in Nat, NEW T \in Nat, NEW x \in Nat
  PROVE  /\ w < p /\ u + p <= T /\ a + u <= x /\ x < a + u + w => a <= x /\ x < a + T
         /\ u + p <= T /\ w < p => a + u \in Nat /\ a + u + w <= a + T
         /\ \A q \in 1 .. p : x = a + u + q - 1 => a + u <= x /\ x < a + u + p
         /\ \A q \in 1 .. w : x = a + u + q - 1 => a + u <= x /\ x < a + u + w
         /\ \A q \in w + 1 .. p : x = a + u + q - 1 => a + u + w <= x /\ x < a + u + p
         /\ \A v \in Nat : a + u <= x /\ x < a + u + v <=> u <= x - a /\ x - a < u + v
  OBVIOUS

(* The signal within a cycle.                                              *)
LEMMA CyclePulse ==
  ASSUME NEW h \in [Heads -> Nat], NEW t \in [0 .. MaxSamples - 1 -> Nat], Valid(h, t),
         NEW f \in Signals, NEW x, NEW s, InCycle(h, t, f, x, s)
  PROVE  f.state = "WAITING_HIGH" <=>
           \E i \in 0 .. h.count - 1, b \in 0 .. h.burst - 1 :
             t[i] + b * h.period <= x /\ x < t[i] + b * h.period + h.width
<1>1. /\ h.count \in Nat /\ h.burst \in Nat /\ h.period \in Nat /\ h.width \in Nat
      /\ h.width < h.period /\ x \in Nat /\ Train(h) \in Nat
      /\ f.sample_count \in Nat /\ f.burst_count \in Nat /\ f.period_ticks \in Nat
  BY HeadFields, TrainType, PutType, StateNames DEF Valid, InCycle
<1>0. PICK w, p, T : w = h.width /\ p = h.period /\ T = Train(h)
  OBVIOUS
<1>4. w \in Nat /\ p \in Nat /\ T \in Nat /\ x \in Nat /\ w < p
  BY <1>0, <1>1
<1>2. ASSUME f.state = "WAITING_HIGH"
      PROVE  \E i \in 0 .. h.count - 1, b \in 0 .. h.burst - 1 :
               t[i] + b * h.period <= x /\ x < t[i] + b * h.period + h.width
  <2>1. InPulse(h, t, f, x)
    BY <1>2 DEF InCycle
  <2>2. PICK i, b, u, q : /\ i = f.sample_count - 1 /\ b = f.burst_count - 1 /\ u = b * h.period
                          /\ q = f.period_ticks
    OBVIOUS
  <2>3. i \in 0 .. h.count - 1 /\ t[i] \in Nat /\ b \in Nat /\ f.burst_count <= h.burst /\ u \in Nat
    BY <2>1, <2>2, PulseFields
  <2>4. q \in 1 .. h.width /\ x = t[i] + u + q - 1
    BY <1>2, <2>1, <2>2 DEF InPulse
  <2>5. b \in 0 .. h.burst - 1
    BY <1>1, <2>2, <2>3
  <2>6. t[i] + u <= x /\ x < t[i] + u + h.width
    <3>1. PICK a, v : a = t[i] /\ v = h.width
      OBVIOUS
    <3>2. a \in Nat /\ v \in Nat /\ u \in Nat /\ q \in 1 .. v /\ x = a + u + q - 1
      BY ONLY <1>1, <2>3, <2>4, <3>1
    <3>3. a + u <= x /\ x < a + u + v
      BY ONLY <3>2
    <3> QED
      BY ONLY <3>1, <3>3
  <2> QED
    BY <2>2, <2>3, <2>5, <2>6
<1>3. ASSUME NEW i \in 0 .. h.count - 1, NEW b \in 0 .. h.burst - 1,
             t[i] + b * h.period <= x, x < t[i] + b * h.period + h.width
      PROVE  f.state = "WAITING_HIGH"
  <2>1. PICK u : u = b * h.period
    OBVIOUS
  <2>2. b \in Nat /\ b < h.burst
    BY <1>1
  <2>3. u \in Nat /\ u + h.period <= Train(h)
    BY <1>1, <2>1, <2>2, MulMono DEF Train
  <2>4. PICK a : a = t[i]
    OBVIOUS
  <2>5. a \in Nat /\ u \in Nat /\ u + p <= T /\ a + u <= x /\ x < a + u + w
    BY <1>0, <1>3, <2>1, <2>3, <2>4, LastTime
  <2>12. a <= x /\ x < a + T
    BY ONLY <1>4, <2>5
  <2>6. t[i] <= x /\ x < t[i] + Train(h) /\ t[i] \in Nat
    BY <1>0, <2>4, <2>5, <2>12
  <2>7. ASSUME NEW j \in 0 .. h.count - 1, i < j PROVE x < t[j] /\ t[j] \in Nat
    <3>1. i \in 0 .. j - 1
      BY <2>7
    <3>2. t[i] + Train(h) <= t[j] /\ t[j] \in Nat
      BY <3>1, TimesApart
    <3> QED
      BY ONLY <1>1, <2>6, <3>2
  <2>8. ASSUME NEW j \in 0 .. h.count - 1, j < i PROVE t[j] + Train(h) <= x /\ t[j] \in Nat
    <3>1. j \in 0 .. i - 1
      BY <2>8
    <3>2. t[j] + Train(h) <= t[i] /\ t[j] \in Nat
      BY <3>1, TimesApart
    <3> QED
      BY ONLY <1>1, <2>6, <3>2
  <2>9. CASE f.state = "WAITING_LOW" /\ InPulse(h, t, f, x)
    <3>1. PICK c, d, v, q : /\ c = f.sample_count - 1 /\ d = f.burst_count - 1 /\ v = d * h.period
                            /\ q = f.period_ticks
      OBVIOUS
    <3>2. c \in 0 .. h.count - 1 /\ t[c] \in Nat /\ d \in Nat /\ v \in Nat
      BY <2>9, <3>1, PulseFields
    <3>3. x = t[c] + v + q - 1 /\ q \in h.width + 1 .. h.period
      BY <2>9, <3>1 DEF InPulse
    <3>4. d < h.burst
      <4>1. f.burst_count <= h.burst
        BY <2>9, PulseFields
      <4> QED
        BY <1>1, <3>1, <4>1
    <3>5. v + h.period <= Train(h)
      BY <1>1, <3>1, <3>2, <3>4, MulMono DEF Train
    <3>6. PICK d1 : d1 = t[c]
      OBVIOUS
    <3>12. d1 \in Nat /\ v \in Nat /\ x = d1 + v + q - 1 /\ q \in w + 1 .. p /\ v + p <= T
      BY <1>0, <3>2, <3>3, <3>5, <3>6
    <3>13. d1 <= x /\ x < d1 + T /\ v + w <= x - d1 /\ x - d1 < v + p
      BY ONLY <1>4, <3>12
    <3>7. c = i
      <4>1. ASSUME i < c PROVE FALSE
        <5>1. x < t[c]
          BY <2>7, <3>2, <4>1
        <5> QED
          BY <1>0, <1>4, <3>6, <3>12, <3>13, <5>1
      <4>2. ASSUME c < i PROVE FALSE
        <5>1. t[c] + Train(h) <= x
          BY <2>8, <3>2, <4>2
        <5> QED
          BY <1>0, <1>4, <3>6, <3>12, <3>13, <5>1
      <4> QED
        BY <1>1, <3>2, <4>1, <4>2
    <3>8. d1 = a
      BY <2>4, <3>6, <3>7
    <3>14. PICK y : y = x - a
      OBVIOUS
    <3>15. u <= y /\ y < u + w
      BY ONLY <1>4, <2>5, <3>14
    <3>16. v + w <= y /\ y < v + p /\ y \in Nat
      BY ONLY <1>4, <2>5, <2>12, <3>8, <3>12, <3>13, <3>14
    <3>9. CASE b < d
      <4>1. u + p <= v
        BY <1>0, <1>1, <2>1, <2>2, <3>1, <3>2, <3>9, MulMono
      <4> QED
        BY ONLY <1>4, <2>5, <3>12, <3>15, <3>16, <4>1
    <3>10. CASE d < b
      <4>1. v + p <= u
        BY <1>0, <1>1, <2>1, <2>2, <3>1, <3>2, <3>10, MulMono
      <4> QED
        BY ONLY <1>4, <2>5, <3>12, <3>15, <3>16, <4>1
    <3>11. CASE b = d
      <4>1. u = v
        BY <2>1, <3>1, <3>11
      <4> QED
        BY ONLY <1>4, <2>5, <3>12, <3>15, <3>16, <4>1
    <3> QED
      BY <2>2, <3>2, <3>9, <3>10, <3>11
  <2>10. CASE f.state = "WAITING_SAMPLE" /\ InWait(h, t, f, x)
    <3>1. PICK c : c = f.sample_count
      OBVIOUS
    <3>2. c \in 0 .. h.count - 1 /\ x < t[c] /\ (c > 0 => x >= t[c - 1] + Train(h))
      BY <2>10, <3>1 DEF InWait
    <3>3. t[c] \in Nat
      BY <3>2, LastTime
    <3>4. ~(c < i)
      <4>1. ASSUME c < i PROVE FALSE
        <5>1. t[c] + Train(h) <= x
          BY <2>8, <3>2, <4>1
        <5> QED
          BY <1>1, <3>2, <3>3, <5>1
      <4> QED
        BY <4>1
    <3>5. c # i
      BY <1>1, <2>6, <3>2
    <3>6. c > 0 /\ i < c
      BY <1>1, <3>2, <3>4, <3>5
    <3>7. c - 1 \in 0 .. h.count - 1 /\ (i = c - 1 \/ i < c - 1)
      BY <1>1, <3>2, <3>6
    <3>8. x >= t[c - 1] + Train(h) /\ t[c - 1] \in Nat
      BY <3>2, <3>6, <3>7, LastTime
    <3>9. CASE i = c - 1
      BY <1>1, <2>6, <3>8, <3>9
    <3>10. CASE i < c - 1
      <4>1. x < t[c - 1]
        BY <2>7, <3>7, <3>10
      <4> QED
        BY ONLY <1>1, <3>8, <4>1
    <3> QED
      BY <3>7, <3>9, <3>10
  <2>11. CASE f.state = "WAITING_REPEAT" /\ InPause(h, t, f, x)
    <3>1. x >= t[h.count - 1] + Train(h)
      BY <2>11 DEF InPause
    <3>2. t[i] <= t[h.count - 1] /\ t[h.count - 1] \in Nat
      BY LastTime
    <3> QED
      BY ONLY <1>1, <2>6, <3>1, <3>2
  <2> QED
    BY <2>9, <2>10, <2>11 DEF InCycle
<1> QED
  BY <1>2, <1>3

(* A place of a shot is in one cycle.                                      *)
LEMMA OneRound ==
  ASSUME NEW h \in [Heads -> Nat], NEW r \in Nat, NEW q \in Nat, NEW x \in Nat, x < h.cycle,
         NEW y \in Nat, y < h.cycle, StartOf(h, r) + x = StartOf(h, q) + y
  PROVE  r = q /\ x = y
<1>1. StartOf(h, r) \in Nat /\ StartOf(h, q) \in Nat /\ h.cycle \in Nat
  BY StartStep, HeadFields
<1>2. ~(r < q)
  <2>1. ASSUME r < q PROVE FALSE
    <3>1. StartOf(h, r) + h.cycle <= StartOf(h, q)
      BY <2>1, StartStep
    <3> QED
      BY <1>1, <3>1
  <2> QED
    BY <2>1
<1>3. ~(q < r)
  <2>1. ASSUME q < r PROVE FALSE
    <3>1. StartOf(h, q) + h.cycle <= StartOf(h, r)
      BY <2>1, StartStep
    <3> QED
      BY <1>1, <3>1
  <2> QED
    BY <2>1
<1>4. r = q
  BY <1>2, <1>3
<1> QED
  BY <1>1, <1>4

(* The signals of a shot are those of its schedule.                        *)
LEMMA OnSchedule ==
  ASSUME Typed, InShot(head, times, fsm, elapsed, sample)
  PROVE  /\ (fsm.state = "WAITING_HIGH") <=> PulseAt(elapsed)
         /\ (fsm.state # "WAITING_REPEAT") <=> GateAt(elapsed)
         /\ fsm.cycle_ticks <= MaxTime
<1>1. fsm \in Signals /\ elapsed \in Nat
  BY DEF Typed
<1>2. PICK r : r = Round(fsm)
  OBVIOUS
<1>3. Sound(head) /\ Valid(head, times) /\ r \in 0 .. head.repeat - 1
  BY <1>1, <1>2, ShotPlace
<1>4. PICK x \in Nat : InCycle(head, times, fsm, x, sample) /\ elapsed = StartOf(head, r) + x
  BY <1>1, <1>2, ShotPlace
<1>5. /\ head \in [Heads -> Nat] /\ times \in [0 .. MaxSamples - 1 -> Nat] /\ head.cycle \in Nat
      /\ head.width \in Nat /\ head.period \in Nat /\ head.burst \in Nat /\ head.count \in Nat
      /\ head.width < head.period /\ head.repeat \in Nat
  BY <1>3, HeadSound
<1>6. r \in Nat /\ Cycles = 0 .. head.repeat - 1 /\ r \in Cycles
  BY <1>3, <1>5 DEF Cycles
<1>7. x < head.cycle /\ x + 1 <= MaxTime /\ fsm.cycle_ticks = x + 1
  BY <1>1, <1>3, <1>4, <1>5, CycleBound DEF InCycle
<1> DEFINE L == times[head.count - 1]
<1>8. L \in Nat /\ Train(head) \in Nat /\ L + Train(head) <= head.cycle
  BY <1>3, EndAt DEF Valid
<1>9. \A q : CycleStart(q) = StartOf(head, q) /\ CycleEnd(q) = StartOf(head, q) + L + Train(head)
  BY DEF CycleStart, CycleEnd, BurstLength, StartOf, Train
<1>10. \A q \in Nat : StartOf(head, q) \in Nat
  BY <1>5, StartStep
<1>11. fsm.state # "WAITING_REPEAT" <=> x < L + Train(head)
  <2>1. /\ fsm.state # "WAITING_REPEAT" => x < L + Train(head)
        /\ fsm.state = "WAITING_REPEAT" => x >= L + Train(head)
    BY <1>1, <1>3, <1>4, <1>5, CycleBound
  <2> QED
    BY <1>8, <2>1
<1>12. fsm.state = "WAITING_HIGH" <=>
         \E i \in 0 .. head.count - 1, b \in 0 .. head.burst - 1 :
           times[i] + b * head.period <= x /\ x < times[i] + b * head.period + head.width
  BY <1>1, <1>3, <1>4, <1>5, CyclePulse
<1> HIDE DEF L
<1>13. GateAt(elapsed) <=> x < L + Train(head)
  <2>1. ASSUME x < L + Train(head) PROVE GateAt(elapsed)
    <3>1. CycleStart(r) <= elapsed /\ elapsed < CycleEnd(r)
      <4>1. StartOf(head, r) \in Nat
        BY <1>6, <1>10
      <4>2. StartOf(head, r) <= elapsed /\ elapsed < StartOf(head, r) + L + Train(head)
        BY <1>4, <1>8, <2>1, <4>1
      <4> QED
        BY <1>9, <4>2
    <3> QED
      BY <1>6, <3>1 DEF GateAt
  <2>2. ASSUME NEW q \in Cycles, CycleStart(q) <= elapsed, elapsed < CycleEnd(q)
        PROVE  x < L + Train(head)
    <3>1. q \in Nat /\ StartOf(head, q) \in Nat
      BY <1>5, <1>6, <1>10
    <3>2. PICK y : y = elapsed - StartOf(head, q)
      OBVIOUS
    <3>3. y \in Nat /\ elapsed = StartOf(head, q) + y /\ y < L + Train(head)
      BY <1>1, <1>8, <1>9, <2>2, <3>1, <3>2
    <3>4. y < head.cycle
      BY <1>5, <1>8, <3>3
    <3>5. x = y
      <4>1. StartOf(head, r) + x = StartOf(head, q) + y
        BY <1>4, <3>3
      <4>2. x \in Nat /\ x < head.cycle /\ head \in [Heads -> Nat] /\ r \in Nat /\ q \in Nat /\ y \in Nat
        BY ONLY <1>4, <1>5, <1>6, <1>7, <3>1, <3>3
      <4> QED
        BY ONLY <3>4, <4>1, <4>2, OneRound
    <3> QED
      BY <3>3, <3>5
  <2> QED
    BY <2>1, <2>2 DEF GateAt
<1>14. ASSUME NEW i \in 0 .. head.count - 1, NEW b \in 0 .. head.burst - 1
       PROVE  /\ times[i] + b * head.period \in Nat
              /\ times[i] + b * head.period + head.width <= head.cycle
  <2>1. PICK u : u = b * head.period
    OBVIOUS
  <2>2. b \in Nat /\ b < head.burst
    BY <1>5
  <2>3. u \in Nat /\ u + head.period <= Train(head)
    BY <1>5, <2>1, <2>2, MulMono DEF Train
  <2>4. times[i] \in Nat /\ times[i] <= L
    BY <1>3, <1>5, LastTime DEF L
  <2>5. times[i] + u \in Nat /\ times[i] + u + head.width <= head.cycle
    <3>1. times[i] + u \in Nat /\ times[i] + u + head.width <= times[i] + Train(head)
      BY <1>5, <1>8, <2>3, <2>4, PulseSpan
    <3> QED
      <4>1. PICK a, T, w, c : a = times[i] /\ T = Train(head) /\ w = head.width /\ c = head.cycle
        OBVIOUS
      <4>2. /\ a \in Nat /\ T \in Nat /\ w \in Nat /\ c \in Nat /\ L \in Nat /\ a <= L /\ L + T <= c
            /\ a + u \in Nat /\ a + u + w <= a + T
        BY ONLY <1>5, <1>8, <2>4, <3>1, <4>1
      <4>3. a + u + w <= c
        BY ONLY <4>2
      <4> QED
        BY ONLY <4>1, <4>2, <4>3
  <2> QED
    BY <2>1, <2>5
<1>15. PulseAt(elapsed) <=>
         \E i \in 0 .. head.count - 1, b \in 0 .. head.burst - 1 :
           times[i] + b * head.period <= x /\ x < times[i] + b * head.period + head.width
  <2>1. ASSUME NEW i \in 0 .. head.count - 1, NEW b \in 0 .. head.burst - 1,
               times[i] + b * head.period <= x, x < times[i] + b * head.period + head.width
        PROVE  PulseAt(elapsed)
    <3>1. PICK m : m = b * head.period
      OBVIOUS
    <3>2. m \in Nat /\ times[i] \in Nat
      <4>1. b \in Nat /\ b < head.burst
        BY <1>5
      <4> QED
        BY <1>3, <1>5, <3>1, <4>1, MulMono, LastTime
    <3>3. times[i] + m <= x /\ x < times[i] + m + head.width
      BY <2>1, <3>1
    <3>4. StartOf(head, r) + times[i] + m <= elapsed
          /\ elapsed < StartOf(head, r) + times[i] + m + head.width
      <4>1. StartOf(head, r) \in Nat
        BY <1>6, <1>10
      <4>2. PICK k : k = times[i] + m
        OBVIOUS
      <4>3. k \in Nat /\ k <= x /\ x < k + head.width
        BY <3>2, <3>3, <4>2
      <4>4. StartOf(head, r) + k <= elapsed /\ elapsed < StartOf(head, r) + k + head.width
        <5>1. PICK s, w : s = StartOf(head, r) /\ w = head.width
          OBVIOUS
        <5>2. /\ s \in Nat /\ w \in Nat /\ x \in Nat /\ elapsed = s + x
              /\ k \in Nat /\ k <= x /\ x < k + w
          BY ONLY <1>4, <1>5, <4>1, <4>3, <5>1, x \in Nat
        <5>3. s + k <= elapsed /\ elapsed < s + k + w
          BY ONLY <5>2
        <5> QED
          BY ONLY <5>1, <5>3
      <4>5. StartOf(head, r) + k = StartOf(head, r) + times[i] + m
        BY <3>2, <4>1, <4>2
      <4> QED
        BY <4>4, <4>5
    <3> QED
      BY <1>6, <1>9, <3>1, <3>4 DEF PulseAt
  <2>2. ASSUME NEW q \in Cycles, NEW i \in 0 .. head.count - 1, NEW b \in 0 .. head.burst - 1,
               CycleStart(q) + times[i] + b * head.period <= elapsed,
               elapsed < CycleStart(q) + times[i] + b * head.period + head.width
        PROVE  times[i] + b * head.period <= x /\ x < times[i] + b * head.period + head.width
    <3>1. PICK m : m = b * head.period
      OBVIOUS
    <3>2. m \in Nat /\ times[i] \in Nat
      <4>1. b \in Nat /\ b < head.burst
        BY <1>5
      <4> QED
        BY <1>3, <1>5, <3>1, <4>1, MulMono, LastTime
    <3>3. times[i] + m + head.width <= head.cycle
      BY <1>14, <3>1
    <3>4. q \in Nat /\ StartOf(head, q) \in Nat
      <4>1. q \in Nat
        BY ONLY <1>5, <1>6, q \in Cycles
      <4> QED
        BY ONLY <1>10, <4>1
    <3>5. PICK y : y = elapsed - StartOf(head, q)
      OBVIOUS
    <3>6. StartOf(head, q) + times[i] + m <= elapsed
          /\ elapsed < StartOf(head, q) + times[i] + m + head.width
      BY <1>9, <2>2, <3>1
    <3>7. y \in Nat /\ elapsed = StartOf(head, q) + y /\ times[i] + m <= y
          /\ y < times[i] + m + head.width
      <4>2. PICK k, st : k = times[i] + m /\ st = StartOf(head, q)
        OBVIOUS
      <4>3. k \in Nat /\ st \in Nat /\ st + k <= elapsed /\ elapsed < st + k + head.width
        <5>1. st + k = StartOf(head, q) + times[i] + m
          BY <3>2, <3>4, <4>2
        <5> QED
          BY <3>2, <3>4, <3>6, <4>2, <5>1
      <4>4. y = elapsed - st
        BY <3>5, <4>2
      <4>5. y \in Nat /\ elapsed = st + y /\ k <= y /\ y < k + head.width
        BY <1>1, <1>5, <4>3, <4>4
      <4> QED
        BY <4>2, <4>5
    <3>8. y < head.cycle
      BY ONLY <1>5, <3>2, <3>3, <3>7
    <3>9. x = y
      <4>1. StartOf(head, r) + x = StartOf(head, q) + y
        BY <1>4, <3>7
      <4>2. x \in Nat /\ x < head.cycle /\ head \in [Heads -> Nat] /\ r \in Nat /\ q \in Nat /\ y \in Nat
        BY ONLY <1>4, <1>5, <1>6, <1>7, <3>4, <3>7
      <4> QED
        BY ONLY <3>8, <4>1, <4>2, OneRound
    <3> QED
      BY <3>1, <3>7, <3>9
  <2>3. ASSUME PulseAt(elapsed)
        PROVE  \E i \in 0 .. head.count - 1, b \in 0 .. head.burst - 1 :
                 times[i] + b * head.period <= x /\ x < times[i] + b * head.period + head.width
    <3>1. PICK q \in Cycles, i \in 0 .. head.count - 1, b \in 0 .. head.burst - 1 :
            /\ CycleStart(q) + times[i] + b * head.period <= elapsed
            /\ elapsed < CycleStart(q) + times[i] + b * head.period + head.width
      BY <2>3 DEF PulseAt
    <3> QED
      BY <2>2, <3>1
  <2> QED
    BY <2>1, <2>3
<1> QED
  BY <1>7, <1>11, <1>12, <1>13, <1>15

-----------------------------------------------------------------------------
(* The invariant: types, registers and counters.                          *)
W7xInv == Typed /\ Registers /\ Shots

LEMMA InitShots == SchedInit => Shots
  BY DEF SchedInit, Init, Shots, Pulsing

LEMMA InvNext ==
  ASSUME W7xInv, [SchedNext]_schedVars PROVE W7xInv'
<1>1. Typed /\ Registers /\ Shots
  BY DEF W7xInv
<1>2. CASE SchedTick
  <2>1. Typed' /\ Shots'
    BY <1>1, <1>2, TickTyped, TickShots
  <2>2. Registers'
    <3>1. Written'
      BY <1>1, <1>2, TickWritten
    <3>2. /\ Waits(todo', ctrl'.init) /\ Holds(todo') /\ Empties(todo')
          /\ Still' /\ Saved' /\ Asked'
      BY <1>1, <1>2, TickOthers
    <3> QED
      BY <3>1, <3>2 DEF Registers
  <2> QED
    BY <2>1, <2>2 DEF W7xInv
<1>3. CASE SchedWrite
  <2>1. Typed' /\ Shots'
    BY <1>1, <1>3, WriteTyped, WriteShots
  <2>2. Registers'
    <3>1. Written'
      BY <1>1, <1>3, WriteWritten
    <3>2. /\ Waits(todo', ctrl'.init) /\ Holds(todo') /\ Empties(todo')
          /\ Still' /\ Saved' /\ Asked'
      BY <1>1, <1>3, WriteOthers
    <3> QED
      BY <3>1, <3>2 DEF Registers
  <2> QED
    BY <2>1, <2>2 DEF W7xInv
<1>4. CASE SchedCall
  BY <1>1, <1>4, CallStep, CallShots DEF W7xInv
<1>5. CASE UNCHANGED schedVars
  <2>1. UNCHANGED <<head, save, ctrl, times, todo, sample, fsm, elapsed, program, excused, asked>>
    BY <1>5 DEF schedVars, vars, history
  <2> QED
    BY <1>1, <2>1 DEF W7xInv, Typed, Registers, Shots, Written, Progress, Still, Saved, Asked, Pulsing
<1> QED
  BY <1>2, <1>3, <1>4, <1>5 DEF SchedNext

(* In every state: the registers hold a whole program that the library has  *)
(* accepted, or the stores say what is missing from it; and the counters of *)
(* the state machine are those of a place of its schedule.                 *)
THEOREM Invariance == SchedSpec => []W7xInv
<1>1. SchedInit => W7xInv
  BY InitTyped, InitRegisters, InitShots DEF W7xInv
<1>2. W7xInv /\ [SchedNext]_schedVars => W7xInv'
  BY InvNext
<1> QED
  BY <1>1, <1>2, PTL DEF SchedSpec

(* For any accepted program with a pulse, written in any order of calls and *)
(* ticks: signal and gate are those of the schedule at every tick from the *)
(* trigger to the last, and the counter of ticks does not overflow.        *)
THEOREM OnTime == SchedSpec => []Schedule
<1>1. W7xInv => Schedule
  BY OnSchedule DEF W7xInv, Shots, Schedule
<1> QED
  BY <1>1, Invariance, PTL

(* And the generator is armed again exactly when the last burst of the     *)
(* last cycle is over.                                                     *)
THEOREM ArmedAtEnd == SchedSpec => Rearmed
<1>1. ASSUME W7xInv, SchedTick, Pulsing, ~excused, ctrl.init = 1
      PROVE  fsm'.state = "ARMED" <=> elapsed + 1 = End
  <2>1. Typed /\ Shots
    BY <1>1 DEF W7xInv
  <2>2. fsm' \in Signals /\ elapsed + 1 \in Nat
    BY <1>1, <2>1, TickRegisters DEF Typed
  <2>3. CASE fsm'.state = "ARMED" /\ elapsed + 1 = End
    BY <2>3
  <2>4. CASE InShot(head, times, fsm', elapsed + 1, sample') /\ Pulsing'
    <3>1. elapsed + 1 < End
      BY <2>1, <2>2, <2>4, ShotBeforeEnd
    <3>2. fsm'.state # "ARMED"
      BY <2>4 DEF Pulsing
    <3> QED
      BY <2>2, <3>1, <3>2
  <2> QED
    BY <1>1, <2>1, <2>3, <2>4, ShotTick
<1>2. W7xInv /\ [SchedNext]_schedVars
        => [SchedTick /\ Pulsing /\ ~excused /\ ctrl.init = 1
              => (fsm'.state = "ARMED" <=> elapsed + 1 = End)]_schedVars
  BY <1>1
<1> QED
  BY <1>2, Invariance, PTL DEF SchedSpec, Rearmed

(* No program the library has accepted, with at least one pulse, takes the *)
(* state machine into its error state.                                     *)
THEOREM ErrorsAreExcused == SchedSpec => ErrorExcused
<1>1. ASSUME W7xInv, SchedNext, fsm'.error # fsm.error, fsm'.error # "NONE" PROVE excused
  <2> SUFFICES ASSUME ~excused PROVE FALSE
    BY <1>1 DEF W7xInv, Typed
  <2>1. Typed /\ Registers /\ Shots
    BY <1>1 DEF W7xInv
  <2>2. SchedTick
    <3>1. ~SchedWrite
      BY <1>1 DEF SchedWrite, Write
    <3>2. ~SchedCall
      BY <1>1 DEF SchedCall, Make, Arm, Disarm, Trig, ReinitOff, Reinit, Call
    <3> QED
      BY <1>1, <3>1, <3>2 DEF SchedNext
  <2>3. /\ Now \in Signals /\ Now.state = fsm.state /\ Now.cycle_ticks = fsm.cycle_ticks
        /\ head \in [Heads -> Nat] /\ Now.error # fsm'.error
    BY <1>1, <2>1, NowType DEF Typed
  <2>4. CASE Disarmed
    <3>1. fsm' = [Now EXCEPT !.state = "IDLE"]
      BY <2>4 DEF Disarmed, Tick
    <3>2. fsm'.error = Now.error
      BY <2>3, <3>1 DEF Signals
    <3> QED
      BY <2>3, <3>2
  <2>5. CASE Idle \/ Armed
    <3>1. fsm' = StartArmed(Now) \/ fsm' = Now
      BY <2>5 DEF Idle, Armed, Tick
    <3> QED
      BY <2>3, <3>1, ArmedFields
  <2>6. CASE Trigger
    <3>1. fsm' = StartProgram(Now)
      BY <2>6 DEF Trigger, Tick
    <3> QED
      BY <2>3, <3>1, ProgramFields, CycleFields
  <2>7. CASE Delay
    <3>1. fsm' = DoWaitingDelay(Now) /\ fsm.cycle_ticks <= head.delay
      BY <2>1, <2>7 DEF Delay, Tick, In, Shots
    <3>2. fsm.cycle_ticks \in Nat /\ head.delay \in Nat
      BY <2>1, <2>3, HeadFields, PutType, StateNames DEF Typed
    <3>3. ~(Now.cycle_ticks > head.delay)
      BY <2>3, <3>1, <3>2
    <3> QED
      BY <2>3, <3>1, <3>3, DelayFields, ArmedFields, CycleFields
  <2>8. CASE Sample \/ High \/ Low \/ Repeat
    <3>1. Pulsing /\ ctrl.init = 1
      BY <2>8 DEF Sample, High, Low, Repeat, In, Pulsing
    <3> QED
      BY <2>1, <2>2, <2>3, <3>1, ShotTick
  <2> QED
    BY <2>2, <2>4, <2>5, <2>6, <2>7, <2>8 DEF SchedTick, Ticks
<1>2. W7xInv /\ [SchedNext]_schedVars
        => [fsm'.error # fsm.error /\ fsm'.error # "NONE" => excused]_schedVars
  BY <1>1
<1> QED
  BY <1>2, Invariance, PTL DEF SchedSpec, ErrorExcused

(* At the end of a delay no half-written program starts: its count is 0    *)
(* from the library's first store to its last.                             *)
THEOREM NoPartStarts == SchedSpec => NoPartialProgram
<1>1. ASSUME W7xInv, SchedTick, fsm.state = "WAITING_DELAY", Pulsing'
      PROVE  program \in {"whole", "mixed"}
  <2> SUFFICES ASSUME program = "part" PROVE FALSE
    BY <1>1 DEF W7xInv, Typed
  <2>1. Typed /\ Registers
    BY <1>1 DEF W7xInv
  <2>2. head.count = 0
    BY <2>1 DEF Registers, Written, Progress
  <2>3. Delay
    <3>1. ~Disarmed
      BY <1>1, <2>1, TickRegisters DEF Disarmed, Pulsing
    <3> QED
      BY <1>1, <3>1 DEF SchedTick, Ticks, Idle, Armed, Trigger, Sample, High, Low, Repeat, In
  <2>4. fsm' = DoWaitingDelay(Now)
    BY <2>3 DEF Delay, Tick
  <2>5. Now \in Signals /\ head \in [Heads -> Nat]
    BY <2>1, NowType DEF Typed
  <2>6. fsm'.state \in {"ARMED", "WAITING_DELAY"}
    BY <2>2, <2>4, <2>5, DelayFields, ArmedFields, StateNames
  <2> QED
    BY <1>1, <2>6 DEF Pulsing
<1>2. W7xInv /\ [SchedNext]_schedVars
        => [SchedTick /\ fsm.state = "WAITING_DELAY" /\ Pulsing'
              => program \in {"whole", "mixed"}]_schedVars
  BY <1>1
<1> QED
  BY <1>2, Invariance, PTL DEF SchedSpec, NoPartialProgram

(* The trigger register starts no shot that trig() has not been called for *)
(* since the last: the bit is taken back as soon as the shot has begun.    *)
THEOREM OneShotACall == SchedSpec => OneShot
<1>1. W7xInv /\ [SchedNext]_schedVars => [Started /\ ctrl.trig = 1 => asked]_schedVars
  BY DEF W7xInv, Registers, Asked
<1> QED
  BY <1>1, Invariance, PTL DEF SchedSpec, OneShot
=============================================================================
