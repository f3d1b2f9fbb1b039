--------------------------- MODULE StreamFifoProofs ---------------------------
(***************************************************************************)
(* What the two older stream drivers promise, for FIFO and ring of any     *)
(* size, requests of any length and any number of samples and programs.    *)
(*                                                                         *)
(* OverflowTold needs the FIFO and the handler alone. Conservation needs   *)
(* the ring's indices as well, and a program that resizes the ring only    *)
(* while the driver is at rest (Careful): first the algebra of sequences   *)
(* and of a ring, then the invariant, then what each step does to the      *)
(* words on their way.                                                     *)
(***************************************************************************)
EXTENDS StreamPromises, TLAPS, SequenceTheorems

(* Each structure has the fields that probe gave it.                       *)
Shapes ==
  /\ fpga = [next |-> fpga.next, fifo |-> fpga.fifo, isr |-> fpga.isr,
             ier |-> fpga.ier, pend |-> fpga.pend]
  /\ dev = [busy |-> dev.busy, overflow |-> dev.overflow, half |-> dev.half,
            fifoBuffer |-> dev.fifoBuffer, bufSize |-> dev.bufSize,
            wIdx |-> dev.wIdx, rIdx |-> dev.rIdx, bufCount |-> dev.bufCount]
  /\ irq = [pc |-> irq.pc, occ |-> irq.occ, cur |-> irq.cur]
  /\ rd = [pc |-> rd.pc, rem |-> rd.rem, nonblock |-> rd.nonblock]
  /\ hist = [given |-> hist.given, gone |-> hist.gone, untold |-> hist.untold,
             aborted |-> hist.aborted, raced |-> hist.raced]

Types ==
  /\ fpga.fifo \in Seq(Word) /\ fpga.next \in Nat \ {0}
  /\ irq.occ \in Nat /\ irq.cur \in Word

(* A loss that nobody has been told of finds the FIFO still full, and the  *)
(* handler will look at the occupancy or has seen that it is full.         *)
Told ==
  /\ Len(fpga.fifo) <= FifoLen
  /\ hist.untold =>
       \/ dev.overflow
       \/ /\ Len(fpga.fifo) = FifoLen
          /\ irq.pc \in {"idle", "mask", "check"}
          /\ irq.pc = "check" => irq.occ = FifoLen

TInv == Shapes /\ Types /\ Told

(* What the steps do to the parts the proofs speak of.                     *)
LEMMA EmitDoes ==
  ASSUME Shapes, Emit
  PROVE  /\ Shapes' /\ UNCHANGED <<dev, irq, rd, prog>> /\ fpga'.next = fpga.next + 1
         /\ UNCHANGED <<hist.given, hist.raced>>
         /\ \/ /\ Len(fpga.fifo) < FifoLen /\ hist' = hist
               /\ fpga'.fifo = Append(fpga.fifo, fpga.next)
            \/ /\ ~(Len(fpga.fifo) < FifoLen) /\ fpga'.fifo = fpga.fifo
               /\ hist'.gone = hist.gone \cup {fpga.next}
               /\ hist'.untold = (hist.untold \/ irq.pc \in {"idle", "mask"})
  BY DEF Shapes, Emit, SetBits

(* The handler's steps that move no word.                                  *)
LEMMA IrqStays ==
  ASSUME Shapes, IrqEnter \/ IrqMask \/ IrqCheck \/ IrqExit
  PROVE  /\ Shapes' /\ irq.pc # "put" /\ irq'.pc # "put" /\ irq'.cur = irq.cur
         /\ UNCHANGED <<prog, hist, fpga.next, fpga.fifo>>
         /\ UNCHANGED <<dev.busy, dev.bufSize, dev.rIdx, dev.wIdx, dev.bufCount, dev.fifoBuffer>>
         /\ rd'.rem = rd.rem /\ \A p \in {"user", "take"} : rd'.pc = p <=> rd.pc = p
  BY DEF Shapes, IrqEnter, IrqMask, IrqCheck, IrqExit, SetBits, Woken

LEMMA IrqLooks ==
  ASSUME Shapes, IrqEnter \/ IrqMask \/ IrqCheck \/ IrqExit
  PROVE  \/ irq.pc = "idle" /\ irq'.pc = "mask" /\ irq'.occ = irq.occ /\ dev' = dev /\ dev.busy = 1
         \/ irq.pc = "mask" /\ irq'.pc = "check" /\ irq'.occ = Len(fpga.fifo) /\ dev' = dev
         \/ /\ irq.pc = "check" /\ irq'.pc = "loop" /\ irq'.occ = irq.occ
            /\ IF irq.occ >= FifoLen THEN dev'.overflow = TRUE ELSE dev' = dev
         \/ irq.pc = "loop" /\ irq'.pc = "idle" /\ irq'.occ = irq.occ /\ dev' = dev
  BY DEF Shapes, IrqEnter, IrqMask, IrqCheck, IrqExit, SetBits, Woken

LEMMA PopDoes ==
  ASSUME Shapes, IrqPop
  PROVE  /\ Shapes' /\ UNCHANGED <<dev, rd, prog, hist, fpga.next>>
         /\ irq.pc = "loop" /\ irq.occ > 0 /\ fpga'.fifo = Left
         /\ irq'.pc = "put" /\ irq'.occ = irq.occ - 1 /\ irq'.cur = Popped
  BY DEF Shapes, IrqPop

LEMMA PutDoes ==
  ASSUME Shapes, IrqPut
  PROVE  /\ Shapes' /\ UNCHANGED <<fpga, rd, prog, hist>>
         /\ irq.pc = "put" /\ irq'.pc = "loop" /\ irq'.occ = irq.occ /\ irq'.cur = Junk
         /\ dev.bufCount < dev.bufSize
         /\ UNCHANGED <<dev.busy, dev.overflow, dev.bufSize, dev.rIdx>>
         /\ dev'.fifoBuffer = [dev.fifoBuffer EXCEPT ![dev.wIdx] = irq.cur]
         /\ dev'.wIdx = (dev.wIdx + 1) % dev.bufSize /\ dev'.bufCount = dev.bufCount + 1
  BY DEF Shapes, IrqPut

(* A full ring: the word in hand is gone.                                  *)
LEMMA DropDoes ==
  ASSUME Shapes, IrqDrop \/ IrqAbort
  PROVE  /\ Shapes' /\ UNCHANGED <<dev, rd, prog, fpga.fifo, fpga.next>>
         /\ UNCHANGED <<hist.given, hist.untold, hist.raced>>
         /\ irq.pc = "put" /\ irq'.pc \in {"loop", "idle"} /\ irq'.cur = Junk
         /\ (irq'.occ = irq.occ \/ (irq'.occ = 0 /\ irq'.pc = "idle"))
         /\ hist'.gone = hist.gone \cup {irq.cur}
<1>1. CASE IrqDrop
  BY <1>1 DEF Shapes, IrqDrop
<1>2. CASE IrqAbort
  BY <1>2 DEF Shapes, IrqAbort
<1>3. QED  BY <1>1, <1>2

(* The program's steps, but for the one that takes a word.                 *)
LEMMA ReadingDoes ==
  ASSUME Shapes, Call \/ ReadSignal \/ (Reading /\ ~ReadTake)
  PROVE  /\ Shapes' /\ UNCHANGED <<fpga, dev, irq, prog, hist>>
         /\ rd.pc = "user" => prog = "run"
         /\ \/ rd'.pc # "take" /\ rd'.rem = rd.rem
            \/ \E n \in ReadLens : /\ rd'.pc = "take" /\ rd.pc = "occ"
                                   /\ rd'.rem = IF n < dev.bufCount THEN n ELSE dev.bufCount
  BY DEF Shapes, Call, ReadSignal, Reading, Select, ReadReady, ReadTest, ReadWait, ReadWoken, ReadOcc,
     ReadReturn, At

LEMMA TakeDoes ==
  ASSUME Shapes, ReadTake
  PROVE  /\ Shapes' /\ UNCHANGED <<fpga, irq, prog>>
         /\ UNCHANGED <<hist.gone, hist.untold, hist.raced>>
         /\ rd.pc = "take" /\ rd'.pc = "take" /\ rd.rem > 0 /\ rd'.rem = rd.rem - 1
         /\ UNCHANGED <<dev.busy, dev.overflow, dev.bufSize, dev.wIdx, dev.fifoBuffer>>
         /\ dev.bufCount \in Nat \ {0} =>
              /\ dev'.rIdx = (dev.rIdx + 1) % dev.bufSize /\ dev'.bufCount = dev.bufCount - 1
              /\ hist'.given = Append(hist.given, dev.fifoBuffer[dev.rIdx])
<1>1. CASE dev.bufCount <= 0
  BY <1>1 DEF Shapes, ReadTake
<1>2. CASE ~(dev.bufCount <= 0)
  BY <1>2 DEF Shapes, ReadTake
<1>3. QED  BY <1>1, <1>2

(* RESET and CLEAR: whatever the FIFO holds is gone, told or not.          *)
LEMMA EmptyDoes ==
  ASSUME Shapes, Reset \/ Clear
  PROVE  /\ Shapes' /\ UNCHANGED <<irq, rd, fpga.next, hist.given>>
         /\ prog \in {"open", "mode"} /\ prog' \in {"reset", "clear"}
         /\ UNCHANGED <<dev.busy, dev.bufSize, dev.rIdx, dev.wIdx, dev.bufCount, dev.fifoBuffer>>
         /\ fpga'.fifo = <<>> /\ hist'.gone = hist.gone \cup ToSet(fpga.fifo)
         /\ hist'.untold = FALSE /\ hist'.raced = (hist.raced \/ irq.pc # "idle")
  BY DEF Shapes, Reset, Clear, Stage

LEMMA SetDoes ==
  ASSUME Shapes, SetMode \/ ClearIer \/ Release
  PROVE  /\ Shapes' /\ UNCHANGED <<irq, rd, hist, fpga.next, fpga.fifo, dev.overflow>>
         /\ prog \in {"reset", "clear", "run"} /\ prog' \in {"mode", "run", "release"}
         /\ prog = "run" => rd.pc = "user"
         /\ UNCHANGED <<dev.busy, dev.bufSize, dev.rIdx, dev.wIdx, dev.bufCount, dev.fifoBuffer>>
  BY DEF Shapes, SetMode, ClearIer, Release, Stage, SetBits

LEMMA OpenDoes ==
  ASSUME Shapes, Open
  PROVE  /\ Shapes' /\ UNCHANGED <<fpga, irq, hist, rd.pc, rd.rem, dev.overflow>>
         /\ prog = "closed" /\ prog' = "open" /\ dev'.busy = 1
         /\ dev'.bufSize = BufSize /\ dev'.fifoBuffer = Fresh(BufSize)
         /\ dev'.rIdx = 0 /\ dev'.wIdx = 0 /\ dev'.bufCount = 0
  BY DEF Shapes, Open, Stage

LEMMA SizeDoes ==
  ASSUME Shapes, SetBufSize
  PROVE  /\ Shapes' /\ UNCHANGED <<fpga, irq, hist, rd, prog>>
         /\ UNCHANGED <<dev.busy, dev.overflow, dev.rIdx, dev.wIdx, dev.bufCount>>
         /\ Careful => prog = "open" /\ dev.bufCount = 0
         /\ dev'.bufSize \in BufSizes /\ dev'.fifoBuffer = Fresh(dev'.bufSize)
  BY DEF Shapes, SetBufSize

(* release: what the ring still holds is gone.                             *)
LEMMA FreeDoes ==
  ASSUME Shapes, ReleaseFree
  PROVE  /\ Shapes' /\ UNCHANGED <<fpga, irq, rd, hist.given, hist.untold, hist.raced>>
         /\ irq.pc = "idle" /\ prog = "release" /\ prog' = "closed"
         /\ UNCHANGED <<dev.overflow, dev.bufSize, dev.rIdx, dev.wIdx, dev.bufCount, dev.fifoBuffer>>
         /\ dev'.busy = 0 /\ hist'.gone = hist.gone \cup ToSet(Ring)
  BY DEF Shapes, ReleaseFree, Stage

LEMMA Steps ==
  ASSUME [Next]_vars
  PROVE  \/ Emit \/ IrqEnter \/ IrqMask \/ IrqCheck \/ IrqExit \/ IrqPop \/ IrqPut \/ IrqDrop \/ IrqAbort
         \/ Call \/ ReadSignal \/ (Reading /\ ~ReadTake) \/ ReadTake \/ Reset \/ Clear
         \/ SetMode \/ ClearIer \/ Release \/ Open \/ SetBufSize \/ ReleaseFree \/ UNCHANGED vars
  BY DEF Next, Irq, Reading, Calls

-----------------------------------------------------------------------------
(* An overflow is told.                                                    *)
LEMMA Capacity == FifoLen \in Nat \ {0}
  BY StreamAssumption

LEMMA ToldInit == Init => TInv
  BY StreamAssumption DEF Init, TInv, Shapes, Types, Told, Word

LEMMA ToldNext == ASSUME TInv, [Next]_vars PROVE TInv'
<1> USE DEF TInv
<1>1. fpga.fifo \in Seq(Word) /\ Len(fpga.fifo) \in Nat
  BY DEF Types
<1>2. CASE Emit
  <2>1. fpga.next \in Word /\ fpga'.next \in Nat \ {0}
    BY <1>2, EmitDoes DEF Types, Word
  <2>2. Types'
    <3>1. Append(fpga.fifo, fpga.next) \in Seq(Word)
      BY <1>1, <2>1
    <3>2. QED  BY <1>2, <2>1, <3>1, EmitDoes DEF Types
  <2>3. CASE Len(fpga.fifo) < FifoLen
    BY <1>1, <1>2, <2>1, <2>2, <2>3, Capacity, EmitDoes DEF Told
  <2>4. CASE ~(Len(fpga.fifo) < FifoLen)
    <3>1. Len(fpga.fifo) = FifoLen
      BY <1>1, <2>4, Capacity DEF Told
    <3>2. QED  BY <1>2, <2>2, <2>4, <3>1, EmitDoes DEF Told
  <2>5. QED  BY <2>3, <2>4
<1>3. CASE IrqEnter \/ IrqMask \/ IrqCheck \/ IrqExit
  BY <1>1, <1>3, Capacity, IrqStays, IrqLooks DEF Types, Told
<1>4. CASE IrqPop
  <2>1. Left \in Seq(Word) /\ Popped \in Word /\ Len(Left) <= Len(fpga.fifo)
    BY <1>1 DEF Left, Popped, Word
  <2>2. Types' /\ Told'
    BY <1>1, <1>4, <2>1, Capacity, PopDoes DEF Types, Told
  <2>3. QED  BY <1>4, <2>2, PopDoes
<1>5. CASE IrqPut
  BY <1>5, PutDoes DEF Types, Told, Word
<1>6. CASE IrqDrop \/ IrqAbort
  BY <1>6, DropDoes DEF Types, Told, Word
<1>7. CASE Call \/ ReadSignal \/ (Reading /\ ~ReadTake)
  BY <1>7, ReadingDoes DEF Types, Told
<1>8. CASE ReadTake
  BY <1>8, TakeDoes DEF Types, Told
<1>9. CASE Reset \/ Clear
  <2>1. fpga'.fifo \in Seq(Word) /\ Len(fpga'.fifo) = 0
    <3>1. fpga'.fifo = <<>>
      BY <1>9, EmptyDoes
    <3>2. QED  BY <3>1, EmptySeq
  <2>2. Shapes' /\ UNCHANGED <<irq, fpga.next>> /\ hist'.untold = FALSE
    BY <1>9, EmptyDoes
  <2>3. QED  BY <2>1, <2>2, Capacity DEF Types, Told
<1>10. CASE SetMode \/ ClearIer \/ Release
  BY <1>10, SetDoes DEF Types, Told
<1>11. CASE Open
  BY <1>11, OpenDoes DEF Types, Told
<1>12. CASE SetBufSize
  BY <1>12, SizeDoes DEF Types, Told
<1>13. CASE ReleaseFree
  BY <1>13, FreeDoes DEF Types, Told
<1>14. CASE UNCHANGED vars
  BY <1>14 DEF Shapes, Types, Told, vars
<1>15. QED
  BY <1>2, <1>3, <1>4, <1>5, <1>6, <1>7, <1>8, <1>9, <1>10, <1>11, <1>12, <1>13, <1>14, Steps

(* A sample that found the FIFO full, with no handler at work, has raised  *)
(* fifoOverflow before a word leaves the FIFO, whatever the program does.  *)
THEOREM OverflowIsTold == Spec => []OverflowTold
<1>1. TInv /\ [Next]_vars => TInv'
  BY ToldNext
<1>2. TInv => OverflowTold
  BY Capacity DEF TInv, Types, Told, OverflowTold
<1>3. QED  BY <1>1, <1>2, ToldInit, PTL DEF Spec

-----------------------------------------------------------------------------
(* Associativity, as the provers like to cite it.                           *)
Assoc(a, b, c) == (a \o b) \o c = a \o (b \o c)

LEMMA Associates ==
  ASSUME NEW S, NEW a \in Seq(S), NEW b \in Seq(S), NEW c \in Seq(S) PROVE Assoc(a, b, c)
  BY ConcatAssociative DEF Assoc

(* Sequences: the last of the second, the first of the second, the first of *)
(* the first.                                                              *)
LEMMA AppendConcat ==
  ASSUME NEW S, NEW s \in Seq(S), NEW t \in Seq(S), NEW x \in S
  PROVE  s \o Append(t, x) = Append(s \o t, x)
<1>1. s \o t \in Seq(S) /\ <<x>> \in Seq(S)
  OBVIOUS
<1>2. Append(t, x) = t \o <<x>> /\ Append(s \o t, x) = (s \o t) \o <<x>>
  BY <1>1, AppendIsConcat
<1>3. QED  BY <1>1, <1>2, ConcatAssociative

LEMMA HeadOver ==
  ASSUME NEW S, NEW s \in Seq(S), NEW t \in Seq(S), t # <<>>
  PROVE  Append(s, Head(t)) \o Tail(t) = s \o t
<1>1. Head(t) \in S /\ Tail(t) \in Seq(S) /\ <<Head(t)>> \in Seq(S)
  OBVIOUS
<1>2. t = <<Head(t)>> \o Tail(t)
  BY <1>1
<1>3. Append(s, Head(t)) = s \o <<Head(t)>>
  BY <1>1, AppendIsConcat
<1>4. Assoc(s, <<Head(t)>>, Tail(t))
  BY <1>1, Zenon, Associates
<1>5. QED  BY <1>2, <1>3, <1>4, Zenon DEF Assoc

LEMMA TailConcat ==
  ASSUME NEW S, NEW s \in Seq(S), NEW t \in Seq(S), s # <<>>
  PROVE  s \o t # <<>> /\ Head(s \o t) = Head(s) /\ Tail(s \o t) = Tail(s) \o t
<1>1. Head(s) \in S /\ Tail(s) \in Seq(S) /\ <<Head(s)>> \in Seq(S) /\ s = <<Head(s)>> \o Tail(s)
  OBVIOUS
<1>2. s \o t = <<Head(s)>> \o (Tail(s) \o t)
  BY <1>1, ConcatAssociative
<1>3. Tail(s) \o t \in Seq(S)
  BY <1>1
<1>4. QED  BY <1>1, <1>2, <1>3

(* w is the row of words: those given, in the ring, in hand, in the FIFO.  *)
Row(w, g, r, h, f) == w = g \o ((r \o h) \o f)

LEMMA RowGrows ==
  ASSUME NEW S, NEW g \in Seq(S), NEW r \in Seq(S), NEW h \in Seq(S), NEW f \in Seq(S),
         NEW x \in S, NEW w, Row(w, g, r, h, f)
  PROVE  Row(Append(w, x), g, r, h, Append(f, x))
<1>1. PICK l : l = r \o h
  OBVIOUS
<1>2. PICK m : m = l \o f
  OBVIOUS
<1>3. l \in Seq(S) /\ m \in Seq(S)
  BY <1>1, <1>2
<1>4. l \o Append(f, x) = Append(m, x)
  BY <1>2, <1>3, AppendConcat
<1>5. g \o Append(m, x) = Append(g \o m, x)
  BY <1>3, AppendConcat
<1>6. QED  BY <1>1, <1>2, <1>4, <1>5, Zenon DEF Row

LEMMA RowPops ==
  ASSUME NEW S, NEW g \in Seq(S), NEW r \in Seq(S), NEW f \in Seq(S), f # <<>>,
         NEW w, Row(w, g, r, <<>>, f)
  PROVE  Row(w, g, r, <<Head(f)>>, Tail(f))
<1>1. Head(f) \in S
  OBVIOUS
<1>2. r \o <<>> = r
  BY ConcatEmptySeq
<1>3. r \o <<Head(f)>> = Append(r, Head(f))
  BY <1>1, AppendIsConcat
<1>4. Append(r, Head(f)) \o Tail(f) = r \o f
  BY HeadOver
<1>5. QED  BY <1>2, <1>3, <1>4, Zenon DEF Row

LEMMA RowPuts ==
  ASSUME NEW S, NEW g \in Seq(S), NEW r \in Seq(S), NEW f \in Seq(S), NEW x \in S,
         NEW w, Row(w, g, r, <<x>>, f)
  PROVE  Row(w, g, Append(r, x), <<>>, f)
<1>1. Append(r, x) \in Seq(S)
  OBVIOUS
<1>2. Append(r, x) \o <<>> = Append(r, x)
  BY <1>1, ConcatEmptySeq
<1>3. Append(r, x) = r \o <<x>>
  BY AppendIsConcat
<1>4. QED  BY <1>2, <1>3, Zenon DEF Row

LEMMA RowTakes ==
  ASSUME NEW S, NEW g \in Seq(S), NEW r \in Seq(S), NEW h \in Seq(S), NEW f \in Seq(S),
         r # <<>>, NEW w, Row(w, g, r, h, f)
  PROVE  Row(w, Append(g, Head(r)), Tail(r), h, f)
<1>1. PICK t : t = h \o f
  OBVIOUS
<1>2. PICK q : q = r \o t
  OBVIOUS
<1>3. t \in Seq(S) /\ Tail(r) \in Seq(S)
  BY <1>1
<1>4. (r \o h) \o f = q /\ (Tail(r) \o h) \o f = Tail(r) \o t
  <2>1. Assoc(r, h, f) /\ Assoc(Tail(r), h, f)
    BY <1>3, Zenon, Associates
  <2>2. QED  BY <1>1, <1>2, <2>1, Zenon DEF Assoc
<1>5. q \in Seq(S) /\ q # <<>> /\ Head(q) = Head(r) /\ Tail(q) = Tail(r) \o t
  BY <1>2, <1>3, TailConcat
<1>6. Append(g, Head(q)) \o Tail(q) = g \o q
  BY <1>5, HeadOver
<1>7. QED  BY <1>4, <1>5, <1>6, Zenon DEF Row

(* Sequences of words, ordered: in two parts, and with the middle of three *)
(* taken out.                                                              *)
LEMMA InTwo ==
  ASSUME NEW s \in Seq(Word), NEW t \in Seq(Word)
  PROVE  /\ ToSet(s \o t) = ToSet(s) \cup ToSet(t)
         /\ Ordered(s \o t) <=> /\ Ordered(s) /\ Ordered(t)
                                /\ \A x \in ToSet(s), y \in ToSet(t) : x < y
<1> DEFINE w == s \o t
<1>1. PICK m, n \in Nat : m = Len(s) /\ n = Len(t)
  OBVIOUS
<1>2. /\ w \in Seq(Word) /\ Len(w) = m + n
      /\ \A i \in 1 .. m : w[i] = s[i]
      /\ \A i \in 1 .. n : w[m + i] = t[i]
  BY <1>1
<1>3. DOMAIN w = 1 .. m + n /\ DOMAIN s = 1 .. m /\ DOMAIN t = 1 .. n
  BY <1>1, <1>2
<1> HIDE DEF w
<1>4. \A i \in 1 .. m + n : i \in 1 .. m \/ (i - m \in 1 .. n /\ i = m + (i - m))
  OBVIOUS
<1>5. \A i \in 1 .. m + n : (i \in 1 .. m /\ w[i] = s[i]) \/ (i - m \in 1 .. n /\ w[i] = t[i - m])
  BY <1>2, <1>4
<1>6. ToSet(w) = ToSet(s) \cup ToSet(t)
  <2>1. ToSet(w) \subseteq ToSet(s) \cup ToSet(t)
    BY <1>3, <1>5 DEF ToSet
  <2>2. \A i \in 1 .. m : s[i] \in ToSet(w)
    BY <1>2, <1>3 DEF ToSet
  <2>3. \A i \in 1 .. n : t[i] \in ToSet(w)
    <3>1. \A i \in 1 .. n : m + i \in 1 .. m + n
      OBVIOUS
    <3>2. QED  BY <1>2, <1>3, <3>1 DEF ToSet
  <2>4. QED  BY <1>3, <2>1, <2>2, <2>3 DEF ToSet
<1>7. ASSUME Ordered(w) PROVE Ordered(s) /\ Ordered(t)
  <2>1. ASSUME NEW i \in 1 .. m, NEW j \in 1 .. m, i < j PROVE s[i] < s[j]
    <3>1. i \in 1 .. m + n /\ j \in 1 .. m + n
      OBVIOUS
    <3>2. w[i] < w[j]
      BY <1>3, <1>7, <2>1, <3>1 DEF Ordered
    <3>3. QED  BY <1>2, <3>2
  <2>2. ASSUME NEW i \in 1 .. n, NEW j \in 1 .. n, i < j PROVE t[i] < t[j]
    <3>1. m + i \in 1 .. m + n /\ m + j \in 1 .. m + n /\ m + i < m + j
      BY <2>2
    <3>2. w[m + i] < w[m + j]
      BY <1>3, <1>7, <3>1 DEF Ordered
    <3>3. QED  BY <1>2, <3>2
  <2>3. QED  BY <1>3, <2>1, <2>2 DEF Ordered
<1>8. ASSUME Ordered(w), NEW x \in ToSet(s), NEW y \in ToSet(t) PROVE x < y
  <2>1. PICK i \in 1 .. m, j \in 1 .. n : x = s[i] /\ y = t[j]
    BY <1>3 DEF ToSet
  <2>2. i \in 1 .. m + n /\ m + j \in 1 .. m + n /\ i < m + j
    OBVIOUS
  <2>3. QED  BY <1>2, <1>3, <1>8, <2>1, <2>2 DEF Ordered
<1>9. ASSUME Ordered(s), Ordered(t), \A x \in ToSet(s), y \in ToSet(t) : x < y
      PROVE  Ordered(w)
  <2> SUFFICES ASSUME NEW i \in 1 .. m + n, NEW j \in 1 .. m + n, i < j
               PROVE  w[i] < w[j]
    BY <1>3 DEF Ordered
  <2>1. CASE i \in 1 .. m /\ j \in 1 .. m
    BY <1>2, <1>3, <1>9, <2>1 DEF Ordered
  <2>2. CASE i \in 1 .. m /\ j \notin 1 .. m
    <3>1. w[i] = s[i] /\ j - m \in 1 .. n /\ w[j] = t[j - m]
      BY <1>5, <2>2
    <3>2. s[i] \in ToSet(s) /\ t[j - m] \in ToSet(t)
      BY <1>3, <2>2, <3>1 DEF ToSet
    <3>3. QED  BY <1>9, <3>1, <3>2
  <2>3. CASE i \notin 1 .. m
    <3>1. i - m \in 1 .. n /\ w[i] = t[i - m] /\ j - m \in 1 .. n /\ i - m < j - m
      BY <1>5, <2>3
    <3>2. w[j] = t[j - m]
      BY <1>2, <3>1
    <3>3. QED  BY <1>3, <1>9, <3>1, <3>2 DEF Ordered
  <2>4. QED  BY <2>1, <2>2, <2>3
<1>10. QED  BY <1>6, <1>7, <1>8, <1>9 DEF w

LEMMA One == ASSUME NEW x \in Word PROVE <<x>> \in Seq(Word) /\ ToSet(<<x>>) = {x} /\ Ordered(<<x>>)
  BY DEF ToSet, Ordered

LEMMA Empty == <<>> \in Seq(Word) /\ ToSet(<<>>) = {} /\ Ordered(<<>>)
<1>1. <<>> \in Seq(Word) /\ Len(<<>>) = 0
  BY EmptySeq
<1>2. DOMAIN <<>> = {}
  BY <1>1
<1>3. QED  BY <1>1, <1>2 DEF ToSet, Ordered

(* The words s of n - 1 samples, those in g being gone.                    *)
Kept(s, n, g) == /\ Ordered(s) /\ ToSet(s) = (1 .. n - 1) \ g
                 /\ g \subseteq 1 .. n - 1

LEMMA KeptGrows ==
  ASSUME NEW s \in Seq(Word), NEW n \in Nat \ {0}, NEW g, Kept(s, n, g)
  PROVE  Kept(Append(s, n), n + 1, g)
<1>1. n \in Word
  BY DEF Word
<1>2. Append(s, n) = s \o <<n>>
  BY <1>1, AppendIsConcat
<1>3. \A x \in ToSet(s) : x < n
  BY DEF Kept
<1>4. Ordered(s \o <<n>>) /\ ToSet(s \o <<n>>) = ToSet(s) \cup {n}
  <2>1. <<n>> \in Seq(Word) /\ ToSet(<<n>>) = {n} /\ Ordered(<<n>>)
    BY <1>1, One
  <2>2. /\ ToSet(s \o <<n>>) = ToSet(s) \cup ToSet(<<n>>)
        /\ Ordered(s \o <<n>>) <=> /\ Ordered(s) /\ Ordered(<<n>>)
                                   /\ \A x \in ToSet(s), y \in ToSet(<<n>>) : x < y
    BY <2>1, InTwo
  <2>3. QED  BY <1>3, <2>1, <2>2 DEF Kept
<1>5. ToSet(s) \cup {n} = (1 .. (n + 1) - 1) \ g /\ g \subseteq 1 .. (n + 1) - 1
  BY DEF Kept
<1>6. QED  BY <1>2, <1>4, <1>5 DEF Kept

LEMMA KeptLoses ==
  ASSUME NEW s, NEW n \in Nat \ {0}, NEW g, Kept(s, n, g)
  PROVE  Kept(s, n + 1, g \cup {n})
  BY DEF Kept

LEMMA KeptDrops ==
  ASSUME NEW a \in Seq(Word), NEW b \in Seq(Word), NEW c \in Seq(Word),
         NEW n \in Nat \ {0}, NEW g, Kept(a \o (b \o c), n, g)
  PROVE  Kept(a \o c, n, g \cup ToSet(b))
<1> DEFINE A == ToSet(a)
           B == ToSet(b)
           C == ToSet(c)
<1>1. b \o c \in Seq(Word)
  OBVIOUS
<1>2. A \cup (B \cup C) = (1 .. n - 1) \ g
  <2>1. ToSet(b \o c) = B \cup C
    BY InTwo
  <2>2. ToSet(a \o (b \o c)) = A \cup ToSet(b \o c)
    BY <1>1, InTwo
  <2>3. QED  BY <2>1, <2>2 DEF Kept
<1>3. /\ Ordered(a) /\ Ordered(c)
      /\ \A x \in A, y \in B \cup C : x < y
      /\ \A x \in B, y \in C : x < y
  <2>1. ToSet(b \o c) = B \cup C /\ (Ordered(b \o c) => Ordered(c) /\ \A x \in B, y \in C : x < y)
    BY InTwo
  <2>2. Ordered(a \o (b \o c)) =>
          Ordered(a) /\ Ordered(b \o c) /\ \A x \in A, y \in ToSet(b \o c) : x < y
    BY <1>1, InTwo
  <2>3. Ordered(a \o (b \o c))
    BY DEF Kept
  <2>4. QED  BY <2>1, <2>2, <2>3
<1>4. Ordered(a \o c) /\ ToSet(a \o c) = A \cup C
  BY <1>3, InTwo
<1> HIDE DEF A, B, C
<1>5. A \cap B = {} /\ B \cap C = {}
  BY <1>2, <1>3
<1>6. g \subseteq 1 .. n - 1
  BY DEF Kept
<1>7. A \cup C = (1 .. n - 1) \ (g \cup B) /\ g \cup B \subseteq 1 .. n - 1
  BY <1>2, <1>5, <1>6
<1>8. QED  BY <1>4, <1>7 DEF Kept, B

(* The word in hand, the FIFO or the ring goes, the rest closes up.         *)
LEMMA HandDrops ==
  ASSUME NEW g \in Seq(Word), NEW r \in Seq(Word), NEW f \in Seq(Word), NEW x \in Word,
         NEW w, Row(w, g, r, <<x>>, f), NEW v, Row(v, g, r, <<>>, f),
         NEW n \in Nat \ {0}, NEW k, Kept(w, n, k)
  PROVE  Kept(v, n, k \cup {x})
<1>1. PICK h : h = <<x>>
  OBVIOUS
<1>2. h \in Seq(Word) /\ ToSet(h) = {x}
  BY <1>1, One
<1>3. PICK a : a = g \o r
  OBVIOUS
<1>4. PICK t : t = h \o f
  OBVIOUS
<1>5. a \in Seq(Word) /\ t \in Seq(Word)
  BY <1>2, <1>3, <1>4
<1>6. w = a \o (h \o f)
  <2>1. (r \o h) \o f = r \o t
    <3>1. Assoc(r, h, f)
      BY <1>2, Zenon, Associates
    <3>2. QED  BY <1>4, <3>1, Zenon DEF Assoc
  <2>2. a \o t = g \o (r \o t)
    <3>1. Assoc(g, r, t)
      BY <1>5, Zenon, Associates
    <3>2. QED  BY <1>3, <3>1, Zenon DEF Assoc
  <2>3. QED  BY <1>1, <1>4, <2>1, <2>2, Zenon DEF Row
<1>7. v = a \o f
  <2>1. r \o <<>> = r
    BY ConcatEmptySeq
  <2>2. a \o f = g \o (r \o f)
    <3>1. Assoc(g, r, f)
      BY Zenon, Associates
    <3>2. QED  BY <1>3, <3>1, Zenon DEF Assoc
  <2>3. QED  BY <2>1, <2>2, Zenon DEF Row
<1>8. Kept(a \o f, n, k \cup ToSet(h))
  BY <1>2, <1>5, <1>6, KeptDrops
<1>9. QED  BY <1>2, <1>7, <1>8

LEMMA FifoDrops ==
  ASSUME NEW g \in Seq(Word), NEW r \in Seq(Word), NEW h \in Seq(Word), NEW f \in Seq(Word),
         NEW w, Row(w, g, r, h, f), NEW v, Row(v, g, r, h, <<>>),
         NEW n \in Nat \ {0}, NEW k, Kept(w, n, k)
  PROVE  Kept(v, n, k \cup ToSet(f))
<1>1. PICK e : e = <<>>
  OBVIOUS
<1>2. PICK l : l = r \o h
  OBVIOUS
<1>3. PICK a : a = g \o l
  OBVIOUS
<1>4. e \in Seq(Word) /\ l \in Seq(Word) /\ a \in Seq(Word)
  BY <1>1, <1>2, <1>3, EmptySeq
<1>5. f \o e = f /\ l \o e = l /\ a \o e = a
  BY <1>1, <1>4, ConcatEmptySeq
<1>6. a \o f = g \o (l \o f)
  <2>1. Assoc(g, l, f)
    BY <1>4, Zenon, Associates
  <2>2. QED  BY <1>3, <2>1, Zenon DEF Assoc
<1>7. w = a \o (f \o e) /\ v = a \o e
  BY <1>1, <1>2, <1>3, <1>5, <1>6, Zenon DEF Row
<1>8. Kept(a \o e, n, k \cup ToSet(f))
  BY <1>4, <1>7, KeptDrops
<1>9. QED  BY <1>7, <1>8

LEMMA RingDrops ==
  ASSUME NEW g \in Seq(Word), NEW r \in Seq(Word), NEW f \in Seq(Word),
         NEW w, Row(w, g, r, <<>>, f), NEW v, Row(v, g, <<>>, <<>>, f),
         NEW n \in Nat \ {0}, NEW k, Kept(w, n, k)
  PROVE  Kept(v, n, k \cup ToSet(r))
<1>1. r \o <<>> = r /\ <<>> \o <<>> = <<>> /\ <<>> \o f = f
  BY EmptySeq, ConcatEmptySeq
<1>2. w = g \o (r \o f) /\ v = g \o f
  BY <1>1, Zenon DEF Row
<1>3. QED  BY <1>2, KeptDrops

-----------------------------------------------------------------------------
(* A ring of n words with c of them from index r on, and the sequence of   *)
(* these c words.                                                          *)
Wrapped(x, n) == IF x < n THEN x ELSE x - n
IsRing(b, n, r, c) ==
  /\ n \in Nat \ {0} /\ b \in [0 .. n - 1 -> Word]
  /\ r \in Nat /\ r < n /\ c \in Nat /\ c <= n
Lists(q, b, n, r, c) ==
  /\ q \in Seq(Word) /\ Len(q) = c
  /\ \A k \in 1 .. c : q[k] = b[Wrapped(r + k - 1, n)]

(* The ring's indices are added modulo its size.                           *)
LEMMA Wrap ==
  ASSUME NEW n \in Nat \ {0}, NEW x \in Nat, x < n + n
  PROVE  x % n = Wrapped(x, n)
<1>1. CASE x < n
  BY <1>1 DEF Wrapped
<1>2. CASE x >= n
  BY <1>2 DEF Wrapped
<1>3. QED BY <1>1, <1>2

LEMMA ListsOne ==
  ASSUME NEW b, NEW n, NEW r, NEW c, IsRing(b, n, r, c),
         NEW p, Lists(p, b, n, r, c), NEW q, Lists(q, b, n, r, c)
  PROVE  p = q
<1>1. p \in Seq(Word) /\ q \in Seq(Word) /\ Len(p) = Len(q) /\ \A k \in 1 .. Len(p) : p[k] = q[k]
  BY DEF Lists
<1>2. QED  BY <1>1, SeqEqual

(* writeBuf appends, in the slot after the last.                            *)
LEMMA ListsStore ==
  ASSUME NEW b, NEW n, NEW r, NEW c, IsRing(b, n, r, c), c < n, NEW v \in Word,
         NEW q, Lists(q, b, n, r, c)
  PROVE  /\ IsRing([b EXCEPT ![Wrapped(r + c, n)] = v], n, r, c + 1)
         /\ Lists(Append(q, v), [b EXCEPT ![Wrapped(r + c, n)] = v], n, r, c + 1)
         /\ Wrapped(Wrapped(r + c, n) + 1, n) = Wrapped(r + (c + 1), n)
<1> DEFINE w == Wrapped(r + c, n)
           d == [b EXCEPT ![w] = v]
           t == Append(q, v)
<1>1. /\ n \in Nat \ {0} /\ b \in [0 .. n - 1 -> Word]
      /\ r \in Nat /\ r < n /\ c \in Nat
  BY DEF IsRing
<1>2. w \in 0 .. n - 1 /\ \A k \in 1 .. c : Wrapped(r + k - 1, n) \in 0 .. n - 1 \ {w}
  BY <1>1 DEF Wrapped
<1>3. d \in [0 .. n - 1 -> Word] /\ d[w] = v /\ \A i \in 0 .. n - 1 : i # w => d[i] = b[i]
  BY <1>1, <1>2
<1> HIDE DEF d
<1>4. q \in Seq(Word) /\ Len(q) = c /\ \A k \in 1 .. c : q[k] = b[Wrapped(r + k - 1, n)]
  BY DEF Lists
<1>5. /\ t \in Seq(Word) /\ Len(t) = c + 1 /\ t[c + 1] = v
      /\ \A k \in 1 .. c : t[k] = q[k]
  BY <1>1, <1>4, AppendProperties
<1> HIDE DEF t
<1>6. ASSUME NEW k \in 1 .. c + 1 PROVE t[k] = d[Wrapped(r + k - 1, n)]
  <2>1. k \in 1 .. c \/ k = c + 1
    BY <1>1
  <2>2. CASE k \in 1 .. c
    <3>1. Wrapped(r + k - 1, n) \in 0 .. n - 1 /\ Wrapped(r + k - 1, n) # w
      BY <1>2, <2>2
    <3>2. QED  BY <1>3, <1>4, <1>5, <2>2, <3>1
  <2>3. CASE k = c + 1
    <3>1. r + (c + 1) - 1 = r + c
      BY <1>1
    <3>2. QED  BY <1>3, <1>5, <2>3, <3>1
  <2>4. QED  BY <2>1, <2>2, <2>3
<1>7. IsRing(d, n, r, c + 1)
  BY <1>1, <1>3 DEF IsRing
<1>8. Lists(t, d, n, r, c + 1)
  BY <1>5, <1>6 DEF Lists
<1>9. Wrapped(w + 1, n) = Wrapped(r + (c + 1), n)
  BY <1>1 DEF Wrapped
<1>10. QED  BY <1>7, <1>8, <1>9 DEF d, t

(* readBuf takes the first.                                                *)
LEMMA ListsTake ==
  ASSUME NEW b, NEW n, NEW r, NEW c, IsRing(b, n, r, c), c # 0,
         NEW q, Lists(q, b, n, r, c)
  PROVE  /\ q # <<>> /\ Head(q) = b[r]
         /\ IsRing(b, n, Wrapped(r + 1, n), c - 1)
         /\ Lists(Tail(q), b, n, Wrapped(r + 1, n), c - 1)
         /\ Wrapped(Wrapped(r + 1, n) + (c - 1), n) = Wrapped(r + c, n)
<1> DEFINE w == Wrapped(r + 1, n)
<1>1. /\ n \in Nat \ {0} /\ b \in [0 .. n - 1 -> Word]
      /\ r \in Nat /\ r < n /\ c \in Nat \ {0} /\ c <= n
  BY DEF IsRing
<1>2. w \in Nat /\ w < n /\ Wrapped(r + 1 - 1, n) = r
  BY <1>1 DEF Wrapped
<1>3. q \in Seq(Word) /\ Len(q) = c /\ \A k \in 1 .. c : q[k] = b[Wrapped(r + k - 1, n)]
  BY DEF Lists
<1>4. \A k \in 1 .. c - 1 : Wrapped(w + k - 1, n) = Wrapped(r + (k + 1) - 1, n)
  BY <1>1 DEF Wrapped
<1>5. Wrapped(w + (c - 1), n) = Wrapped(r + c, n)
  BY <1>1 DEF Wrapped
<1> HIDE DEF w
<1>6. q # <<>> /\ Head(q) = b[r]
  BY <1>1, <1>2, <1>3
<1>7. Tail(q) \in Seq(Word) /\ Len(Tail(q)) = c - 1 /\ \A k \in 1 .. c - 1 : Tail(q)[k] = q[k + 1]
  BY <1>1, <1>3, <1>6, HeadTailProperties
<1>8. ASSUME NEW k \in 1 .. c - 1 PROVE Tail(q)[k] = b[Wrapped(w + k - 1, n)]
  <2>1. k + 1 \in 1 .. c
    BY <1>1
  <2>2. q[k + 1] = b[Wrapped(r + (k + 1) - 1, n)]
    BY <1>3, <2>1
  <2>3. QED  BY <1>4, <1>7, <2>2
<1>9. IsRing(b, n, w, c - 1)
  BY <1>1, <1>2 DEF IsRing
<1>10. Lists(Tail(q), b, n, w, c - 1)
  BY <1>7, <1>8 DEF Lists
<1>11. QED  BY <1>5, <1>6, <1>9, <1>10 DEF w
-----------------------------------------------------------------------------

-----------------------------------------------------------------------------
(* The ring between its indices. SET_BUFSIZE leaves them alone, and only a *)
(* program that asks for it before the first word makes that safe.         *)
Circle ==
  /\ IsRing(dev.fifoBuffer, dev.bufSize, dev.rIdx, dev.bufCount)
  /\ dev.wIdx = Wrapped(dev.rIdx + dev.bufCount, dev.bufSize)

(* Where the program is, and what it has read.                             *)
Stages ==
  /\ prog = "open" => dev.rIdx = 0
  /\ rd.pc # "user" => prog = "run"
  /\ rd.rem \in Nat /\ (rd.pc = "take" => rd.rem <= dev.bufCount)
  /\ dev.busy = (IF prog = "closed" THEN 0 ELSE 1)
  /\ prog = "closed" => irq.pc = "idle"
  /\ hist.given \in Seq(Word)

Placed == TInv /\ Circle /\ Stages

LEMMA FreshIs == ASSUME NEW n \in Nat \ {0}, NEW c, c = 0
                 PROVE  IsRing(Fresh(n), n, 0, c) /\ Wrapped(0 + c, n) = 0
  BY DEF Fresh, IsRing, Wrapped, Word

LEMMA PlacedInit == Init => Placed
<1> SUFFICES ASSUME Init PROVE Placed
  OBVIOUS
<1>1. /\ dev.rIdx = 0 /\ dev.bufCount = 0 /\ dev.wIdx = 0 /\ dev.busy = 0 /\ prog = "closed"
      /\ rd.pc = "user" /\ rd.rem = 0 /\ irq.pc = "idle" /\ hist.given = <<>>
      /\ dev.bufSize = BufSize /\ dev.fifoBuffer = Fresh(BufSize)
  BY DEF Init
<1>2. Circle
  BY <1>1, FreshIs, StreamAssumption DEF Circle
<1>3. Stages
  BY <1>1, Empty DEF Stages
<1>4. QED  BY <1>2, <1>3, ToldInit DEF Placed

(* The words on their way, part by part.                                   *)
InRing == IF dev.busy = 1 THEN Ring ELSE <<>>
InHand == IF irq.pc = "put" THEN <<irq.cur>> ELSE <<>>
All    == hist.given \o ((InRing \o InHand) \o fpga.fifo)

LEMMA LineLists ==
  ASSUME NEW b, NEW n, NEW r, NEW c, IsRing(b, n, r, c)
  PROVE  Lists([k \in 1 .. c |-> b[(r + k - 1) % n]], b, n, r, c)
<1>1. /\ n \in Nat \ {0} /\ b \in [0 .. n - 1 -> Word]
      /\ r \in Nat /\ r < n /\ c \in Nat /\ c <= n
  BY DEF IsRing
<1>2. ASSUME NEW k \in 1 .. c
      PROVE  /\ b[(r + k - 1) % n] = b[Wrapped(r + k - 1, n)]
             /\ b[Wrapped(r + k - 1, n)] \in Word
  <2>1. r + k - 1 \in Nat /\ r + k - 1 < n + n
    BY <1>1
  <2>2. (r + k - 1) % n = Wrapped(r + k - 1, n)
    BY <1>1, <2>1, Wrap
  <2>3. Wrapped(r + k - 1, n) \in 0 .. n - 1
    BY <1>1, <2>1 DEF Wrapped
  <2>4. QED  BY <1>1, <2>2, <2>3
<1> DEFINE q == [k \in 1 .. c |-> b[(r + k - 1) % n]]
<1>3. q \in Seq(Word) /\ Len(q) = c
  BY <1>1, <1>2
<1>4. \A k \in 1 .. c : q[k] = b[Wrapped(r + k - 1, n)]
  BY <1>2
<1>5. QED  BY <1>3, <1>4 DEF Lists

LEMMA RingLists ==
  Circle => /\ IsRing(dev.fifoBuffer, dev.bufSize, dev.rIdx, dev.bufCount)
            /\ Lists(Ring, dev.fifoBuffer, dev.bufSize, dev.rIdx, dev.bufCount)
  BY LineLists, Zenon DEF Circle, Ring

LEMMA Parts ==
  ASSUME Placed
  PROVE  /\ Ring \in Seq(Word) /\ InRing \in Seq(Word) /\ InHand \in Seq(Word)
         /\ InRing \o InHand \in Seq(Word) /\ (InRing \o InHand) \o fpga.fifo \in Seq(Word)
         /\ hist.given \in Seq(Word) /\ fpga.fifo \in Seq(Word) /\ All \in Seq(Word)
         /\ All = hist.given \o Transit
<1>1. Ring \in Seq(Word)
  BY RingLists DEF Placed, Lists
<1>2. irq.cur \in Word /\ fpga.fifo \in Seq(Word) /\ hist.given \in Seq(Word)
  BY DEF Placed, TInv, Types, Stages
<1>3. InRing \in Seq(Word) /\ InHand \in Seq(Word)
  BY <1>1, <1>2, Empty, One DEF InRing, InHand
<1>4. InRing \o InHand \in Seq(Word)
  BY <1>3
<1>5. (InRing \o InHand) \o fpga.fifo \in Seq(Word)
  BY <1>2, <1>4
<1>6. All \in Seq(Word)
  BY <1>2, <1>5 DEF All
<1>7. All = hist.given \o Transit
  BY DEF All, Transit, InRing, InHand
<1>8. QED  BY <1>1, <1>2, <1>3, <1>4, <1>5, <1>6, <1>7

(* writeBuf.                                                               *)
LEMMA PutCircle == ASSUME Placed, IrqPut PROVE Circle' /\ Ring' = Append(Ring, irq.cur)
<1> DEFINE n == dev.bufSize
           r == dev.rIdx
           c == dev.bufCount
           d == [dev.fifoBuffer EXCEPT ![Wrapped(r + c, n)] = irq.cur]
<1>1. IsRing(dev.fifoBuffer, n, r, c) /\ Lists(Ring, dev.fifoBuffer, n, r, c) /\ irq.cur \in Word
  BY RingLists DEF Placed, TInv, Types
<1>2. /\ dev.wIdx = Wrapped(r + c, n) /\ c < n
      /\ dev'.fifoBuffer = d /\ dev'.bufSize = n /\ dev'.rIdx = r /\ dev'.bufCount = c + 1
      /\ dev'.wIdx = (dev.wIdx + 1) % n
  BY PutDoes DEF Placed, TInv, Circle
<1>3. /\ IsRing(d, n, r, c + 1) /\ Lists(Append(Ring, irq.cur), d, n, r, c + 1)
      /\ Wrapped(Wrapped(r + c, n) + 1, n) = Wrapped(r + (c + 1), n)
  <2> HIDE DEF n, r, c
  <2>1. QED  BY <1>1, <1>2, SMT, ListsStore DEF d
<1>4. dev'.wIdx = Wrapped(r + (c + 1), n)
  <2> HIDE DEF n, r, c, d
  <2>1. n \in Nat \ {0} /\ dev.wIdx + 1 \in Nat /\ dev.wIdx + 1 < n + n
    <3>1. n \in Nat \ {0} /\ r \in Nat /\ r < n /\ c \in Nat /\ dev.wIdx = Wrapped(r + c, n) /\ c < n
      BY <1>1, <1>2 DEF IsRing
    <3>2. QED  BY ONLY <3>1 DEF Wrapped
  <2>2. (dev.wIdx + 1) % n = Wrapped(dev.wIdx + 1, n)
    BY <2>1, Wrap
  <2>3. QED  BY <1>2, <1>3, <2>2
<1>5. Circle'
  BY <1>2, <1>3, <1>4 DEF Circle
<1>6. Lists(Ring, dev.fifoBuffer, dev.bufSize, dev.rIdx, dev.bufCount)'
  BY <1>5, RingLists, PTL
<1>7. Lists(Ring', d, n, r, c + 1)
  BY <1>2, <1>6
<1>8. QED  BY <1>3, <1>5, <1>7, Zenon, ListsOne

(* readBuf.                                                                *)
LEMMA TakeCircle ==
  ASSUME Placed, ReadTake
  PROVE  /\ Circle' /\ Ring # <<>> /\ Ring' = Tail(Ring) /\ dev'.bufCount = dev.bufCount - 1
         /\ hist'.given = Append(hist.given, Head(Ring))
<1> DEFINE b == dev.fifoBuffer
           n == dev.bufSize
           r == dev.rIdx
           c == dev.bufCount
<1>1. IsRing(b, n, r, c) /\ Lists(Ring, b, n, r, c) /\ dev.wIdx = Wrapped(r + c, n)
  BY RingLists DEF Placed, Circle
<1>2. c \in Nat \ {0} /\ n \in Nat \ {0} /\ r + 1 \in Nat /\ r + 1 < n + n
  <2>1. rd.rem \in Nat /\ rd.rem > 0 /\ rd.rem <= c
    BY TakeDoes DEF Placed, TInv, Stages
  <2>2. QED  BY <1>1, <2>1 DEF IsRing
<1>3. /\ UNCHANGED <<dev.fifoBuffer, dev.bufSize, dev.wIdx>>
      /\ dev'.rIdx = (r + 1) % n /\ dev'.bufCount = c - 1
      /\ hist'.given = Append(hist.given, b[r])
  BY <1>2, TakeDoes DEF Placed, TInv
<1>4. (r + 1) % n = Wrapped(r + 1, n)
  BY <1>2, Wrap
<1>5. /\ Ring # <<>> /\ Head(Ring) = b[r]
      /\ IsRing(b, n, Wrapped(r + 1, n), c - 1)
      /\ Lists(Tail(Ring), b, n, Wrapped(r + 1, n), c - 1)
      /\ Wrapped(Wrapped(r + 1, n) + (c - 1), n) = Wrapped(r + c, n)
  <2>1. c # 0
    BY <1>2
  <2> HIDE DEF b, n, r, c
  <2>2. QED  BY <1>1, <2>1, SMT, ListsTake
<1>6. Circle'
  BY <1>1, <1>3, <1>4, <1>5 DEF Circle
<1>7. Lists(Ring, dev.fifoBuffer, dev.bufSize, dev.rIdx, dev.bufCount)'
  BY <1>6, RingLists, PTL
<1>8. Lists(Ring', b, n, Wrapped(r + 1, n), c - 1)
  BY <1>3, <1>4, <1>7
<1>9. Ring' = Tail(Ring)
  BY <1>5, <1>8, Zenon, ListsOne
<1>10. QED  BY <1>3, <1>5, <1>6, <1>9

LEMMA PlacedNext == ASSUME Careful, Placed, [Next]_vars PROVE Placed'
<1> USE DEF Placed, TInv
<1>1. TInv'
  BY ToldNext
<1>2. CASE Emit
  BY <1>1, <1>2, EmitDoes DEF Circle, Stages
<1>3. CASE IrqEnter \/ IrqMask \/ IrqCheck \/ IrqExit
  <2>1. Circle'
    BY <1>3, IrqStays DEF Circle
  <2>2. prog # "closed"
    <3>1. dev.busy = 1 \/ irq.pc # "idle"
      BY <1>3, IrqLooks
    <3>2. QED  BY <3>1 DEF Stages
  <2>3. QED  BY <1>1, <1>3, <2>1, <2>2, IrqStays DEF Stages
<1>4. CASE IrqPop
  BY <1>1, <1>4, PopDoes DEF Circle, Stages
<1>5. CASE IrqPut
  <2>1. Circle'
    BY <1>5, PutCircle
  <2>2. dev.bufCount \in Nat
    BY DEF Circle, IsRing
  <2>3. Stages'
    BY <1>5, <2>2, PutDoes DEF Stages
  <2>4. QED  BY <1>1, <2>1, <2>3
<1>6. CASE IrqDrop \/ IrqAbort
  BY <1>1, <1>6, DropDoes DEF Circle, Stages
<1>7. CASE Call \/ ReadSignal \/ (Reading /\ ~ReadTake)
  <2>1. dev.bufCount \in Nat /\ ReadLens \subseteq Nat
    BY StreamAssumption DEF Circle, IsRing
  <2>2. QED  BY <1>1, <1>7, <2>1, ReadingDoes DEF Circle, Stages
<1>8. CASE ReadTake
  <2>1. Circle' /\ dev'.bufCount = dev.bufCount - 1 /\ Ring # <<>>
        /\ hist'.given = Append(hist.given, Head(Ring))
    BY <1>8, TakeCircle
  <2>2. Ring \in Seq(Word) /\ dev.bufCount \in Nat
    BY Parts DEF Circle, IsRing
  <2>3. hist'.given \in Seq(Word)
    BY <2>1, <2>2 DEF Stages
  <2>4. Stages'
    BY <1>8, <2>1, <2>2, <2>3, TakeDoes DEF Stages
  <2>5. QED  BY <1>1, <2>1, <2>4
<1>9. CASE Reset \/ Clear
  BY <1>1, <1>9, EmptyDoes DEF Circle, Stages
<1>10. CASE SetMode \/ ClearIer \/ Release
  BY <1>1, <1>10, SetDoes DEF Circle, Stages
<1>11. CASE Open
  <2>1. Circle'
    BY <1>11, FreshIs, OpenDoes, StreamAssumption DEF Circle
  <2>2. Stages'
    BY <1>11, OpenDoes DEF Stages
  <2>3. QED  BY <1>1, <2>1, <2>2
<1>12. CASE SetBufSize
  <2>1. /\ dev.rIdx = 0 /\ dev.bufCount = 0 /\ dev'.bufSize \in Nat \ {0}
        /\ UNCHANGED <<dev.rIdx, dev.bufCount, dev.wIdx>> /\ dev'.fifoBuffer = Fresh(dev'.bufSize)
    BY <1>12, SizeDoes, StreamAssumption DEF Stages
  <2>2. dev.wIdx = 0
    BY <2>1 DEF Circle, IsRing, Wrapped
  <2>3. Circle'
    BY <2>1, <2>2, FreshIs DEF Circle
  <2>4. Stages'
    BY <1>12, SizeDoes DEF Stages
  <2>5. QED  BY <1>1, <2>3, <2>4
<1>13. CASE ReleaseFree
  BY <1>1, <1>13, FreeDoes DEF Circle, Stages
<1>14. CASE UNCHANGED vars
  BY <1>1, <1>14 DEF Circle, Stages, vars
<1>15. QED
  BY <1>2, <1>3, <1>4, <1>5, <1>6, <1>7, <1>8, <1>9, <1>10, <1>11, <1>12, <1>13, <1>14, Steps

-----------------------------------------------------------------------------
(* No word is lost, doubled or passed by another on its way; the handler   *)
(* finds in the FIFO the words it has counted.                             *)
Working == {"check", "loop", "put"}
Enough  == irq.pc \in Working => irq.occ <= Len(fpga.fifo)
Sound   == ~hist.raced => Kept(All, fpga.next, hist.gone) /\ Enough

LEMMA SoundInit == Init => Sound
<1> SUFFICES ASSUME Init PROVE Kept(All, fpga.next, hist.gone) /\ Enough
  BY DEF Sound
<1>1. /\ hist.given = <<>> /\ fpga.fifo = <<>> /\ fpga.next = 1 /\ hist.gone = {}
      /\ InRing = <<>> /\ InHand = <<>> /\ irq.pc = "idle"
  BY DEF Init, InRing, InHand
<1>2. All = <<>>
  BY <1>1, Empty, ConcatEmptySeq DEF All
<1>3. QED  BY <1>1, <1>2, Empty DEF Kept, Enough, Working

LEMMA AllRow == Row(All, hist.given, InRing, InHand, fpga.fifo)
  BY DEF Row, All

LEMMA OneRow ==
  ASSUME NEW v, NEW w, NEW g, NEW r, NEW h, NEW f, Row(v, g, r, h, f), Row(w, g, r, h, f)
  PROVE  v = w
  BY DEF Row

(* The FIFO gives its first word to the hand, the hand to the ring, the    *)
(* ring to the program.                                                    *)
LEMMA PopMoves == ASSUME Placed, Enough, IrqPop PROVE All' = All /\ Enough'
<1>1. /\ irq.pc = "loop" /\ irq.occ > 0 /\ irq.occ \in Nat /\ irq'.pc = "put" /\ irq'.occ = irq.occ - 1
      /\ irq'.cur = Popped /\ fpga'.fifo = Left /\ UNCHANGED <<dev, hist>>
  BY PopDoes DEF Placed, TInv, Types
<1>2. fpga.fifo # <<>> /\ fpga.fifo \in Seq(Word) /\ Len(fpga.fifo) \in Nat /\ irq.occ <= Len(fpga.fifo)
  BY <1>1, Parts DEF Enough, Working
<1>3. irq'.cur = Head(fpga.fifo) /\ fpga'.fifo = Tail(fpga.fifo)
  BY <1>1, <1>2 DEF Popped, Left
<1>4. Enough'
  <2>1. Len(Tail(fpga.fifo)) = Len(fpga.fifo) - 1
    BY <1>2
  <2>2. QED  BY <1>1, <1>2, <1>3, <2>1 DEF Enough
<1>5. InRing' = InRing /\ InHand = <<>> /\ InHand' = <<Head(fpga.fifo)>> /\ hist'.given = hist.given
  BY <1>1, <1>3 DEF InRing, Ring, InHand
<1>6. Row(All, hist.given, InRing, <<>>, fpga.fifo)
  BY <1>5, AllRow
<1>7. hist.given \in Seq(Word) /\ InRing \in Seq(Word)
  BY Parts
<1>8. Row(All, hist.given, InRing, <<Head(fpga.fifo)>>, Tail(fpga.fifo))
  BY <1>2, <1>6, <1>7, Zenon, RowPops
<1>9. Row(All', hist'.given, InRing', InHand', fpga'.fifo)
  BY DEF All, Row
<1>10. All' = All
  BY <1>3, <1>5, <1>8, <1>9, OneRow, Zenon
<1>11. QED  BY <1>4, <1>10

LEMMA PutMoves == ASSUME Placed, Enough, IrqPut PROVE All' = All /\ Enough'
<1>1. /\ irq.pc = "put" /\ irq'.pc = "loop" /\ irq'.occ = irq.occ
      /\ UNCHANGED <<fpga, hist, prog, dev.busy>> /\ irq.cur \in Word
  BY PutDoes DEF Placed, TInv, Types
<1>2. dev.busy = 1 /\ dev'.busy = 1
  BY <1>1 DEF Placed, Stages
<1>3. InRing = Ring /\ InRing' = Append(Ring, irq.cur) /\ InHand = <<irq.cur>> /\ InHand' = <<>>
  BY <1>1, <1>2, PutCircle DEF InRing, InHand
<1>4. Row(All, hist.given, Ring, <<irq.cur>>, fpga.fifo)
  BY <1>3, AllRow
<1>5. hist.given \in Seq(Word) /\ Ring \in Seq(Word) /\ fpga.fifo \in Seq(Word)
  BY Parts
<1>6. Row(All, hist.given, Append(Ring, irq.cur), <<>>, fpga.fifo)
  BY <1>1, <1>4, <1>5, Zenon, RowPuts
<1>7. Row(All', hist'.given, InRing', InHand', fpga'.fifo)
  BY DEF All, Row
<1>8. All' = All
  BY <1>1, <1>3, <1>6, <1>7, OneRow, Zenon
<1>9. QED  BY <1>1, <1>8 DEF Enough, Working

LEMMA TakeMoves == ASSUME Placed, Enough, ReadTake PROVE All' = All /\ Enough'
<1>1. UNCHANGED <<fpga, irq, prog, dev.busy>> /\ rd.pc = "take"
  BY TakeDoes DEF Placed, TInv
<1>2. dev.busy = 1
  BY <1>1 DEF Placed, Stages
<1>3. /\ Ring # <<>> /\ InRing = Ring /\ InRing' = Tail(Ring) /\ InHand' = InHand
      /\ hist'.given = Append(hist.given, Head(Ring))
  BY <1>1, <1>2, TakeCircle DEF InRing, InHand
<1>4. Row(All, hist.given, Ring, InHand, fpga.fifo)
  BY <1>3, AllRow
<1>5. hist.given \in Seq(Word) /\ Ring \in Seq(Word) /\ InHand \in Seq(Word) /\ fpga.fifo \in Seq(Word)
  BY Parts
<1>6. Row(All, Append(hist.given, Head(Ring)), Tail(Ring), InHand, fpga.fifo)
  BY <1>3, <1>4, <1>5, Zenon, RowTakes
<1>7. Row(All', hist'.given, InRing', InHand', fpga'.fifo)
  BY DEF All, Row
<1>8. All' = All
  BY <1>1, <1>3, <1>6, <1>7, OneRow, Zenon
<1>9. QED  BY <1>1, <1>8 DEF Enough

(* A word in hand that finds the ring full, a FIFO that is emptied, a ring *)
(* that is given up.                                                       *)
LEMMA DropMoves ==
  ASSUME Placed, Enough, Kept(All, fpga.next, hist.gone), IrqDrop \/ IrqAbort
  PROVE  Kept(All, fpga.next, hist.gone)' /\ Enough'
<1>1. /\ UNCHANGED <<dev, fpga.fifo, fpga.next, hist.given>> /\ irq.pc = "put"
      /\ irq'.pc \in {"loop", "idle"} /\ hist'.gone = hist.gone \cup {irq.cur}
      /\ (irq'.occ = irq.occ \/ (irq'.occ = 0 /\ irq'.pc = "idle")) /\ irq.cur \in Word
  BY DropDoes DEF Placed, TInv, Types
<1>2. InRing' = InRing /\ InHand = <<irq.cur>> /\ InHand' = <<>>
  BY <1>1 DEF InRing, Ring, InHand
<1>3. /\ hist.given \in Seq(Word) /\ InRing \in Seq(Word) /\ fpga.fifo \in Seq(Word)
      /\ fpga.next \in Nat \ {0}
  BY Parts DEF Placed, TInv, Types
<1>4. Row(All, hist.given, InRing, <<irq.cur>>, fpga.fifo)
  BY <1>2, AllRow
<1>5. Row(All', hist'.given, InRing', InHand', fpga'.fifo)
  BY DEF All, Row
<1>6. Row(All', hist.given, InRing, <<>>, fpga.fifo)
  BY <1>1, <1>2, <1>5
<1>7. Kept(All', fpga.next, hist.gone \cup {irq.cur})
  BY <1>1, <1>3, <1>4, <1>6, Zenon, HandDrops
<1>8. QED  BY <1>1, <1>7 DEF Enough, Working

LEMMA EmptyMoves ==
  ASSUME Placed, Kept(All, fpga.next, hist.gone), Reset \/ Clear, irq.pc = "idle"
  PROVE  Kept(All, fpga.next, hist.gone)' /\ Enough'
<1>1. /\ UNCHANGED <<irq, fpga.next, hist.given, dev.busy, dev.bufSize, dev.rIdx, dev.bufCount>>
      /\ UNCHANGED dev.fifoBuffer /\ fpga'.fifo = <<>> /\ hist'.gone = hist.gone \cup ToSet(fpga.fifo)
  BY EmptyDoes DEF Placed, TInv
<1>2. InRing' = InRing /\ InHand' = InHand
  BY <1>1 DEF InRing, Ring, InHand
<1>3. /\ hist.given \in Seq(Word) /\ InRing \in Seq(Word) /\ InHand \in Seq(Word)
      /\ fpga.fifo \in Seq(Word) /\ fpga.next \in Nat \ {0}
  BY Parts DEF Placed, TInv, Types
<1>4. Row(All', hist'.given, InRing', InHand', fpga'.fifo)
  BY DEF All, Row
<1>5. Row(All', hist.given, InRing, InHand, <<>>)
  BY <1>1, <1>2, <1>4
<1>6. Kept(All', fpga.next, hist.gone \cup ToSet(fpga.fifo))
  BY <1>3, <1>5, AllRow, Zenon, FifoDrops
<1>7. QED  BY <1>1, <1>6 DEF Enough, Working

LEMMA FreeMoves ==
  ASSUME Placed, Kept(All, fpga.next, hist.gone), ReleaseFree
  PROVE  Kept(All, fpga.next, hist.gone)' /\ Enough'
<1>1. /\ UNCHANGED <<fpga, irq, hist.given>> /\ irq.pc = "idle" /\ prog = "release"
      /\ dev'.busy = 0 /\ hist'.gone = hist.gone \cup ToSet(Ring)
  BY FreeDoes DEF Placed, TInv
<1>2. InRing = Ring /\ InRing' = <<>> /\ InHand = <<>> /\ InHand' = <<>>
  BY <1>1 DEF InRing, InHand, Placed, Stages
<1>3. /\ hist.given \in Seq(Word) /\ Ring \in Seq(Word) /\ fpga.fifo \in Seq(Word)
      /\ fpga.next \in Nat \ {0}
  BY Parts DEF Placed, TInv, Types
<1>4. Row(All, hist.given, Ring, <<>>, fpga.fifo)
  BY <1>2, AllRow
<1>5. Row(All', hist'.given, InRing', InHand', fpga'.fifo)
  BY DEF All, Row
<1>6. Row(All', hist.given, <<>>, <<>>, fpga.fifo)
  BY <1>1, <1>2, <1>5
<1>7. Kept(All', fpga.next, hist.gone \cup ToSet(Ring))
  BY <1>3, <1>4, <1>6, Zenon, RingDrops
<1>8. QED  BY <1>1, <1>7 DEF Enough, Working

(* A sample joins the row at its end, or is lost.                          *)
LEMMA EmitMoves ==
  ASSUME Placed, Enough, Kept(All, fpga.next, hist.gone), Emit
  PROVE  Kept(All, fpga.next, hist.gone)' /\ Enough'
<1>1. /\ UNCHANGED <<dev, irq, hist.given>> /\ fpga'.next = fpga.next + 1
      /\ \/ hist' = hist /\ fpga'.fifo = Append(fpga.fifo, fpga.next)
         \/ fpga'.fifo = fpga.fifo /\ hist'.gone = hist.gone \cup {fpga.next}
  BY EmitDoes DEF Placed, TInv
<1>2. InRing' = InRing /\ InHand' = InHand
  BY <1>1 DEF InRing, Ring, InHand
<1>3. fpga.next \in Word /\ fpga.next \in Nat \ {0} /\ fpga.fifo \in Seq(Word)
  BY Parts DEF Placed, TInv, Types, Word
<1>4. hist.given \in Seq(Word) /\ InRing \in Seq(Word) /\ InHand \in Seq(Word) /\ All \in Seq(Word)
  BY Parts
<1>5. Row(All', hist'.given, InRing', InHand', fpga'.fifo)
  BY DEF All, Row
<1>6. CASE hist' = hist /\ fpga'.fifo = Append(fpga.fifo, fpga.next)
  <2>1. Row(Append(All, fpga.next), hist.given, InRing, InHand, Append(fpga.fifo, fpga.next))
    BY <1>3, <1>4, AllRow, Zenon, RowGrows
  <2>2. All' = Append(All, fpga.next)
    BY <1>1, <1>2, <1>5, <1>6, <2>1, OneRow, Zenon
  <2>3. Kept(Append(All, fpga.next), fpga.next + 1, hist.gone)
    BY <1>3, <1>4, Zenon, KeptGrows
  <2>4. Len(fpga'.fifo) = Len(fpga.fifo) + 1 /\ Len(fpga.fifo) \in Nat /\ irq.occ \in Nat
    BY <1>3, <1>6 DEF Placed, TInv, Types
  <2>5. Enough'
    BY <1>1, <2>4 DEF Enough
  <2>6. QED  BY <1>1, <1>6, <2>2, <2>3, <2>5
<1>7. CASE fpga'.fifo = fpga.fifo /\ hist'.gone = hist.gone \cup {fpga.next}
  <2>1. All' = All
    BY <1>1, <1>2, <1>7 DEF All
  <2>2. Kept(All, fpga.next + 1, hist.gone \cup {fpga.next})
    BY <1>3, KeptLoses
  <2>3. QED  BY <1>1, <1>7, <2>1, <2>2 DEF Enough
<1>8. QED  BY <1>1, <1>6, <1>7

LEMMA SoundNext == ASSUME Careful, Placed, Placed', Sound, [Next]_vars PROVE Sound'
<1> SUFFICES ASSUME ~hist'.raced PROVE Kept(All, fpga.next, hist.gone)' /\ Enough'
  BY DEF Sound
<1> USE DEF Placed, TInv
<1>1. ~hist.raced
  <2>1. CASE Reset \/ Clear
    BY <2>1, EmptyDoes
  <2>2. CASE ~(Reset \/ Clear)
    <3>1. hist'.raced = hist.raced
      BY <2>2, Steps, EmitDoes, IrqStays, PopDoes, PutDoes, DropDoes, ReadingDoes, TakeDoes, SetDoes,
         OpenDoes, SizeDoes, FreeDoes DEF vars
    <3>2. QED  BY <3>1
  <2>3. QED  BY <2>1, <2>2
<1>2. Kept(All, fpga.next, hist.gone) /\ Enough
  BY <1>1 DEF Sound
<1>3. CASE Emit
  BY <1>2, <1>3, EmitMoves
<1>4. CASE IrqEnter \/ IrqMask \/ IrqCheck \/ IrqExit
  <2>1. All' = All
    BY <1>4, IrqStays DEF All, InRing, Ring, InHand
  <2>2. Enough'
    <3>1. irq'.pc \in Working => \/ irq'.occ = Len(fpga.fifo)
                                 \/ irq'.occ = irq.occ /\ irq.pc \in Working
      BY <1>4, IrqLooks DEF Working
    <3>2. fpga'.fifo = fpga.fifo /\ Len(fpga.fifo) \in Nat
      BY <1>4, IrqStays DEF Types
    <3>3. QED  BY <1>2, <3>1, <3>2 DEF Enough
  <2>3. QED  BY <1>2, <1>4, <2>1, <2>2, IrqStays
<1>5. CASE IrqPop
  BY <1>2, <1>5, PopMoves, PopDoes
<1>6. CASE IrqPut
  BY <1>2, <1>6, PutMoves, PutDoes
<1>7. CASE IrqDrop \/ IrqAbort
  BY <1>2, <1>7, DropMoves
<1>8. CASE Call \/ ReadSignal \/ (Reading /\ ~ReadTake)
  BY <1>2, <1>8, ReadingDoes DEF All, InRing, Ring, InHand, Enough
<1>9. CASE ReadTake
  BY <1>2, <1>9, TakeMoves, TakeDoes
<1>10. CASE Reset \/ Clear
  BY <1>2, <1>10, EmptyMoves, EmptyDoes
<1>11. CASE SetMode \/ ClearIer \/ Release
  BY <1>2, <1>11, SetDoes DEF All, InRing, Ring, InHand, Enough
<1>12. CASE Open
  <2>1. UNCHANGED <<fpga, irq, hist>> /\ dev.busy = 0 /\ dev'.bufCount = 0
    BY <1>12, OpenDoes DEF Stages
  <2>2. InRing = <<>> /\ InRing' = <<>> /\ InHand' = InHand
    BY <2>1 DEF InRing, Ring, InHand
  <2>3. QED  BY <1>2, <2>1, <2>2 DEF All, Enough
<1>13. CASE SetBufSize
  <2>1. UNCHANGED <<fpga, irq, hist, dev.busy>> /\ dev.bufCount = 0 /\ dev'.bufCount = 0
    BY <1>13, SizeDoes
  <2>2. UNCHANGED <<InRing, InHand>>
    BY <2>1 DEF InRing, Ring, InHand
  <2>3. QED  BY <1>2, <2>1, <2>2 DEF All, Enough
<1>14. CASE ReleaseFree
  BY <1>2, <1>14, FreeMoves
<1>15. CASE UNCHANGED vars
  BY <1>2, <1>15 DEF vars, All, InRing, Ring, InHand, Enough
<1>16. QED
  BY <1>3, <1>4, <1>5, <1>6, <1>7, <1>8, <1>9, <1>10, <1>11, <1>12, <1>13, <1>14, <1>15, Steps

(* Every sample is given once, is on its way, or is lost where the code    *)
(* says so, in the order of the source, over any number of programs, as    *)
(* long as they resize the ring only at rest and no RESET or CLEAR empties *)
(* the FIFO under a handler at work.                                       *)
THEOREM SamplesAreKept == ASSUME Careful PROVE Spec => []Conservation
<1>1. Placed /\ [Next]_vars => Placed'
  BY PlacedNext
<1>2. Placed /\ Placed' /\ Sound /\ [Next]_vars => Sound'
  BY SoundNext
<1>3. Placed /\ Sound => Conservation
  BY Parts DEF Sound, Kept, Conservation
<1>4. QED  BY <1>1, <1>2, <1>3, PlacedInit, SoundInit, PTL DEF Spec
=============================================================================
