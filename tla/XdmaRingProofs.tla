---------------------------- MODULE XdmaRingProofs ----------------------------
(***************************************************************************)
(* What holds of the two rings for any sizes, any window that leaves the   *)
(* receiver two buffers and a DMA engine that may fail: each ring is a     *)
(* queue, the program shares no buffer with either thread, and what a poll *)
(* has said is still so at the call that relies on it.                     *)
(*                                                                         *)
(* The invariant comes in layers, each proved with those before it:        *)
(*   Inv      the sending ring: where reader and writer may be             *)
(*   Wired    the receiving ring, and what setting up leaves behind        *)
(*   Lending  the buffer in hand: memory, addresses, semaphore             *)
(*   Flow     what the rings hold, against what was put in and taken out   *)
(***************************************************************************)
EXTENDS XdmaRing, TLAPS, SequenceTheorems

-----------------------------------------------------------------------------
(* Rings, whatever is in them.                                            *)
(* The remainder, for a number that is at most one round away.             *)
LEMMA Around ==
  ASSUME NEW n \in Nat \ {0}, NEW x \in Int, 0 - n <= x, x < n + n
  PROVE  x % n = IF x < 0 THEN x + n ELSE IF x < n THEN x ELSE x - n
  OBVIOUS

(* What lies strictly between two positions of a ring of n buffers.         *)
Between(b, n, r, w) == [i \in 1 .. (w - r - 1) % n |-> b[(r + i) % n]]

IsRing(b, n, r, w) ==
  /\ n \in Nat \ {0, 1} /\ b \in [0 .. n - 1 -> Nat] /\ r \in 0 .. n - 1 /\ w \in 0 .. n - 1

(* Their number, and the i-th of them after r.                             *)
Gap(n, r, w) == IF w > r THEN w - r - 1 ELSE w - r - 1 + n
Cell(n, r, i) == IF r + i < n THEN r + i ELSE r + i - n

(* How many buffers they are, and which.                                   *)
LEMMA BetweenShape ==
  ASSUME NEW b, NEW n, NEW r, NEW w, IsRing(b, n, r, w)
  PROVE  /\ Between(b, n, r, w) \in Seq(Nat)
         /\ Len(Between(b, n, r, w)) = Gap(n, r, w) /\ Gap(n, r, w) \in 0 .. n - 1
         /\ \A i \in 1 .. Gap(n, r, w) :
              Cell(n, r, i) \in 0 .. n - 1 /\ Cell(n, r, i) # w
              /\ Between(b, n, r, w)[i] = b[Cell(n, r, i)]
<1>1. Gap(n, r, w) \in 0 .. n - 1 /\ (w - r - 1) % n = Gap(n, r, w)
  <2>1. /\ n \in Nat \ {0} /\ w - r - 1 \in Int /\ 0 - n <= w - r - 1 /\ w - r - 1 < n
        /\ w - r - 1 < n + n
    BY DEF IsRing
  <2>2. (w - r - 1) % n = IF w - r - 1 < 0 THEN w - r - 1 + n ELSE w - r - 1
    BY <2>1, Around
  <2> QED
    BY <2>1, <2>2 DEF IsRing, Gap
<1>2. ASSUME NEW i \in 1 .. Gap(n, r, w)
      PROVE  /\ Cell(n, r, i) \in 0 .. n - 1 /\ Cell(n, r, i) # w
             /\ (r + i) % n = Cell(n, r, i)
  <2>1. /\ n \in Nat \ {0} /\ r \in Nat /\ i \in Nat /\ r + i \in Int
        /\ 0 - n <= r + i /\ 0 <= r + i /\ r + i < n + n
    BY <1>1 DEF IsRing
  <2>2. PICK x \in Int : x = r + i
    BY <2>1
  <2>3. x % n = IF x < 0 THEN x + n ELSE IF x < n THEN x ELSE x - n
    BY <2>1, <2>2, Around
  <2>4. (r + i) % n = x % n
    BY ONLY <2>2
  <2>5. x % n = Cell(n, r, i)
    BY ONLY <2>1, <2>2, <2>3 DEF Cell
  <2> QED
    BY <1>1, <2>1, <2>4, <2>5 DEF IsRing, Gap, Cell
<1>3. Between(b, n, r, w) = [i \in 1 .. Gap(n, r, w) |-> b[Cell(n, r, i)]]
  BY <1>1, <1>2 DEF Between
<1>4. \A i \in 1 .. Gap(n, r, w) : b[Cell(n, r, i)] \in Nat
  BY <1>2 DEF IsRing
<1> QED
  BY <1>1, <1>2, <1>3, <1>4

(* The next position.                                                      *)
LEMMA Successor ==
  ASSUME NEW n \in Nat \ {0}, NEW i \in 0 .. n - 1
  PROVE  (i + 1) % n \in 0 .. n - 1 /\ (i + 1) % n = IF i + 1 = n THEN 0 ELSE i + 1
<1>1. CASE i + 1 = n
  <2>1. n % n = 0
    BY SMT
  <2> QED
    BY <1>1, <2>1
<1>2. CASE i + 1 < n
  <2>1. (i + 1) % n = i + 1
    BY <1>2, SMT
  <2> QED
    BY <1>2, <2>1
<1> QED
  BY <1>1, <1>2

(* A message in front of others.                                           *)
LEMMA InFront ==
  ASSUME NEW x \in Nat, NEW p \in Seq(Nat)
  PROVE  /\ <<x>> \o p \in Seq(Nat) /\ Len(<<x>> \o p) = Len(p) + 1
         /\ (<<x>> \o p)[1] = x /\ \A i \in 1 .. Len(p) : (<<x>> \o p)[i + 1] = p[i]
  OBVIOUS

(* The reader takes the oldest; the writer adds the one it leaves.          *)
LEMMA BetweenTake ==
  ASSUME NEW b, NEW n, NEW r, NEW w, IsRing(b, n, r, w), NEW s, s = (r + 1) % n, s # w
  PROVE  Between(b, n, r, w) = <<b[s]>> \o Between(b, n, s, w)
<1>1. s \in 0 .. n - 1 /\ s = IF r + 1 = n THEN 0 ELSE r + 1
  BY Successor DEF IsRing
<1>2. IsRing(b, n, s, w)
  BY <1>1 DEF IsRing
<1>3. Gap(n, r, w) = Gap(n, s, w) + 1 /\ Gap(n, s, w) \in Nat
  <2>1. n \in Nat \ {0} /\ r \in 0 .. n - 1 /\ w \in 0 .. n - 1
    BY DEF IsRing
  <2> QED
    BY ONLY <1>1, <2>1, s # w DEF Gap
<1>4. \A i \in 1 .. Gap(n, s, w) : Cell(n, s, i) = Cell(n, r, i + 1)
  <2>1. n \in Nat \ {0, 1} /\ r \in 0 .. n - 1 /\ w \in 0 .. n - 1
    BY DEF IsRing
  <2>2. ASSUME NEW i \in 1 .. Gap(n, s, w) PROVE Cell(n, s, i) = Cell(n, r, i + 1)
    <3>1. i \in 1 .. n - 1
      BY <1>2, <1>3, <2>1, <2>2, BetweenShape
    <3> QED
      BY ONLY <1>1, <2>1, <3>1 DEF Cell
  <2> QED
    BY <2>2
<1>5. Cell(n, r, 1) = s
  BY <1>1 DEF Cell, IsRing
<1> DEFINE p == Between(b, n, r, w)
           q == Between(b, n, s, w)
           g == Gap(n, s, w)
<1>6. /\ p \in Seq(Nat) /\ Len(p) = g + 1
      /\ \A i \in 1 .. g + 1 : p[i] = b[Cell(n, r, i)]
  BY <1>3, BetweenShape
<1>7. /\ q \in Seq(Nat) /\ Len(q) = g
      /\ \A i \in 1 .. g : q[i] = b[Cell(n, s, i)]
  BY <1>2, BetweenShape
<1>8. b[s] \in Nat /\ g \in Nat
  BY <1>1, <1>3 DEF IsRing
<1>9. \A i \in 1 .. g : q[i] = p[i + 1]
  <2>1. ASSUME NEW i \in 1 .. g PROVE q[i] = p[i + 1]
    <3>1. i + 1 \in 1 .. g + 1 /\ Cell(n, s, i) = Cell(n, r, i + 1)
      BY <1>4, <1>8
    <3> QED
      BY <3>1, <1>6, <1>7
  <2> QED
    BY <2>1
<1>10. p[1] = b[s]
  BY <1>5, <1>6, <1>8
<1> HIDE DEF p, q, g
<1>11. /\ <<b[s]>> \o q \in Seq(Nat) /\ Len(<<b[s]>> \o q) = g + 1
       /\ (<<b[s]>> \o q)[1] = b[s] /\ \A i \in 1 .. g : (<<b[s]>> \o q)[i + 1] = q[i]
  <2>1. b[s] \in Nat /\ q \in Seq(Nat) /\ Len(q) = g
    BY <1>7, <1>8
  <2> QED
    BY <2>1, InFront
<1>12. \A j \in 1 .. g + 1 : (<<b[s]>> \o q)[j] = p[j]
  <2> SUFFICES ASSUME NEW j \in 1 .. g + 1 PROVE (<<b[s]>> \o q)[j] = p[j]
    OBVIOUS
  <2>1. CASE j = 1
    BY <2>1, <1>10, <1>11
  <2>2. CASE j # 1
    <3>1. j - 1 \in 1 .. g /\ (j - 1) + 1 = j
      BY <2>2, <1>8
    <3> QED
      BY <3>1, <1>9, <1>11
  <2> QED
    BY <2>1, <2>2
<1>13. p = <<b[s]>> \o q
  BY <1>6, <1>11, <1>12, SeqEqual
<1> QED
  BY <1>13 DEF p, q

LEMMA BetweenPut ==
  ASSUME NEW b, NEW n, NEW r, NEW w, IsRing(b, n, r, w), w # r
  PROVE  Between(b, n, r, (w + 1) % n) = Append(Between(b, n, r, w), b[w])
<1> DEFINE v == (w + 1) % n
           p == Between(b, n, r, w)
           q == Between(b, n, r, v)
           g == Gap(n, r, w)
<1>1. v \in 0 .. n - 1 /\ v = IF w + 1 = n THEN 0 ELSE w + 1
  BY Successor DEF IsRing
<1>2. IsRing(b, n, r, v)
  BY <1>1 DEF IsRing
<1>3. Gap(n, r, v) = g + 1 /\ g \in Nat /\ Cell(n, r, g + 1) = w /\ b[w] \in Nat
  <2>1. n \in Nat \ {0} /\ r \in 0 .. n - 1 /\ w \in 0 .. n - 1
    BY DEF IsRing
  <2>2. Gap(n, r, v) = Gap(n, r, w) + 1 /\ Gap(n, r, w) \in Nat
    BY ONLY <1>1, <2>1, w # r DEF Gap
  <2>3. Cell(n, r, Gap(n, r, w) + 1) = w
    BY ONLY <2>1, w # r DEF Gap, Cell
  <2> QED
    BY <2>1, <2>2, <2>3 DEF IsRing
<1>4. p \in Seq(Nat) /\ Len(p) = g /\ \A i \in 1 .. g : p[i] = b[Cell(n, r, i)]
  BY BetweenShape
<1>5. q \in Seq(Nat) /\ Len(q) = g + 1 /\ \A i \in 1 .. g + 1 : q[i] = b[Cell(n, r, i)]
  BY <1>2, <1>3, BetweenShape
<1> HIDE DEF p, q, g, v
<1>6. /\ Append(p, b[w]) \in Seq(Nat) /\ Len(Append(p, b[w])) = g + 1
      /\ Append(p, b[w])[g + 1] = b[w] /\ \A i \in 1 .. g : Append(p, b[w])[i] = p[i]
  BY <1>3, <1>4
<1>7. \A j \in 1 .. g + 1 : q[j] = Append(p, b[w])[j]
  <2> SUFFICES ASSUME NEW j \in 1 .. g + 1 PROVE q[j] = Append(p, b[w])[j]
    OBVIOUS
  <2>1. CASE j = g + 1
    BY <2>1, <1>3, <1>5, <1>6
  <2>2. CASE j # g + 1
    <3>1. j \in 1 .. g
      BY <2>2, <1>3
    <3> QED
      BY <3>1, <1>4, <1>5, <1>6
  <2> QED
    BY <2>1, <2>2
<1>8. q = Append(p, b[w])
  BY <1>5, <1>6, <1>7, SeqEqual
<1> QED
  BY <1>8 DEF p, q, v

(* What the writer's buffer holds is not between them.                     *)
LEMMA BetweenWrite ==
  ASSUME NEW b, NEW n, NEW r, NEW w, IsRing(b, n, r, w), NEW x \in Nat
  PROVE  /\ IsRing([b EXCEPT ![w] = x], n, r, w)
         /\ Between([b EXCEPT ![w] = x], n, r, w) = Between(b, n, r, w)
<1> DEFINE c == [b EXCEPT ![w] = x]
<1>1. IsRing(c, n, r, w) /\ \A i \in 0 .. n - 1 : i # w => c[i] = b[i]
  BY DEF IsRing
<1> HIDE DEF c
<1>2. \A i \in 1 .. Gap(n, r, w) : Between(c, n, r, w)[i] = Between(b, n, r, w)[i]
  BY <1>1, BetweenShape
<1>3. Between(c, n, r, w) = Between(b, n, r, w)
  BY <1>1, <1>2, BetweenShape, SeqEqual
<1> QED
  BY <1>1, <1>3 DEF c

(* How many they are tells where the positions are to each other.           *)
LEMMA BetweenCount ==
  ASSUME NEW b, NEW n, NEW r, NEW w, IsRing(b, n, r, w)
  PROVE  /\ w = r <=> Len(Between(b, n, r, w)) = n - 1
         /\ (r + 1) % n = w <=> Between(b, n, r, w) = <<>>
         /\ (w + 1) % n = r <=> Len(Between(b, n, r, w)) = n - 2
<1>1. Len(Between(b, n, r, w)) = Gap(n, r, w) /\ Between(b, n, r, w) \in Seq(Nat)
  BY BetweenShape
<1>2. n \in Nat \ {0, 1} /\ r \in 0 .. n - 1 /\ w \in 0 .. n - 1
  BY DEF IsRing
<1>3. /\ (r + 1) % n = IF r + 1 = n THEN 0 ELSE r + 1
      /\ (w + 1) % n = IF w + 1 = n THEN 0 ELSE w + 1
  BY <1>2, Successor
<1>4. Between(b, n, r, w) = <<>> <=> Gap(n, r, w) = 0
  BY <1>1
<1>5. w = r <=> Gap(n, r, w) = n - 1
  BY ONLY <1>2 DEF Gap
<1>6. (r + 1) % n = w <=> Gap(n, r, w) = 0
  BY ONLY <1>2, <1>3 DEF Gap
<1>7. (w + 1) % n = r <=> Gap(n, r, w) = n - 2
  BY ONLY <1>2, <1>3 DEF Gap
<1> QED
  BY <1>1, <1>4, <1>5, <1>6, <1>7

-----------------------------------------------------------------------------
(* The sending ring.                                                       *)
N == Size["tx"]

LEMMA SizeN == N \in Nat \ {0, 1}
  BY XdmaAssumption DEF N, Dirs

(* The list is a ring: a position has a successor that is another one.     *)
LEMMA AfterTx ==
  ASSUME NEW i \in 0 .. N - 1
  PROVE  /\ After("tx", i) \in 0 .. N - 1
         /\ After("tx", i) = IF i + 1 = N THEN 0 ELSE i + 1
  BY SizeN, Successor DEF After, N

(* A successor in the receiving list is a position.                        *)
LEMMA AfterRx == ASSUME NEW i \in Nat PROVE After("rx", i) \in Nat
<1>1. Size["rx"] \in Nat \ {0}
  BY XdmaAssumption DEF Dirs
<1>2. (i + 1) % Size["rx"] \in Nat
  BY <1>1, SMT
<1> QED
  BY <1>2 DEF After

-----------------------------------------------------------------------------
Types ==
  /\ size \in [Dirs -> Nat] /\ r_pos \in [Dirs -> Nat] /\ w_pos \in [Dirs -> Nat]
  /\ r_pos["tx"] \in 0 .. N - 1 /\ w_pos["tx"] \in 0 .. N - 1
  /\ sem \in {0, 1} /\ dir \in Dirs /\ done \in Nat
  /\ tpc \in {"off", "loop", "next", "send", "empty", "wait", "exit"}
  /\ ppc \in {"off", "ring", "setup", "map", "enqueue", "start", "idle", "poll",
              "request", "use", "return", "tell", "stop", "stop_tx", "stop_rx"}

(* The sender does not run while its ring is set up.                       *)
Quiet ==
  /\ ppc \in {"off", "ring", "setup", "map", "enqueue", "start"} => tpc \in {"off", "exit"}
  /\ ppc = "stop_rx" => tpc = "exit"

(* A client finds no ring.                                                 *)
NoRing ==
  /\ ppc = "off" => size["tx"] = 0
  /\ ppc = "ring" /\ dir = "tx" => size["tx"] = 0 /\ done = 0

(* Setting up the ring takes its writer round twice, past the reader,      *)
(* which stands still.                                                     *)
InSetup == ppc \in {"setup", "map", "enqueue"}
LapIn(n, k) == IF k < n THEN k ELSE IF k < 2 * n THEN k - n ELSE k - 2 * n
Lap(k) == LapIn(N, k)
Laps ==
  InSetup /\ dir = "tx" =>
    /\ size["tx"] = N /\ done < 2 * N
    /\ r_pos["tx"] = 0 /\ w_pos["tx"] = Lap(done + 1)
    /\ ppc = "setup" /\ done > 0 => sem = 1

(* From then on reader and writer are apart, and the writer's is the       *)
(* buffer that the program has in hand.                                    *)
Ready == ppc \notin {"off"} /\ ~(ppc \in {"ring", "setup", "map", "enqueue"} /\ dir = "tx")
Apart  == Ready => w_pos["tx"] # r_pos["tx"]
InHand == ppc \in {"use", "return"} /\ dir = "tx" => held = w_pos["tx"]

Inv == Types /\ Quiet /\ NoRing /\ Laps /\ Apart /\ InHand

LEMMA InitInv == Init => Inv
  BY SizeN, XdmaAssumption
  DEF Init, Inv, Types, Quiet, NoRing, Laps, Apart, InHand, InSetup, Ready, Dirs

-----------------------------------------------------------------------------
LEMMA SenderStep == ASSUME Inv, Sender PROVE Inv'
<1> USE SizeN, AfterTx
<1> USE DEF Inv, Types, Quiet, NoRing, Laps, Apart, InHand, InSetup, Ready, Dirs,
        posVars, bufVars, stateVars, clientVars, queueVars
<1>1. CASE TxLoop
  BY <1>1 DEF TxLoop
<1>2. CASE TxNext
  BY <1>2 DEF TxNext, HasReadNext
<1>3. CASE TxSent
  BY <1>3 DEF TxSent
<1>4. CASE TxFault
  BY <1>4 DEF TxFault
<1>5. CASE TxForget
  BY <1>5 DEF TxForget
<1>6. CASE TxWoken
  BY <1>6 DEF TxWoken
<1> QED
  BY <1>1, <1>2, <1>3, <1>4, <1>5, <1>6 DEF Sender

LEMMA ReceiverStep == ASSUME Inv, Receiver PROVE Inv'
<1> USE SizeN, AfterTx, XdmaAssumption
<1> USE DEF Inv, Types, Quiet, NoRing, Laps, Apart, InHand, InSetup, Ready, Dirs,
        posVars, bufVars, stateVars, clientVars, queueVars
<1>1. CASE RxLoop
  BY <1>1 DEF RxLoop
<1>2. CASE RxReceived
  BY <1>2 DEF RxReceived
<1>3. CASE RxMove
  <2>1. After("rx", w_pos["rx"]) \in Nat
    BY AfterRx
  <2>2. /\ w_pos' \in [Dirs -> Nat] /\ w_pos'["tx"] = w_pos["tx"]
        /\ UNCHANGED <<size, r_pos, sem, done, tpc, ppc, dir, held>>
    BY <1>3, <2>1 DEF RxMove
  <2> QED
    BY <2>2
<1>4. CASE RxFault
  BY <1>4 DEF RxFault
<1>5. CASE RxTimeout
  BY <1>5 DEF RxTimeout
<1> QED
  BY <1>1, <1>2, <1>3, <1>4, <1>5 DEF Receiver

(* Requests and enqueues, by the direction they are about.                 *)
LEMMA LapStep ==
  ASSUME NEW k \in 1 .. 2 * N
  PROVE  /\ Lap(k) \in 0 .. N - 1
         /\ After("tx", Lap(k)) = IF k = 2 * N THEN 1 ELSE Lap(k + 1)
  BY SizeN, AfterTx DEF Lap, LapIn

LEMMA SetupStep == ASSUME Inv, Setup PROVE Inv'
<1> USE SizeN, XdmaAssumption
<1> USE DEF Inv, Types, Quiet, NoRing, Laps, Apart, InHand, InSetup, Ready, Dirs,
        posVars, bufVars, stateVars, threadVars, clientVars, queueVars
<1>1. CASE SetupRing
  <2>1. Lap(1) = 1
    BY DEF Lap, LapIn
  <2> QED
    BY <1>1, <2>1 DEF SetupRing, ReqRing, N
<1>2. CASE SetupRequest
  <2>1. Lap(1) = 1
    BY DEF Lap, LapIn
  <2>2. CASE dir = "tx"
    BY <1>2, <2>1, <2>2 DEF SetupRequest, ReqBuffer, Lends, Lent, NextRing
  <2>3. CASE dir = "rx"
    BY <1>2, <2>3 DEF SetupRequest, ReqBuffer, Lends, Lent, NextRing, After
  <2> QED
    BY <2>2, <2>3
<1>3. CASE SetupMap
  BY <1>3 DEF SetupMap
<1>4. CASE SetupEnqueue
  <2>1. CASE dir = "tx"
    BY <1>4, <2>1, LapStep DEF SetupEnqueue, EnqBuffer, Moves, NextRing
  <2>2. CASE dir = "rx"
    BY <1>4, <2>2 DEF SetupEnqueue, EnqBuffer, Moves, NextRing
  <2> QED
    BY <2>1, <2>2
<1>5. CASE Start
  BY <1>5 DEF Start
<1> QED
  BY <1>1, <1>2, <1>3, <1>4, <1>5 DEF Setup

LEMMA TransferStep == ASSUME Inv, Transfer PROVE Inv'
<1> USE SizeN, XdmaAssumption, AfterTx
<1> USE DEF Inv, Types, Quiet, NoRing, Laps, Apart, InHand, InSetup, Ready, Dirs,
        posVars, bufVars, stateVars, threadVars, clientVars, queueVars
<1>1. CASE Poll
  BY <1>1 DEF Poll
<1>2. CASE Request
  <2>1. CASE dir = "tx"
    BY <1>2, <2>1 DEF Request, ReqBuffer, Lends, Lent
  <2>2. CASE dir = "rx"
    BY <1>2, <2>2 DEF Request, ReqBuffer, Lends, Lent, After
  <2> QED
    BY <2>1, <2>2
<1>3. CASE Fill
  BY <1>3 DEF Fill
<1>4. CASE Copy
  BY <1>4 DEF Copy
<1>5. CASE Enqueue
  <2>1. CASE dir = "tx"
    <3>1. /\ w_pos["tx"] # r_pos["tx"] /\ w_pos["tx"] \in 0 .. N - 1
          /\ After("tx", w_pos["tx"]) \in 0 .. N - 1
      BY <1>5, <2>1 DEF Enqueue
    <3>2. /\ w_pos' \in [Dirs -> Nat] /\ w_pos'["tx"] \in 0 .. N - 1
          /\ w_pos'["tx"] # r_pos["tx"]
      <4>1. w_pos' = IF HasWriteNext("tx")
                       THEN [w_pos EXCEPT !["tx"] = After("tx", w_pos["tx"])] ELSE w_pos
        BY ONLY <1>5, <2>1 DEF Enqueue, EnqBuffer, Moves
      <4>2. w_pos \in [Dirs -> Nat] /\ "tx" \in Dirs /\ N \in Nat
        OBVIOUS
      <4> QED
        BY <3>1, <4>1, <4>2 DEF HasWriteNext
    <3>3. /\ UNCHANGED <<size, r_pos, tpc, dir, done>>
          /\ ppc' \notin {"off", "use", "return", "ring", "setup", "map", "enqueue",
                          "start", "stop_rx"}
          /\ sem' \in {0, 1}
      BY <1>5, <2>1 DEF Enqueue, EnqBuffer
    <3> QED
      BY <1>5, <3>2, <3>3 DEF Enqueue
  <2>2. CASE dir = "rx"
    BY <1>5, <2>2 DEF Enqueue, EnqBuffer, Moves
  <2> QED
    BY <2>1, <2>2
<1>6. CASE Tell
  BY <1>6 DEF Tell
<1> QED
  BY <1>1, <1>2, <1>3, <1>4, <1>5, <1>6 DEF Transfer

LEMMA OtherStep ==
  ASSUME Inv, Open \/ Stop \/ Ending \/ (\E d \in Dirs : Try(d)) \/ UNCHANGED vars
  PROVE  Inv'
<1> USE DEF Inv, Types, Quiet, NoRing, Laps, Apart, InHand, InSetup, Ready, Dirs,
        posVars, bufVars, stateVars, threadVars, clientVars, queueVars
<1>1. CASE Open
  BY <1>1 DEF Open
<1>2. CASE Stop
  BY <1>2 DEF Stop
<1>3. CASE StopTx
  BY <1>3 DEF StopTx
<1>4. CASE StoppedTx
  BY <1>4 DEF StoppedTx
<1>5. CASE Release
  BY <1>5 DEF Release
<1>6. CASE \E d \in Dirs : Try(d)
  BY <1>6 DEF Try
<1>7. CASE UNCHANGED vars
  BY <1>7 DEF vars
<1> QED
  BY <1>1, <1>2, <1>3, <1>4, <1>5, <1>6, <1>7 DEF Ending

LEMMA NextInv == Inv /\ [Next]_vars => Inv'
  BY SenderStep, ReceiverStep, SetupStep, TransferStep, OtherStep DEF Next

(* The sender's DMA engine never reads a buffer that the program is        *)
(* filling, for rings of any size and however far the program sends ahead: *)
(* xdma6_stream_tx_fn and xdma6_request_buffer share the ring without a lock. *)
THEOREM SenderExclusive == Spec => []SenderApart
<1>1. Inv => SenderApart
  BY DEF Inv, Types, Quiet, Apart, InHand, Ready, SenderApart
<1> QED
  BY <1>1, InitInv, NextInv, PTL DEF Spec

-----------------------------------------------------------------------------
(* The receiving ring.                                                     *)
M == Size["rx"]

LEMMA SizeM == M \in Nat \ {0, 1}
  BY XdmaAssumption DEF M, Dirs

(* It is a ring, too.                                                      *)
LEMMA AfterRxRing ==
  ASSUME NEW i \in 0 .. M - 1
  PROVE  /\ After("rx", i) \in 0 .. M - 1
         /\ After("rx", i) = IF i + 1 = M THEN 0 ELSE i + 1
  BY SizeM, Successor DEF After, M

(* Rings are set up, a client is at them. Alive: the semaphore is free, or  *)
(* it is the client that holds it and will give it back.                    *)
Up == ppc \in {"idle", "poll", "request", "use", "return", "tell", "stop", "stop_tx", "stop_rx"}
Early == ppc \in {"off", "ring", "setup", "map", "enqueue", "start"}
Alive == sem = 1 \/ ppc \in {"map", "enqueue", "use", "return", "tell"}
Kinds ==
  /\ size["rx"] \in {0, M} /\ r_pos["rx"] \in 0 .. M - 1 /\ w_pos["rx"] \in 0 .. M - 1
  /\ counter \in Nat /\ due \in Int
  /\ xpc \in {"off", "loop", "receive", "move", "exit"}
  /\ polled \in BOOLEAN /\ failed \in BOOLEAN

(* The receiver does not run while the rings are set up.                   *)
Still == Early => xpc \in {"off", "exit"}

(* Setting up takes the reader of the receiving ring round twice; its       *)
(* writer stands still.                                                     *)
RxSetup ==
  /\ ppc \in {"off", "ring"} \/ (InSetup /\ dir = "tx") => size["rx"] = 0
  /\ ppc = "ring" => done = 0
  /\ InSetup /\ dir = "rx" =>
       /\ size["rx"] = M /\ done < 2 * M /\ w_pos["rx"] = 1
       /\ r_pos["rx"] = LapIn(M, IF ppc = "setup" THEN done ELSE done + 1)
       /\ ppc = "setup" /\ done > 0 => sem = 1
  /\ ppc = "start" => r_pos["rx"] = 0 /\ w_pos["rx"] = 1

(* The sending ring is set up before it, and left empty.                   *)
TxReady == ppc = "start" \/ (ppc \in {"ring", "setup", "map", "enqueue"} /\ dir = "rx")
             => r_pos["tx"] = 0 /\ w_pos["tx"] = 1

(* Whoever has a buffer has taken the semaphore.                           *)
Busy == ppc \in {"map", "enqueue", "use", "return", "tell"} => sem = 0

Wired == Kinds /\ Still /\ RxSetup /\ TxReady /\ Busy
-----------------------------------------------------------------------------
LEMMA WiredInit == Init => Wired
<1>1. ASSUME Init
      PROVE  /\ size["rx"] = 0 /\ r_pos["rx"] = 0 /\ w_pos["rx"] = 0 /\ counter = 0 /\ due = 0
             /\ xpc = "off" /\ ppc = "off" /\ polled = FALSE /\ failed = FALSE
  BY <1>1 DEF Init, Dirs
<1> QED
  BY <1>1, SizeM DEF Wired, Kinds, Still, RxSetup, TxReady, Busy, Early, InSetup

(* One step of the reader's laps.                                          *)
LEMMA LapM ==
  ASSUME NEW k \in 0 .. 2 * M - 1
  PROVE  /\ LapIn(M, k) \in 0 .. M - 1
         /\ After("rx", LapIn(M, k)) = LapIn(M, k + 1)
  BY SizeM, AfterRxRing DEF LapIn

(* Each step of setting up.                                                *)
LEMMA SetupRingWired == ASSUME Inv, Wired, SetupRing PROVE Wired'
<1> USE DEF SetupRing
<1>1. /\ size["rx"] = 0 /\ done = 0 /\ (dir = "tx" => size["tx"] = 0) /\ dir \in Dirs
      /\ size \in [Dirs -> Nat] /\ r_pos \in [Dirs -> Nat] /\ w_pos \in [Dirs -> Nat]
  BY DEF Inv, Types, NoRing, Wired, RxSetup
<1>2. /\ size' = [size EXCEPT ![dir] = Size[dir]] /\ ppc' = "setup"
      /\ UNCHANGED <<dir, done, counter, due, xpc, polled, failed, sem>>
  BY DEF ReqRing, threadVars
<1>3. r_pos' = [r_pos EXCEPT ![dir] = 0] /\ w_pos' = [w_pos EXCEPT ![dir] = 1]
  BY <1>1 DEF ReqRing, Dirs
<1>4. /\ dir = "rx" => /\ size'["rx"] = M /\ r_pos'["rx"] = 0 /\ w_pos'["rx"] = 1
                       /\ r_pos'["tx"] = r_pos["tx"] /\ w_pos'["tx"] = w_pos["tx"]
      /\ dir = "tx" => size'["rx"] = size["rx"] /\ r_pos'["rx"] = r_pos["rx"]
                       /\ w_pos'["rx"] = w_pos["rx"]
  BY ONLY <1>1, <1>2, <1>3 DEF Dirs, M
<1>5. LapIn(M, 0) = 0
  BY SizeM DEF LapIn
<1>6. dir = "tx" \/ dir = "rx"
  BY <1>1 DEF Dirs
<1> QED
  BY <1>1, <1>2, <1>4, <1>5, <1>6, SizeM
  DEF Wired, Kinds, Still, RxSetup, TxReady, Busy, Early, InSetup

LEMMA SetupRequestWired == ASSUME Inv, Wired, SetupRequest PROVE Wired'
<1> USE DEF SetupRequest
<1>1. /\ ppc = "setup" /\ dir \in Dirs /\ r_pos \in [Dirs -> Nat] /\ done \in Nat
      /\ size \in [Dirs -> Nat] /\ sem \in {0, 1}
  BY DEF Inv, Types
<1>2. /\ UNCHANGED <<size, w_pos, counter, due, polled, failed, xpc>> /\ sem' = 0
  BY DEF ReqBuffer, threadVars
<1>3. CASE dir = "tx"
  <2>1. CASE sem = 1
    <3>1. ppc' \in {"map", "enqueue"} /\ UNCHANGED <<dir, done, r_pos>>
      BY <1>3, <2>1 DEF ReqBuffer, Lends
    <3> QED
      BY <1>1, <1>2, <1>3, <2>1, <3>1
      DEF Wired, Kinds, Still, RxSetup, TxReady, Busy, Early, InSetup
  <2>2. CASE sem # 1
    <3>1. ppc' = "ring" /\ dir' = "rx" /\ done' = 0 /\ UNCHANGED r_pos
      BY <1>3, <2>2 DEF ReqBuffer, Lends, NextRing
    <3>2. done = 0 /\ r_pos["tx"] = 0 /\ w_pos["tx"] = 1 /\ size["rx"] = 0
      <4>1. done = 0 /\ r_pos["tx"] = 0 /\ w_pos["tx"] = Lap(done + 1)
        BY <1>1, <1>3, <2>2 DEF Inv, Laps, InSetup
      <4>2. size["rx"] = 0
        BY <1>1, <1>3 DEF Wired, RxSetup, InSetup
      <4> QED
        BY <4>1, <4>2, SizeN DEF Lap, LapIn
    <3> QED
      BY <1>1, <1>2, <1>3, <3>1, <3>2
      DEF Wired, Kinds, Still, RxSetup, TxReady, Busy, Early, InSetup
  <2> QED
    BY <2>1, <2>2
<1>4. CASE dir = "rx"
  <2>1. LapIn(M, done) \in 0 .. M - 1 /\ After("rx", LapIn(M, done)) = LapIn(M, done + 1)
        /\ LapIn(M, done + 1) \in 0 .. M - 1 /\ r_pos["rx"] = LapIn(M, done)
    BY <1>1, <1>4, LapM, AfterRxRing DEF Wired, RxSetup, InSetup
  <2>2. CASE sem = 1
    <3>1. /\ r_pos' = [r_pos EXCEPT !["rx"] = After("rx", r_pos["rx"])]
          /\ ppc' \in {"map", "enqueue"} /\ UNCHANGED <<dir, done>>
      BY <1>4, <2>2 DEF ReqBuffer, Lends, Lent
    <3>2. r_pos'["rx"] = LapIn(M, done + 1) /\ r_pos'["tx"] = r_pos["tx"]
      BY <1>1, <2>1, <3>1 DEF Dirs
    <3> QED
      BY <1>1, <1>2, <1>4, <2>1, <3>1, <3>2
      DEF Wired, Kinds, Still, RxSetup, TxReady, Busy, Early, InSetup
  <2>3. CASE sem # 1
    <3>1. ppc' = "start" /\ dir' = "rx" /\ done' = 0 /\ UNCHANGED r_pos
      BY <1>4, <2>3 DEF ReqBuffer, Lends, NextRing
    <3>2. done = 0 /\ r_pos["rx"] = 0
      BY <1>1, <1>4, <2>1, <2>3, SizeM DEF Wired, RxSetup, InSetup, LapIn
    <3> QED
      BY <1>1, <1>2, <1>4, <3>1, <3>2
      DEF Wired, Kinds, Still, RxSetup, TxReady, Busy, Early, InSetup
  <2> QED
    BY <2>2, <2>3
<1> QED
  BY <1>1, <1>3, <1>4 DEF Dirs

LEMMA SetupEnqueueWired == ASSUME Inv, Wired, SetupEnqueue PROVE Wired'
<1> USE DEF SetupEnqueue
<1>1. /\ ppc = "enqueue" /\ dir \in Dirs /\ w_pos \in [Dirs -> Nat] /\ done \in Nat
  BY DEF Inv, Types
<1>2. /\ UNCHANGED <<size, r_pos, counter, due, polled, failed, xpc>> /\ sem' = 1
  BY DEF EnqBuffer, threadVars
<1>3. CASE dir = "tx"
  <2>1. /\ w_pos' = [w_pos EXCEPT !["tx"] = After("tx", w_pos["tx"])]
        /\ w_pos["tx"] = Lap(done + 1) /\ r_pos["tx"] = 0 /\ size["tx"] = N /\ done < 2 * N
    BY <1>1, <1>3 DEF EnqBuffer, Moves, Inv, Laps, InSetup
  <2>2. /\ w_pos'["tx"] = After("tx", Lap(done + 1)) /\ w_pos'["rx"] = w_pos["rx"]
    BY <1>1, <2>1 DEF Dirs
  <2>3. CASE done + 1 = 2 * N
    <3>1. ppc' = "ring" /\ dir' = "rx" /\ done' = 0
      BY <1>3, <2>1, <2>3 DEF NextRing
    <3>2. w_pos'["tx"] = 1
      BY <2>2, <2>3, SizeN, LapStep
    <3> QED
      BY <1>1, <1>2, <1>3, <2>1, <2>2, <3>1, <3>2
      DEF Wired, Kinds, Still, RxSetup, TxReady, Busy, Early, InSetup
  <2>4. CASE done + 1 # 2 * N
    <3>1. ppc' = "setup" /\ UNCHANGED dir
      BY <1>3, <2>1, <2>4
    <3> QED
      BY <1>1, <1>2, <1>3, <2>1, <2>2, <3>1
      DEF Wired, Kinds, Still, RxSetup, TxReady, Busy, Early, InSetup
  <2> QED
    BY <2>3, <2>4
<1>4. CASE dir = "rx"
  <2>1. /\ w_pos' = w_pos /\ r_pos["rx"] = LapIn(M, done + 1) /\ size["rx"] = M /\ done < 2 * M
        /\ w_pos["rx"] = 1
    BY <1>1, <1>4 DEF EnqBuffer, Moves, Wired, RxSetup, InSetup
  <2>2. CASE done + 1 = 2 * M
    <3>1. ppc' = "start" /\ dir' = "rx" /\ done' = 0
      BY <1>4, <2>1, <2>2 DEF NextRing
    <3>2. r_pos["rx"] = 0
      BY <2>1, <2>2, SizeM DEF LapIn
    <3> QED
      BY <1>1, <1>2, <1>4, <2>1, <3>1, <3>2
      DEF Wired, Kinds, Still, RxSetup, TxReady, Busy, Early, InSetup
  <2>3. CASE done + 1 # 2 * M
    <3>1. ppc' = "setup" /\ UNCHANGED dir /\ done' = done + 1 /\ done + 1 < 2 * M
      BY <1>1, <1>4, <2>1, <2>3, SizeM
    <3> QED
      BY <1>1, <1>2, <1>4, <2>1, <3>1
      DEF Wired, Kinds, Still, RxSetup, TxReady, Busy, Early, InSetup
  <2> QED
    BY <2>2, <2>3
<1> QED
  BY <1>1, <1>3, <1>4 DEF Dirs

(* Everywhere else the rings are as they were set up but for the positions  *)
(* that the receiver and a request move.                                    *)
LEMMA WiredStep == ASSUME Inv, Wired, [Next]_vars PROVE Wired'
<1> USE SizeM
<1> USE DEF Inv, Types, Quiet, Wired, Kinds, Still, RxSetup, TxReady, Busy, Early, InSetup, Dirs,
        posVars, bufVars, stateVars, threadVars, clientVars, queueVars
<1>1. CASE Sender
  <2>1. /\ ~Early /\ r_pos'["rx"] = r_pos["rx"]
        /\ UNCHANGED <<size, w_pos, sem, xpc, clientVars>>
    BY <1>1 DEF Sender, TxLoop, TxNext, TxSent, TxFault, TxForget, TxWoken
  <2> QED
    BY <2>1
<1>2. CASE RxMove
  <2>1. After("rx", w_pos["rx"]) \in 0 .. M - 1
    BY AfterRxRing
  <2>2. /\ ~Early /\ w_pos'["rx"] \in 0 .. M - 1 /\ w_pos'["tx"] = w_pos["tx"] /\ xpc' = "loop"
        /\ UNCHANGED <<size, r_pos, sem, clientVars>>
    BY <1>2, <2>1 DEF RxMove
  <2> QED
    BY <2>2
<1>3. CASE Receiver /\ ~RxMove
  <2>1. /\ ~Early /\ xpc' \in {"receive", "move", "exit"}
        /\ UNCHANGED <<size, r_pos, w_pos, sem, clientVars>>
    BY <1>3 DEF Receiver, RxLoop, RxReceived, RxFault, RxTimeout
  <2> QED
    BY <2>1
<1>4. CASE Open
  BY <1>4 DEF Open
<1>5. CASE SetupRing
  BY ONLY Inv, Wired, <1>5, SetupRingWired
<1>6. CASE SetupRequest
  BY ONLY Inv, Wired, <1>6, SetupRequestWired
<1>7. CASE SetupMap
  BY <1>7 DEF SetupMap
<1>8. CASE SetupEnqueue
  BY ONLY Inv, Wired, <1>8, SetupEnqueueWired
<1>9. CASE Start
  BY <1>9 DEF Start
<1>10. CASE Poll
  BY <1>10 DEF Poll, Polled, HasReadNext, HasWriteNext
<1>11. CASE Request
  <2>1. After("rx", r_pos["rx"]) \in 0 .. M - 1
    BY AfterRxRing
  <2>2. r_pos'["rx"] \in 0 .. M - 1 /\ r_pos'["tx"] = r_pos["tx"]
    BY <1>11, <2>1 DEF Request, ReqBuffer, Lends, Lent
  <2>3. /\ UNCHANGED <<size, w_pos, dir, done, counter, due, xpc, polled>>
        /\ sem' = 0 /\ ppc' \in {"use", "idle"} /\ failed' \in BOOLEAN /\ ~Early
    BY <1>11 DEF Request, ReqBuffer
  <2> QED
    BY <2>2, <2>3
<1>12. CASE Fill
  BY <1>12 DEF Fill
<1>13. CASE Copy
  <2>1. TRUE
    OBVIOUS
  <2> QED
    BY <1>13 DEF Copy
<1>14. CASE Enqueue
  <2>1. w_pos'["rx"] = w_pos["rx"]
    BY <1>14 DEF Enqueue, EnqBuffer, Moves
  <2>2. /\ UNCHANGED <<size, r_pos, sem, dir, done, counter, xpc, polled>>
        /\ ppc' = "tell" /\ ppc = "return" /\ due' \in {due, due + 1}
    BY ONLY <1>14 DEF Enqueue, EnqBuffer, stateVars, threadVars
  <2>3. failed' = failed \/ failed' = (failed \/ dir = "tx")
    BY ONLY <1>14 DEF Enqueue
  <2>4. failed' \in BOOLEAN
    BY <2>3
  <2> QED
    BY <2>1, <2>2, <2>4
<1>15. CASE Tell
  BY <1>15 DEF Tell
<1>16. CASE Stop \/ StopTx \/ StoppedTx \/ \E d \in Dirs : Try(d)
  BY <1>16 DEF Stop, StopTx, StoppedTx, Try
<1>17. CASE Release
  BY <1>17 DEF Release
<1>18. CASE UNCHANGED vars
  BY <1>18 DEF vars
<1> QED
  BY <1>1, <1>2, <1>3, <1>4, <1>5, <1>6, <1>7, <1>8, <1>9, <1>10, <1>11, <1>12, <1>13, <1>14,
     <1>15, <1>16, <1>17, <1>18
  DEF Next, Setup, Transfer, Ending
-----------------------------------------------------------------------------
(* The buffer in hand.                                                     *)
Cells(d) == 0 .. Size[d] - 1
Memory ==
  /\ DOMAIN mem = Dirs /\ DOMAIN addr = Dirs
  /\ \A d \in Dirs : mem[d] \in [Cells(d) -> Nat] /\ DOMAIN addr[d] = Cells(d)
  /\ line \in Seq(Nat)

(* The driver knows the addresses of the first k buffers set up.           *)
Mapped(d, k) == \A i \in Cells(d) : k >= Size[d] \/ i \in 1 .. k => addr[d][i] = i

(* All of them are known when the rings are used.                          *)
Mapping ==
  /\ InSetup /\ Alive => Mapped(dir, done)
  /\ ppc \notin {"off", "ring", "setup", "map", "enqueue"} /\ Alive =>
       Mapped("tx", Size["tx"]) /\ Mapped("rx", Size["rx"])
  /\ ppc \in {"ring", "setup", "map", "enqueue"} /\ dir = "rx" /\ Alive => Mapped("tx", Size["tx"])

(* The buffer in hand is the one that was asked for, and the program uses   *)
(* the memory of that buffer.                                               *)
Hand ==
  /\ ppc = "map" => held = LapIn(Size[dir], done + 1) /\ map_buffer = held
  /\ ppc = "enqueue" => held = LapIn(Size[dir], done + 1) /\ data = held
  /\ ppc \in {"use", "return"} => held = data /\ held = IF dir = "tx" THEN w_pos["tx"] ELSE r_pos["rx"]

(* Nobody loses the semaphore without a failed call.                       *)
Failing == Alive \/ failed

Lending == Memory /\ Mapping /\ Hand /\ Failing

(* Sizes and positions, for both rings.                                    *)
LEMMA Sizes == \A d \in Dirs : Size[d] \in Nat \ {0, 1}
  BY XdmaAssumption

LEMMA AfterCell == ASSUME NEW d \in Dirs, NEW i \in Cells(d) PROVE After(d, i) \in Cells(d)
<1>1. Size[d] \in Nat \ {0}
  BY Sizes
<1>2. (i + 1) % Size[d] \in 0 .. Size[d] - 1
  BY <1>1 DEF Cells
<1> QED
  BY <1>2 DEF After, Cells

LEMMA Positions ==
  ASSUME Inv, Wired
  PROVE  \A d \in Dirs : r_pos[d] \in Cells(d) /\ w_pos[d] \in Cells(d) /\ Lent(d) \in Cells(d)
  BY AfterCell DEF Inv, Types, Wired, Kinds, Cells, M, N, Dirs, Lent

LEMMA InitLending == Init => Lending
<1> SUFFICES ASSUME Init PROVE Lending
  OBVIOUS
<1>1. Memory
  <2>1. /\ mem = [d \in Dirs |-> [i \in Cells(d) |-> 0]] /\ line = <<>>
        /\ addr = [d \in Dirs |-> [i \in Cells(d) |-> None]]
    BY DEF Init, Cells
  <2> QED
    BY ONLY <2>1 DEF Memory
<1>2. ppc = "off" /\ sem = 1
  BY DEF Init
<1> QED
  BY <1>1, <1>2 DEF Lending, Mapping, Hand, Failing, InSetup, Alive

(* Each step keeps what memory and addresses are.                          *)
LEMMA MemoryStep == ASSUME Inv, Wired, Memory, [Next]_vars PROVE Memory'
<1> USE DEF posVars, bufVars, stateVars, threadVars, clientVars, queueVars
<1>1. CASE TxSent
  <2>1. mem["tx"][r_pos["tx"]] \in Nat
    BY Positions DEF Memory, Dirs
  <2>2. line' \in Seq(Nat) /\ UNCHANGED <<mem, addr>>
    BY <1>1, <2>1 DEF TxSent, Memory
  <2> QED
    BY <2>2 DEF Memory
<1>2. CASE Receiver
  <2>1. CASE RxReceived
    <3>1. Head(line) \in Nat /\ Tail(line) \in Seq(Nat)
      BY <2>1 DEF RxReceived, Memory
    <3> QED
      BY <2>1, <3>1 DEF RxReceived, Memory, Dirs
  <2>2. CASE RxFault
    <3>1. line' \in Seq(Nat) /\ UNCHANGED <<mem, addr>>
      BY <2>2 DEF RxFault, Memory
    <3> QED
      BY <3>1 DEF Memory
  <2>3. CASE ~RxReceived /\ ~RxFault
    <3>1. UNCHANGED <<mem, addr, line>>
      BY <1>2, <2>3 DEF Receiver, RxLoop, RxMove, RxTimeout
    <3> QED
      BY <3>1 DEF Memory
  <2> QED
    BY <2>1, <2>2, <2>3
<1>3. CASE SetupRing
  <2>1. dir \in Dirs /\ line' = line
    BY <1>3 DEF SetupRing, Inv, Types
  <2>2. CASE size[dir] = 0
    <3>1. /\ mem' = [mem EXCEPT ![dir] = [i \in DOMAIN mem[dir] |-> 0]]
          /\ addr' = [addr EXCEPT ![dir] = [i \in DOMAIN addr[dir] |-> None]]
      BY <1>3, <2>2 DEF SetupRing, ReqRing
    <3> QED
      BY ONLY Memory, <2>1, <3>1 DEF Memory
  <2>3. CASE size[dir] # 0
    <3>1. UNCHANGED <<mem, addr>>
      BY <1>3, <2>3 DEF SetupRing, ReqRing
    <3> QED
      BY ONLY Memory, <2>1, <3>1 DEF Memory
  <2> QED
    BY <2>2, <2>3
<1>4. CASE SetupEnqueue \/ Enqueue
  <2>1. addr' = [addr EXCEPT ![dir][held] = data] /\ UNCHANGED <<mem, line>>
    BY <1>4 DEF SetupEnqueue, Enqueue, EnqBuffer
  <2> QED
    BY ONLY Memory, <2>1 DEF Memory
<1>5. CASE Fill
  <2>1. counter + 1 \in Nat
    BY DEF Wired, Kinds
  <2>2. mem' = [mem EXCEPT !["tx"][data] = counter + 1] /\ UNCHANGED <<addr, line>>
    BY <1>5 DEF Fill
  <2> QED
    BY ONLY Memory, <2>1, <2>2 DEF Memory
<1>6. CASE ~TxSent /\ ~Receiver /\ ~SetupRing /\ ~SetupEnqueue /\ ~Enqueue /\ ~Fill
  <2>1. UNCHANGED <<mem, addr, line>>
    BY <1>6
    DEF Next, vars, Sender, TxLoop, TxNext, TxFault, TxForget, TxWoken, Open, Setup, SetupRequest,
        ReqBuffer, SetupMap, Start, Transfer, Poll, Request, Copy, Tell, Stop, Ending, StopTx,
        StoppedTx, Release, Try
  <2> QED
    BY ONLY Memory, <2>1 DEF Memory
<1> QED
  BY <1>1, <1>2, <1>3, <1>4, <1>5, <1>6
(* The buffer asked for while a ring is set up.                            *)
LEMMA SetupLent ==
  ASSUME Inv, Wired, ppc = "setup"
  PROVE  /\ dir \in Dirs /\ done \in Nat /\ done < 2 * Size[dir]
         /\ Lent(dir) = LapIn(Size[dir], done + 1)
         /\ size[dir] = Size[dir]
<1>1. CASE dir = "tx"
  BY <1>1 DEF Inv, Types, Laps, InSetup, Lent, Lap, LapIn, N, Dirs
<1>2. CASE dir = "rx"
  <2>1. r_pos["rx"] = LapIn(M, done) /\ done \in 0 .. 2 * M - 1 /\ size["rx"] = M
    BY <1>2, SizeM DEF Wired, RxSetup, InSetup, Inv, Types
  <2>2. After("rx", LapIn(M, done)) = LapIn(M, done + 1)
    BY <2>1, LapM
  <2> QED
    BY <1>2, <2>1, <2>2, SizeM DEF Lent, M, Dirs
<1> QED
  BY <1>1, <1>2 DEF Inv, Types, Dirs

LEMMA SetupDone ==
  ASSUME Inv, Wired, ppc \in {"map", "enqueue"}
  PROVE  dir \in Dirs /\ done \in Nat /\ done < 2 * Size[dir] /\ size[dir] = Size[dir]
<1>1. CASE dir = "tx"
  BY <1>1 DEF Inv, Types, Laps, InSetup, N, Dirs
<1>2. CASE dir = "rx"
  BY <1>2 DEF Inv, Types, Wired, RxSetup, InSetup, M, Dirs
<1> QED
  BY <1>1, <1>2 DEF Inv, Types, Dirs

LEMMA LendingSetupRing == ASSUME Inv, Wired, Lending, SetupRing PROVE Lending'
<1>1. Memory'
  BY MemoryStep DEF Lending, Next, Setup
<1>2. dir \in Dirs /\ ppc = "ring" /\ ppc' = "setup" /\ UNCHANGED <<dir, done, sem, failed>> /\ done = 0
  BY DEF SetupRing, ReqRing, Inv, Types, Wired, RxSetup
<1>3. Mapped(dir, done)'
  BY <1>2, Sizes DEF Mapped
<1>4. CASE dir = "tx"
  BY <1>1, <1>2, <1>3, <1>4 DEF Lending, Mapping, Hand, Failing, InSetup, Alive
<1>5. CASE dir = "rx"
  <2>1. addr'["tx"] = addr["tx"]
    <3>1. \/ addr' = addr
          \/ addr' = [addr EXCEPT !["rx"] = [i \in DOMAIN addr["rx"] |-> None]]
      BY <1>5 DEF SetupRing, ReqRing
    <3> QED
      BY <3>1 DEF Lending, Memory, Dirs
  <2>2. Alive' => Alive /\ Mapped("tx", Size["tx"])
    BY <1>2, <1>5 DEF Lending, Mapping, Alive
  <2>3. Alive' => Mapped("tx", Size["tx"])'
    BY <2>1, <2>2 DEF Mapped
  <2> QED
    BY <1>1, <1>2, <1>3, <1>5, <2>3 DEF Lending, Mapping, Hand, Failing, InSetup, Alive
<1> QED
  BY <1>2, <1>4, <1>5 DEF Dirs

LEMMA LendingSetupRequest == ASSUME Inv, Wired, Lending, SetupRequest PROVE Lending'
<1>1. Memory' /\ UNCHANGED <<addr, failed>> /\ sem' = 0
  BY MemoryStep DEF Lending, Next, Setup, SetupRequest, ReqBuffer
<1>2. ppc = "setup" /\ sem \in {0, 1}
  BY DEF SetupRequest, Inv, Types
<1>3. CASE sem = 1
  <2>1. /\ held' = Lent(dir) /\ data' = addr[dir][Lent(dir)] /\ map_buffer' = Lent(dir)
        /\ ppc' = (IF done < size[dir] THEN "map" ELSE "enqueue") /\ UNCHANGED <<dir, done>>
    BY <1>3 DEF SetupRequest, ReqBuffer, Lends
  <2>2. Mapped(dir, done) /\ (dir = "rx" => Mapped("tx", Size["tx"]))
    BY <1>2, <1>3 DEF Lending, Mapping, InSetup, Alive
  <2>3. ppc' = "enqueue" => data' = held'
    <3>1. dir \in Dirs /\ size[dir] = Size[dir]
      BY <1>2, SetupLent
    <3>2. Lent(dir) \in Cells(dir) /\ Size[dir] \in Nat /\ done \in Nat
      BY <3>1, Positions, Sizes DEF Inv, Types
    <3> QED
      BY <2>1, <2>2, <3>1, <3>2 DEF Mapped
  <2>4. held' = LapIn(Size[dir], done + 1)
    BY <2>1, <1>2, SetupLent
  <2>5. Mapped(dir, done)' /\ (dir' = "rx" => Mapped("tx", Size["tx"])')
    BY <1>1, <2>1, <2>2 DEF Mapped
  <2> QED
    BY <1>1, <2>1, <2>3, <2>4, <2>5 DEF Lending, Mapping, Hand, Failing, InSetup, Alive
<1>4. CASE sem # 1
  <2>1. ppc' \in {"ring", "start"}
    BY <1>4 DEF SetupRequest, Lends, NextRing
  <2>2. ~Alive' /\ failed
    BY <1>1, <1>2, <1>4, <2>1 DEF Lending, Failing, Alive
  <2> QED
    BY <1>1, <2>1, <2>2 DEF Lending, Mapping, Hand, Failing, InSetup
<1> QED
  BY <1>3, <1>4

LEMMA LendingSetupEnqueue == ASSUME Inv, Wired, Lending, SetupEnqueue PROVE Lending'
<1>1. Memory' /\ UNCHANGED failed /\ sem' = 1 /\ addr' = [addr EXCEPT ![dir][held] = data]
  BY MemoryStep DEF Lending, Next, Setup, SetupEnqueue, EnqBuffer
<1>2. ppc = "enqueue" /\ dir \in Dirs /\ done \in Nat /\ size[dir] = Size[dir] /\ done < 2 * Size[dir]
  BY SetupDone DEF SetupEnqueue
<1>3. held = LapIn(Size[dir], done + 1) /\ data = held
  BY <1>2 DEF Lending, Hand
<1>4. held \in Cells(dir)
  BY <1>2, <1>3, Sizes DEF LapIn, Cells
<1>5. Mapped(dir, done) /\ (dir = "rx" => Mapped("tx", Size["tx"]))
  BY <1>2 DEF Lending, Mapping, InSetup, Alive
<1>6. /\ addr'[dir] = [addr[dir] EXCEPT ![held] = held]
      /\ dir = "rx" => addr'["tx"] = addr["tx"]
  BY <1>1, <1>2, <1>3 DEF Lending, Memory
<1>7. DOMAIN addr[dir] = Cells(dir)
  BY <1>2 DEF Lending, Memory
<1>8. \A i \in Cells(dir) : addr'[dir][i] = IF i = held THEN i ELSE addr[dir][i]
  BY <1>6, <1>7
<1>9. ASSUME NEW i \in Cells(dir), done + 1 >= Size[dir] \/ i \in 1 .. done + 1
      PROVE  addr'[dir][i] = i
  <2>1. i = held \/ done >= Size[dir] \/ i \in 1 .. done
    BY <1>2, <1>3, <1>9, Sizes DEF LapIn, Cells
  <2> QED
    BY <1>5, <1>8, <2>1 DEF Mapped
<1>10. dir = "rx" => Mapped("tx", Size["tx"])'
  BY <1>5, <1>6 DEF Mapped
<1>11. CASE done + 1 = 2 * size[dir]
  <2>1. \A i \in Cells(dir) : addr'[dir][i] = i
    BY <1>2, <1>9, <1>11, Sizes
  <2>2. ppc' = (IF dir = "tx" THEN "ring" ELSE "start") /\ dir' = "rx" /\ done' = 0
    BY <1>11 DEF SetupEnqueue, NextRing
  <2>3. dir = "tx" => Mapped("tx", Size["tx"])'
    BY <2>1 DEF Mapped
  <2>4. dir = "rx" => Mapped("rx", Size["rx"])'
    BY <2>1 DEF Mapped
  <2> QED
    BY <1>1, <1>2, <1>10, <2>2, <2>3, <2>4 DEF Lending, Mapping, Hand, Failing, InSetup, Alive, Dirs
<1>12. CASE done + 1 # 2 * size[dir]
  <2>1. ppc' = "setup" /\ dir' = dir /\ done' = done + 1
    BY <1>12 DEF SetupEnqueue
  <2>2. Mapped(dir, done)'
    BY <1>9, <2>1 DEF Mapped, Cells
  <2> QED
    BY <1>1, <1>2, <1>10, <2>1, <2>2 DEF Lending, Mapping, Hand, Failing, InSetup, Alive
<1> QED
  BY <1>11, <1>12

LEMMA LendingRequest == ASSUME Inv, Wired, Lending, Request PROVE Lending'
<1>1. /\ Memory' /\ UNCHANGED <<addr, dir, done>> /\ sem' = 0
      /\ w_pos' = w_pos /\ r_pos \in [Dirs -> Nat] /\ dir \in Dirs
  BY MemoryStep DEF Lending, Next, Transfer, Request, ReqBuffer, Inv, Types
<1>2. ppc = "request" /\ sem \in {0, 1}
  BY DEF Request, Inv, Types
<1>3. CASE Lends(dir, FALSE)
  <2>1. /\ held' = Lent(dir) /\ data' = addr[dir][Lent(dir)] /\ ppc' = "use" /\ UNCHANGED failed
        /\ r_pos' = IF dir = "rx" THEN [r_pos EXCEPT !["rx"] = Lent("rx")] ELSE r_pos
    BY <1>3 DEF Request, ReqBuffer
  <2>2. Mapped("tx", Size["tx"]) /\ Mapped("rx", Size["rx"])
    BY <1>2, <1>3 DEF Lends, Lending, Mapping, Alive
  <2>3. data' = held'
    <3>1. Lent(dir) \in Cells(dir) /\ Size[dir] \in Nat /\ Mapped(dir, Size[dir])
      BY <1>1, <2>2, Positions, Sizes DEF Dirs
    <3> QED
      BY <2>1, <3>1 DEF Mapped
  <2>4. held' = IF dir = "tx" THEN w_pos["tx"] ELSE r_pos'["rx"]
    <3>1. CASE dir = "tx"
      BY <2>1, <3>1 DEF Lent
    <3>2. CASE dir = "rx"
      BY <1>1, <2>1, <3>2 DEF Dirs
    <3> QED
      BY <1>1, <3>1, <3>2 DEF Dirs
  <2>5. Mapped("tx", Size["tx"])' /\ Mapped("rx", Size["rx"])'
    BY <1>1, <2>2 DEF Mapped
  <2>6. ppc' = "use" /\ data' = held' /\ held' = IF dir' = "tx" THEN w_pos'["tx"] ELSE r_pos'["rx"]
    BY <1>1, <2>1, <2>3, <2>4
  <2> QED
    BY <1>1, <2>5, <2>6 DEF Lending, Mapping, Hand, Failing, InSetup, Alive
<1>4. CASE ~Lends(dir, FALSE)
  <2>1. ppc' = "idle" /\ failed'
    BY <1>4 DEF Request
  <2> QED
    BY <1>1, <2>1 DEF Lending, Mapping, Hand, Failing, InSetup, Alive
<1> QED
  BY <1>3, <1>4

LEMMA LendingEnqueue == ASSUME Inv, Wired, Lending, Enqueue PROVE Lending'
<1>1. /\ Memory' /\ ppc = "return" /\ ppc' = "tell" /\ dir \in Dirs
      /\ addr' = [addr EXCEPT ![dir][held] = data]
  BY MemoryStep DEF Lending, Next, Transfer, Enqueue, EnqBuffer, Inv, Types
<1>2. Mapped("tx", Size["tx"]) /\ Mapped("rx", Size["rx"]) /\ held = data
  BY <1>1 DEF Lending, Mapping, Hand, Alive
<1>3. ASSUME NEW d \in Dirs PROVE \A i \in Cells(d) : addr[d][i] = i => addr'[d][i] = i
  BY <1>1, <1>2, <1>3 DEF Lending, Memory
<1>4. Mapped("tx", Size["tx"])' /\ Mapped("rx", Size["rx"])'
  BY <1>2, <1>3 DEF Mapped, Dirs, Cells
<1> QED
  BY <1>1, <1>4 DEF Lending, Mapping, Hand, Failing, InSetup, Alive

LEMMA LendingStep == ASSUME Inv, Wired, Lending, [Next]_vars PROVE Lending'
<1> USE DEF posVars, bufVars, stateVars, threadVars, clientVars, queueVars, Dirs
<1>1. Memory'
  BY MemoryStep DEF Lending
<1>2. CASE Sender \/ Receiver
  <2>1. /\ UNCHANGED <<addr, sem, ppc, dir, done, held, data, map_buffer, failed>>
        /\ w_pos'["tx"] = w_pos["tx"] /\ r_pos'["rx"] = r_pos["rx"]
    BY <1>2 DEF Sender, Receiver, TxLoop, TxNext, TxSent, TxFault, TxForget, TxWoken,
       RxLoop, RxReceived, RxMove, RxFault, RxTimeout, Inv, Types
  <2> QED
    BY <1>1, <2>1 DEF Lending, Mapping, Mapped, Hand, Failing, InSetup, Alive
<1>3. CASE Open
  <2>1. /\ ppc = "off" /\ ppc' = "ring" /\ dir' = "tx" /\ UNCHANGED <<sem, failed>>
    BY <1>3 DEF Open
  <2> QED
    BY <1>1, <2>1 DEF Lending, Mapping, Hand, Failing, InSetup, Alive
<1>4. CASE SetupRing
  BY ONLY Inv, Wired, Lending, <1>4, LendingSetupRing
<1>5. CASE SetupRequest
  BY ONLY Inv, Wired, Lending, <1>5, LendingSetupRequest
<1>6. CASE SetupMap
  <2>1. /\ ppc = "map" /\ ppc' = "enqueue" /\ data' = map_buffer
        /\ UNCHANGED <<addr, sem, dir, done, held, failed>>
    BY <1>6 DEF SetupMap
  <2> QED
    BY <1>1, <2>1 DEF Lending, Mapping, Mapped, Hand, Failing, InSetup, Alive
<1>7. CASE SetupEnqueue
  BY ONLY Inv, Wired, Lending, <1>7, LendingSetupEnqueue
<1>8. CASE Start \/ Poll \/ Stop \/ StopTx \/ StoppedTx \/ \E d \in Dirs : Try(d)
  <2>1. /\ ppc \in {"start", "poll", "idle", "stop", "stop_tx"}
        /\ ppc' \in {"idle", "request", "stop", "stop_tx", "stop_rx", "poll"}
        /\ UNCHANGED <<addr, sem, failed>>
    BY <1>8 DEF Start, Poll, Stop, StopTx, StoppedTx, Try
  <2> QED
    BY <1>1, <2>1 DEF Lending, Mapping, Mapped, Hand, Failing, InSetup, Alive
<1>9. CASE Request
  BY ONLY Inv, Wired, Lending, <1>9, LendingRequest
<1>10. CASE Fill \/ Copy
  <2>1. /\ ppc = "use" /\ ppc' = "return"
        /\ UNCHANGED <<addr, sem, failed, dir, held, data, w_pos, r_pos>>
    BY <1>10 DEF Fill, Copy
  <2> QED
    BY <1>1, <2>1 DEF Lending, Mapping, Mapped, Hand, Failing, InSetup, Alive
<1>11. CASE Enqueue
  BY ONLY Inv, Wired, Lending, <1>11, LendingEnqueue
<1>12. CASE Tell
  <2>1. ppc = "tell" /\ ppc' = "idle" /\ sem' = 1 /\ UNCHANGED <<addr, failed>>
    BY <1>12 DEF Tell
  <2> QED
    BY <1>1, <2>1 DEF Lending, Mapping, Mapped, Hand, Failing, InSetup, Alive
<1>13. CASE Release
  <2>1. ppc = "stop_rx" /\ ppc' = "off" /\ UNCHANGED <<sem, failed>>
    BY <1>13 DEF Release
  <2> QED
    BY <1>1, <2>1 DEF Lending, Mapping, Hand, Failing, InSetup, Alive
<1>14. CASE UNCHANGED vars
  <2>1. UNCHANGED <<addr, sem, ppc, dir, done, held, data, map_buffer, failed, w_pos, r_pos>>
    BY <1>14 DEF vars
  <2> QED
    BY <1>1, <2>1 DEF Lending, Mapping, Mapped, Hand, Failing, InSetup, Alive
<1> QED
  BY <1>2, <1>3, <1>4, <1>5, <1>6, <1>7, <1>8, <1>9, <1>10, <1>11, <1>12, <1>13, <1>14
  DEF Next, Setup, Transfer, Ending
-----------------------------------------------------------------------------
(* Rings as queues.                                                        *)
(* Messages on their way, from the program and back to it. The client keeps *)
(* account of them (due), and holds to its window.                          *)
Load == Len(queued) + Len(line) + (IF xpc = "move" THEN 1 ELSE 0) + Len(ready)
LoadBound ==
  /\ Load <= Window
  /\ Alive => Load <= due /\ due <= Window
  /\ Alive /\ ppc \in {"stop", "stop_tx", "stop_rx", "off"} => due = 0
  /\ ppc \in {"poll", "request", "use", "return"} /\ dir = "tx" => due < Window

(* Nothing waits in rings that are not in use.                             *)
Empty == Early => queued = <<>> /\ ready = <<>>

(* The message in the buffer that a thread or the program is at.           *)
Sending == IF tpc = "send" THEN <<mem["tx"][r_pos["tx"]]>> ELSE <<>>
Using == IF ppc = "use" /\ dir = "rx" THEN <<mem["rx"][data]>> ELSE <<>>

(* RingIsQueue, until the rings are released.                              *)
TxQueue == Up => queued = Sending \o Pending("tx")
RxQueue == Up => ready = Using \o Pending("rx")

(* What the last poll has said is still so.                                *)
Told == ppc \in {"request", "use", "return"} /\ polled =>
   /\ dir = "tx" => HasWriteNext("tx")
   /\ dir = "rx" /\ ppc = "request" => HasReadNext("rx")

Base == Inv /\ Wired /\ Lending
Flow == LoadBound /\ Empty /\ TxQueue /\ RxQueue /\ Told

(* Both rings are rings in the sense of the lemmas above.                  *)
LEMMA Rings ==
  ASSUME Base, NEW d \in Dirs
  PROVE  /\ IsRing(mem[d], Size[d], r_pos[d], w_pos[d])
         /\ Pending(d) = Between(mem[d], Size[d], r_pos[d], w_pos[d])
         /\ Pending(d) \in Seq(Nat)
<1>1. IsRing(mem[d], Size[d], r_pos[d], w_pos[d])
  BY Positions, Sizes DEF Base, Lending, Memory, IsRing, Cells
<1>2. Pending(d) = Between(mem[d], Size[d], r_pos[d], w_pos[d])
  BY DEF Pending, Between
<1> QED
  BY <1>1, <1>2, BetweenShape

LEMMA Room == Window \in Nat /\ Window <= M - 2 /\ M \in Nat
  BY XdmaAssumption, SizeM DEF M

(* Queues are sequences of messages.                                       *)
LEMMA Words ==
  ASSUME Base, Empty, TxQueue, RxQueue
  PROVE  queued \in Seq(Nat) /\ ready \in Seq(Nat) /\ line \in Seq(Nat)
<1>1. line \in Seq(Nat)
  BY DEF Base, Lending, Memory
<1>2. CASE Early
  BY <1>1, <1>2 DEF Empty
<1>3. CASE ~Early
  <2>1. Up
    BY <1>3 DEF Up, Early, Base, Inv, Types
  <2>2. Pending("tx") \in Seq(Nat) /\ Pending("rx") \in Seq(Nat)
    BY Rings DEF Dirs
  <2>3. Sending \in Seq(Nat)
    <3>1. mem["tx"][r_pos["tx"]] \in Nat
      BY Positions DEF Base, Lending, Memory, Dirs
    <3> QED
      BY <3>1 DEF Sending
  <2>4. Using \in Seq(Nat)
    <3>1. ppc = "use" /\ dir = "rx" => mem["rx"][data] \in Nat
      BY Positions DEF Base, Lending, Memory, Hand, Dirs
    <3> QED
      BY <3>1 DEF Using
  <2>5. queued = Sending \o Pending("tx") /\ ready = Using \o Pending("rx")
    BY <2>1 DEF TxQueue, RxQueue
  <2> QED
    BY <1>1, <2>2, <2>3, <2>4, <2>5
<1> QED
  BY <1>2, <1>3

(* The window keeps the receiver away from the reader: the ring is never    *)
(* so full that the writer meets it.                                        *)
LEMMA RxApart ==
  ASSUME Base, Flow, Up
  PROVE  w_pos["rx"] # r_pos["rx"] /\ Pending("rx") \in Seq(Nat)
<1>1. /\ Pending("rx") = Between(mem["rx"], M, r_pos["rx"], w_pos["rx"])
      /\ IsRing(mem["rx"], M, r_pos["rx"], w_pos["rx"]) /\ Pending("rx") \in Seq(Nat)
  BY Rings DEF Dirs, M
<1>2. Len(ready) >= Len(Pending("rx"))
  <2>1. ready = Using \o Pending("rx")
    BY DEF Flow, RxQueue
  <2>2. Using \in Seq(Nat)
    <3>1. ppc = "use" /\ dir = "rx" => mem["rx"][data] \in Nat
      BY Positions DEF Base, Lending, Memory, Hand, Dirs
    <3> QED
      BY <3>1 DEF Using
  <2> QED
    BY ONLY <1>1, <2>1, <2>2
<1>3. Len(ready) <= Window
  <2>1. Len(queued) \in Nat /\ Len(line) \in Nat /\ Len(ready) \in Nat
    BY Words DEF Flow
  <2>2. Load <= Window
    BY DEF Flow, LoadBound
  <2> QED
    BY <2>1, <2>2, Room DEF Load
<1>4. Len(Pending("rx")) \in Nat /\ Len(ready) \in Nat
  BY <1>1, Words DEF Flow
<1>5. Len(Pending("rx")) # M - 1
  BY ONLY <1>2, <1>3, <1>4, Room
<1> QED
  BY <1>1, <1>5, BetweenCount

(* A step that does not touch a ring leaves it the queue it is.            *)
LEMMA TxKept ==
  ASSUME TxQueue, Up' => Up, (tpc = "send") = (tpc' = "send"),
         UNCHANGED queued, mem'["tx"] = mem["tx"],
         r_pos'["tx"] = r_pos["tx"], w_pos'["tx"] = w_pos["tx"]
  PROVE  TxQueue'
<1>1. Pending("tx")' = Pending("tx") /\ Sending' = Sending
  BY DEF Pending, Sending
<1> QED
  BY <1>1 DEF TxQueue

LEMMA RxKept ==
  ASSUME RxQueue, Up' => Up, (ppc = "use" /\ dir = "rx") = (ppc' = "use" /\ dir' = "rx"),
         UNCHANGED <<ready, data>>, mem'["rx"] = mem["rx"],
         r_pos'["rx"] = r_pos["rx"], w_pos'["rx"] = w_pos["rx"]
  PROVE  RxQueue'
<1>1. Pending("rx")' = Pending("rx") /\ Using' = Using
  BY DEF Pending, Using
<1> QED
  BY <1>1 DEF RxQueue

LEMMA InitFlow == Init => Flow
<1> SUFFICES ASSUME Init PROVE Flow
  OBVIOUS
<1>1. /\ ppc = "off" /\ due = 0 /\ polled = FALSE /\ xpc = "off"
      /\ line = <<>> /\ queued = <<>> /\ ready = <<>>
  BY DEF Init
<1>2. Load = 0
  BY <1>1 DEF Load
<1> QED
  BY <1>1, <1>2, Room DEF Flow, LoadBound, Empty, TxQueue, RxQueue, Told, Up, Early

(* Adding to a queue and taking from it.                                   *)
LEMMA OneMore == ASSUME NEW s \in Seq(Nat), NEW x \in Nat, NEW p \in Seq(Nat)
                 PROVE  /\ Len(Append(s, x)) = Len(s) + 1 /\ Append(s, x) \in Seq(Nat)
                        /\ Tail(<<x>> \o p) = p /\ Len(<<x>> \o p) = Len(p) + 1
                        /\ <<>> \o p = p
                        /\ s \o Append(p, x) = Append(s \o p, x)
<1>1. Len(Append(s, x)) = Len(s) + 1 /\ Append(s, x) \in Seq(Nat)
  OBVIOUS
<1>2. Len(<<x>> \o p) = Len(p) + 1
  OBVIOUS
<1>3. <<>> \o p = p
  OBVIOUS
<1>4. Tail(<<x>> \o p) = p
  <2>1. Tail(<<x>> \o p) \in Seq(Nat) /\ Len(Tail(<<x>> \o p)) = Len(p)
    OBVIOUS
  <2>2. \A i \in 1 .. Len(p) : Tail(<<x>> \o p)[i] = p[i]
    OBVIOUS
  <2> QED
    BY <2>1, <2>2, SeqEqual
<1>5. s \o Append(p, x) = Append(s \o p, x)
  <2>1. /\ s \o Append(p, x) \in Seq(Nat) /\ Append(s \o p, x) \in Seq(Nat)
        /\ Len(s \o Append(p, x)) = Len(Append(s \o p, x))
    OBVIOUS
  <2>2. \A i \in 1 .. Len(s \o Append(p, x)) : (s \o Append(p, x))[i] = Append(s \o p, x)[i]
    OBVIOUS
  <2> QED
    BY <2>1, <2>2, SeqEqual
<1> QED
  BY <1>1, <1>2, <1>3, <1>4, <1>5

(* Each step of a thread or of the client, on queues and load.            *)
LEMMA SenderFlow == ASSUME Base, Flow, Sender PROVE Flow'
<1> USE DEF posVars, bufVars, stateVars, clientVars, queueVars, Dirs
<1>1. Up /\ ~Early /\ UNCHANGED <<ppc, dir, due, sem, polled, mem, w_pos, xpc, ready, data>>
      /\ r_pos \in [Dirs -> Nat]
  BY DEF Sender, TxLoop, TxNext, TxSent, TxFault, TxForget, TxWoken, Base, Inv, Types, Quiet, Up,
     Early
<1>2. /\ IsRing(mem["tx"], N, r_pos["tx"], w_pos["tx"])
      /\ Pending("tx") = Between(mem["tx"], N, r_pos["tx"], w_pos["tx"])
      /\ Pending("tx") \in Seq(Nat) /\ mem["tx"][r_pos["tx"]] \in Nat
  BY Rings, Positions DEF N, Base, Lending, Memory
<1>3. queued = Sending \o Pending("tx")
  BY <1>1 DEF Flow, TxQueue
<1>4. Empty' /\ Up'
  BY <1>1 DEF Empty, Up, Early
<1>5. queued \in Seq(Nat) /\ ready \in Seq(Nat) /\ line \in Seq(Nat)
  BY Words DEF Flow
<1>6. CASE TxNext /\ HasReadNext("tx")
  <2>1. /\ r_pos' = [r_pos EXCEPT !["tx"] = After("tx", r_pos["tx"])]
        /\ tpc = "next" /\ tpc' = "send" /\ UNCHANGED <<line, queued>>
    BY <1>6 DEF TxNext
  <2>2. r_pos'["tx"] = After("tx", r_pos["tx"]) /\ r_pos'["rx"] = r_pos["rx"]
    BY <1>1, <2>1
  <2>3. After("tx", r_pos["tx"]) # w_pos["tx"]
    BY <1>6 DEF HasReadNext
  <2>4. Pending("tx") = <<mem["tx"][After("tx", r_pos["tx"])]>>
                        \o Between(mem["tx"], N, After("tx", r_pos["tx"]), w_pos["tx"])
    BY <1>2, <2>3, BetweenTake DEF After, N
  <2>5. Sending' \o Pending("tx")' = Pending("tx")
    <3>1. Sending' = <<mem["tx"][After("tx", r_pos["tx"])]>>
      BY <1>1, <2>1, <2>2 DEF Sending
    <3>2. Pending("tx")' = Between(mem["tx"], N, After("tx", r_pos["tx"]), w_pos["tx"])
      BY <1>1, <2>2 DEF Pending, Between, N
    <3> QED
      BY <2>4, <3>1, <3>2
  <2>6. TxQueue'
    <3>1. Sending = <<>> /\ queued = Pending("tx")
      BY <1>2, <1>3, <2>1, OneMore DEF Sending
    <3> QED
      BY <2>1, <2>5, <3>1 DEF TxQueue
  <2>7. RxQueue'
    BY <1>1, <2>2, RxKept DEF Flow, Up
  <2>8. LoadBound'
    BY <1>1, <2>1 DEF Flow, LoadBound, Load, Alive
  <2>9. Told'
    <3>1. ASSUME HasWriteNext("tx") PROVE HasWriteNext("tx")'
      <4>1. After("tx", w_pos["tx"]) # After("tx", r_pos["tx"])
        <5>1. w_pos["tx"] # r_pos["tx"]
          BY <1>1 DEF Base, Inv, Apart, Ready, Up
        <5>2. w_pos["tx"] \in 0 .. N - 1 /\ r_pos["tx"] \in 0 .. N - 1
          BY DEF Base, Inv, Types
        <5> QED
          BY <5>1, <5>2, AfterTx, SizeN
      <4> QED
        BY <1>1, <2>2, <4>1 DEF HasWriteNext, After
    <3>2. HasReadNext("rx") => HasReadNext("rx")'
      BY <1>1, <2>2 DEF HasReadNext, After
    <3> QED
      BY <1>1, <3>1, <3>2 DEF Flow, Told
  <2> QED
    BY <1>4, <2>6, <2>7, <2>8, <2>9 DEF Flow
<1>7. CASE TxSent \/ TxFault
  <2>1. tpc = "send" /\ tpc' # "send" /\ queued' = Tail(queued) /\ UNCHANGED r_pos
    BY <1>7 DEF TxSent, TxFault
  <2>2. /\ queued' = Pending("tx") /\ Len(queued) = Len(queued') + 1 /\ Len(queued') \in Nat
    <3>1. Sending = <<mem["tx"][r_pos["tx"]]>>
      BY <2>1 DEF Sending
    <3> QED
      BY <1>2, <1>3, <2>1, <3>1, OneMore
  <2>3. TxQueue'
    <3>1. Pending("tx")' = Pending("tx") /\ Sending' = <<>>
      BY <1>1, <2>1 DEF Pending, Sending
    <3> QED
      BY <1>2, <2>2, <3>1, OneMore DEF TxQueue
  <2>4. RxQueue' /\ Told'
    <3>1. RxQueue'
      BY <1>1, <2>1, RxKept DEF Flow, Up
    <3>2. Told'
      BY <1>1, <2>1 DEF Flow, Told, HasWriteNext, HasReadNext, After
    <3> QED
      BY <3>1, <3>2
  <2>5. Len(line') \in {Len(line), Len(line) + 1}
    <3>1. line' = line \/ line' = Append(line, mem["tx"][r_pos["tx"]])
      BY <1>7 DEF TxSent, TxFault
    <3> QED
      BY <1>2, <1>5, <3>1, OneMore
  <2>6. LoadBound'
    <3>1. Load' <= Load /\ Load \in Nat /\ Load' \in Nat
      BY <1>1, <1>5, <2>2, <2>5 DEF Load
    <3>2. due \in Int
      BY DEF Base, Wired, Kinds
    <3> QED
      BY <1>1, <3>1, <3>2, Room DEF Flow, LoadBound, Alive
  <2> QED
    BY <1>4, <2>3, <2>4, <2>6 DEF Flow
<1>8. CASE ~TxSent /\ ~TxFault /\ ~(TxNext /\ HasReadNext("tx"))
  <2>1. (tpc = "send") = (tpc' = "send") /\ UNCHANGED <<r_pos, queued, line>>
    BY <1>8 DEF Sender, TxLoop, TxNext, TxForget, TxWoken
  <2>2. TxQueue' /\ RxQueue'
    BY <1>1, <2>1, TxKept, RxKept DEF Flow, Up
  <2>3. LoadBound' /\ Told'
    BY <1>1, <2>1 DEF Flow, LoadBound, Load, Alive, Told, HasWriteNext, HasReadNext, After
  <2> QED
    BY <1>4, <2>2, <2>3 DEF Flow
<1> QED
  BY <1>6, <1>7, <1>8

LEMMA ReceiverFlow == ASSUME Base, Flow, Receiver PROVE Flow'
<1> USE DEF posVars, bufVars, stateVars, clientVars, queueVars, Dirs
<1>1. /\ Up /\ ~Early
      /\ UNCHANGED <<ppc, dir, due, sem, polled, r_pos, tpc, queued, data>>
  BY DEF Receiver, RxLoop, RxReceived, RxMove, RxFault, RxTimeout, Base, Inv, Types, Wired, Kinds,
     Still, Up, Early
<1>2. /\ w_pos \in [Dirs -> Nat] /\ DOMAIN mem = Dirs
      /\ IsRing(mem["rx"], M, r_pos["rx"], w_pos["rx"])
      /\ Pending("rx") = Between(mem["rx"], M, r_pos["rx"], w_pos["rx"])
      /\ Pending("rx") \in Seq(Nat) /\ w_pos["rx"] # r_pos["rx"]
      /\ w_pos["rx"] \in 0 .. M - 1 /\ r_pos["rx"] \in 0 .. M - 1
      /\ mem["rx"][w_pos["rx"]] \in Nat
  BY <1>1, Rings, RxApart, Positions DEF M, Base, Inv, Types, Lending, Memory, Cells
<1>3. ready = Using \o Pending("rx") /\ Using \in Seq(Nat)
  <2>1. ppc = "use" /\ dir = "rx" => mem["rx"][data] \in Nat
    BY Positions DEF Base, Lending, Memory, Hand
  <2> QED
    BY <1>1, <2>1 DEF Flow, RxQueue, Using
<1>4. Empty' /\ Up'
  BY <1>1 DEF Empty, Up, Early
<1>5. /\ queued \in Seq(Nat) /\ ready \in Seq(Nat) /\ line \in Seq(Nat)
      /\ Len(queued) \in Nat /\ Len(ready) \in Nat /\ Len(line) \in Nat
  BY Words DEF Flow
<1>6. ASSUME Load' <= Load, Load' \in Nat PROVE LoadBound'
  <2>1. due \in Int /\ Load \in Nat
    BY <1>5 DEF Base, Wired, Kinds, Load
  <2> QED
    BY <1>1, <1>6, <2>1, Room DEF Flow, LoadBound, Alive
<1>7. CASE RxReceived
  <2>1. /\ xpc = "receive" /\ xpc' = "move" /\ line # <<>> /\ line' = Tail(line)
        /\ mem' = [mem EXCEPT !["rx"][w_pos["rx"]] = Head(line)]
        /\ UNCHANGED <<w_pos, ready>>
    BY <1>7 DEF RxReceived
  <2>2. /\ mem'["rx"] = [mem["rx"] EXCEPT ![w_pos["rx"]] = Head(line)]
        /\ mem'["tx"] = mem["tx"]
    BY <1>2, <2>1
  <2>3. Head(line) \in Nat /\ Len(line) = Len(line') + 1 /\ Len(line') \in Nat
    BY <1>5, <2>1
  <2>4. Pending("rx")' = Pending("rx")
    <3>1. Between(mem'["rx"], M, r_pos["rx"], w_pos["rx"]) = Pending("rx")
      BY <1>2, <2>2, <2>3, BetweenWrite
    <3> QED
      BY <1>1, <2>1, <3>1 DEF Pending, Between, M
  <2>5. Using' = Using
    <3>1. ppc = "use" /\ dir = "rx" => mem'["rx"][data] = mem["rx"][data]
      BY <1>2, <2>2 DEF Base, Lending, Hand
    <3> QED
      BY <1>1, <3>1 DEF Using
  <2>6. RxQueue' /\ TxQueue'
    BY <1>1, <1>3, <2>1, <2>2, <2>4, <2>5, TxKept DEF Flow, RxQueue, Up
  <2>7. LoadBound'
    <3>1. Load' = Load /\ Load \in Nat
      BY <1>1, <1>5, <2>1, <2>3 DEF Load
    <3> QED
      BY <1>6, <3>1
  <2>8. Told'
    BY <1>1, <2>1 DEF Flow, Told, HasWriteNext, HasReadNext, After
  <2> QED
    BY <1>4, <2>6, <2>7, <2>8 DEF Flow
<1>8. CASE RxMove
  <2>1. /\ xpc = "move" /\ xpc' = "loop" /\ ready' = Append(ready, mem["rx"][w_pos["rx"]])
        /\ w_pos' = [w_pos EXCEPT !["rx"] = After("rx", w_pos["rx"])]
        /\ UNCHANGED <<mem, line>>
    BY <1>8 DEF RxMove
  <2>2. w_pos'["rx"] = After("rx", w_pos["rx"]) /\ w_pos'["tx"] = w_pos["tx"]
    BY <1>2, <2>1
  <2>3. Pending("rx")' = Append(Pending("rx"), mem["rx"][w_pos["rx"]])
    <3>1. Between(mem["rx"], M, r_pos["rx"], After("rx", w_pos["rx"]))
            = Append(Pending("rx"), mem["rx"][w_pos["rx"]])
      BY <1>2, BetweenPut DEF After, M
    <3> QED
      BY <1>1, <2>1, <2>2, <3>1 DEF Pending, Between, M
  <2>4. Using' = Using
    BY <1>1, <2>1 DEF Using
  <2>5. RxQueue'
    <3>1. Using \o Append(Pending("rx"), mem["rx"][w_pos["rx"]])
            = Append(Using \o Pending("rx"), mem["rx"][w_pos["rx"]])
      BY <1>2, <1>3, OneMore
    <3> QED
      BY <1>3, <2>1, <2>3, <2>4, <3>1 DEF RxQueue
  <2>6. TxQueue'
    BY <1>1, <2>1, <2>2, TxKept DEF Flow, Up
  <2>7. LoadBound'
    <3>1. Len(ready') = Len(ready) + 1
      BY <1>2, <1>5, <2>1, OneMore
    <3>2. Load' = Load /\ Load \in Nat
      BY <1>1, <1>5, <2>1, <3>1 DEF Load
    <3> QED
      BY <1>6, <3>2
  <2>8. Told'
    <3>1. ASSUME HasReadNext("rx") PROVE HasReadNext("rx")'
      <4>1. After("rx", w_pos["rx"]) # After("rx", r_pos["rx"])
        <5>1. /\ w_pos["rx"] # r_pos["rx"]
              /\ w_pos["rx"] \in 0 .. M - 1 /\ r_pos["rx"] \in 0 .. M - 1
          BY <1>2
        <5> QED
          BY ONLY <5>1, AfterRxRing, SizeM
      <4> QED
        BY <1>1, <2>2, <4>1 DEF HasReadNext, After
    <3>2. HasWriteNext("tx") => HasWriteNext("tx")'
      BY <1>1, <2>2 DEF HasWriteNext, After
    <3> QED
      BY <1>1, <3>1, <3>2 DEF Flow, Told
  <2> QED
    BY <1>4, <2>5, <2>6, <2>7, <2>8 DEF Flow
<1>9. CASE RxLoop \/ RxFault \/ RxTimeout
  <2>1. /\ xpc \in {"loop", "receive"} /\ xpc' \in {"receive", "exit"}
        /\ line' = line \/ (line # <<>> /\ line' = Tail(line))
        /\ UNCHANGED <<w_pos, mem, ready>>
    BY <1>9 DEF RxLoop, RxFault, RxTimeout
  <2>2. Len(line') <= Len(line) /\ Len(line') \in Nat
    BY <1>5, <2>1
  <2>3. Load' <= Load /\ Load' \in Nat
    BY <1>1, <1>5, <2>1, <2>2 DEF Load
  <2>4. TxQueue' /\ RxQueue'
    BY <1>1, <2>1, TxKept, RxKept DEF Flow, Up
  <2>5. Told'
    BY <1>1, <2>1 DEF Flow, Told, HasWriteNext, HasReadNext, After
  <2> QED
    BY <1>4, <1>6, <2>3, <2>4, <2>5 DEF Flow
<1> QED
  BY <1>7, <1>8, <1>9 DEF Receiver

LEMMA SetupFlow ==
  ASSUME Base, Flow, SetupRing \/ SetupRequest \/ SetupMap \/ SetupEnqueue
  PROVE  Flow'
<1> USE DEF posVars, bufVars, stateVars, threadVars, clientVars, queueVars
<1>1. Early /\ Early' /\ UNCHANGED <<queued, ready, line, xpc, due>>
  <2>1. CASE SetupRing
    BY <2>1 DEF SetupRing, Early
  <2>2. CASE SetupRequest
    BY <2>2 DEF SetupRequest, NextRing, Early
  <2>3. CASE SetupMap
    BY <2>3 DEF SetupMap, Early
  <2>4. CASE SetupEnqueue
    BY <2>4 DEF SetupEnqueue, NextRing, Early
  <2> QED
    BY <2>1, <2>2, <2>3, <2>4
<1>2. Alive' => Alive
  <2>1. CASE SetupRing
    BY <2>1 DEF SetupRing, ReqRing, Alive
  <2>2. CASE SetupRequest
    BY <2>2 DEF SetupRequest, ReqBuffer, Lends, NextRing, Alive
  <2>3. CASE SetupMap
    BY <2>3 DEF SetupMap, Alive
  <2>4. CASE SetupEnqueue
    BY <2>4 DEF SetupEnqueue, Alive
  <2> QED
    BY <2>1, <2>2, <2>3, <2>4
<1>3. ppc' # "off"
  BY DEF SetupRing, SetupRequest, SetupMap, SetupEnqueue, NextRing
<1>4. Empty'
  BY <1>1 DEF Flow, Empty
<1>5. LoadBound'
  BY <1>1, <1>2, <1>3 DEF Flow, LoadBound, Load, Early
<1> QED
  BY <1>1, <1>4, <1>5 DEF Flow, TxQueue, RxQueue, Told, Up, Early

LEMMA StartFlow == ASSUME Base, Flow, Start PROVE Flow'
<1> USE DEF posVars, bufVars, stateVars, threadVars, clientVars, queueVars, Dirs
<1>1. /\ ppc = "start" /\ ppc' = "idle" /\ tpc' = "loop" /\ xpc' = "loop" /\ xpc # "move"
      /\ UNCHANGED <<r_pos, w_pos, mem, sem, due, queued, ready, line>>
  BY DEF Start, Base, Wired, Still, Early
<1>2. /\ r_pos["tx"] = 0 /\ w_pos["tx"] = 1 /\ r_pos["rx"] = 0 /\ w_pos["rx"] = 1
      /\ queued = <<>> /\ ready = <<>>
  BY <1>1 DEF Base, Wired, RxSetup, TxReady, Flow, Empty, Early
<1>3. Pending("tx") = <<>>
  <2>1. After("tx", 0) = 1 
    BY AfterTx, SizeN
  <2> QED
    BY <1>2, <2>1, Rings, BetweenCount DEF After
<1>4. Pending("rx") = <<>>
  <2>1. After("rx", 0) = 1
    BY AfterRxRing, SizeM
  <2> QED
    BY <1>2, <2>1, Rings, BetweenCount DEF After
<1>5. Pending("tx")' = <<>> /\ Pending("rx")' = <<>>
  BY <1>1, <1>3, <1>4 DEF Pending
<1>6. TxQueue' /\ RxQueue'
  <2>1. Sending' = <<>> /\ Using' = <<>>
    BY <1>1 DEF Sending, Using
  <2> QED
    BY <1>1, <1>2, <1>5, <2>1, OneMore DEF TxQueue, RxQueue
<1>7. LoadBound' /\ Empty' /\ Told'
  BY <1>1 DEF Flow, LoadBound, Load, Alive, Empty, Early, Told
<1> QED
  BY <1>6, <1>7 DEF Flow

LEMMA RequestFlow == ASSUME Base, Flow, Request PROVE Flow'
<1> USE DEF posVars, bufVars, stateVars, threadVars, clientVars, queueVars, Dirs
<1>1. /\ Up /\ ~Early /\ ppc = "request" /\ ppc' \in {"use", "idle"} /\ sem' = 0
      /\ UNCHANGED <<dir, due, polled, w_pos, tpc, xpc, mem, addr, queued, line, ready>>
      /\ r_pos \in [Dirs -> Nat] /\ dir \in Dirs /\ sem \in {0, 1}
  BY DEF Request, ReqBuffer, Up, Early, Base, Inv, Types
<1>2. Empty' /\ Up'
  BY <1>1 DEF Empty, Up, Early
<1>3. /\ IsRing(mem["rx"], M, r_pos["rx"], w_pos["rx"])
      /\ Pending("rx") = Between(mem["rx"], M, r_pos["rx"], w_pos["rx"])
      /\ Pending("rx") \in Seq(Nat)
      /\ ready = Pending("rx")
  <2>1. /\ IsRing(mem["rx"], M, r_pos["rx"], w_pos["rx"])
        /\ Pending("rx") = Between(mem["rx"], M, r_pos["rx"], w_pos["rx"])
        /\ Pending("rx") \in Seq(Nat)
    BY Rings DEF M
  <2>2. ready = <<>> \o Pending("rx")
    BY <1>1 DEF Flow, RxQueue, Using
  <2> QED
    BY <2>1, <2>2, OneMore
<1>4. CASE Lends(dir, FALSE)
  <2>1. /\ sem = 1 /\ ppc' = "use" /\ (dir = "rx" => HasReadNext("rx"))
        /\ r_pos' = IF dir = "rx" THEN [r_pos EXCEPT !["rx"] = After("rx", r_pos["rx"])] ELSE r_pos
        /\ data' = addr[dir][Lent(dir)]
    BY <1>1, <1>4 DEF Lends, Request, ReqBuffer, Lent
  <2>2. r_pos'["tx"] = r_pos["tx"]
    BY <1>1, <2>1
  <2>3. LoadBound'
    BY <1>1, <2>1 DEF Flow, LoadBound, Load, Alive
  <2>4. TxQueue'
    BY <1>1, <2>2, TxKept DEF Flow, Up
  <2>5. RxQueue'
    <3>1. CASE dir = "tx"
      <4>1. Pending("rx")' = Pending("rx") /\ Using' = <<>>
        BY <1>1, <2>1, <3>1 DEF Pending, Using
      <4> QED
        BY <1>1, <1>3, <4>1, OneMore DEF RxQueue
    <3>2. CASE dir = "rx"
      <4>1. r_pos'["rx"] = After("rx", r_pos["rx"]) /\ After("rx", r_pos["rx"]) # w_pos["rx"]
        BY <1>1, <2>1, <3>2 DEF HasReadNext
      <4>2. data' = After("rx", r_pos["rx"])
        <5>1. Mapped("rx", Size["rx"]) /\ Size["rx"] \in Nat
          BY <1>1, <2>1, Sizes DEF Base, Lending, Mapping, Alive
        <5>2. Lent("rx") \in Cells("rx") /\ Lent("rx") = After("rx", r_pos["rx"])
          BY Positions DEF Base, Lent
        <5> QED
          BY <2>1, <3>2, <5>1, <5>2 DEF Mapped
      <4>3. Pending("rx") = <<mem["rx"][After("rx", r_pos["rx"])]>>
                            \o Between(mem["rx"], M, After("rx", r_pos["rx"]), w_pos["rx"])
        BY <1>3, <4>1, BetweenTake DEF After, M
      <4>4. Pending("rx")' = Between(mem["rx"], M, After("rx", r_pos["rx"]), w_pos["rx"])
        BY <1>1, <4>1 DEF Pending, Between, M
      <4>5. Using' = <<mem["rx"][After("rx", r_pos["rx"])]>>
        BY <1>1, <2>1, <3>2, <4>2 DEF Using
      <4> QED
        BY <1>1, <1>3, <4>3, <4>4, <4>5 DEF RxQueue
    <3> QED
      BY <1>1, <3>1, <3>2
  <2>6. Told'
    BY <1>1, <2>1, <2>2 DEF Flow, Told, HasWriteNext, HasReadNext, After
  <2> QED
    BY <1>2, <2>3, <2>4, <2>5, <2>6 DEF Flow
<1>5. CASE ~Lends(dir, FALSE)
  <2>1. ppc' = "idle" /\ UNCHANGED <<r_pos, data>>
    BY <1>5 DEF Request, ReqBuffer
  <2>2. LoadBound' /\ Told'
    BY <1>1, <2>1 DEF Flow, LoadBound, Load, Alive, Told
  <2>3. TxQueue' /\ RxQueue'
    BY <1>1, <2>1, TxKept, RxKept DEF Flow, Up
  <2> QED
    BY <1>2, <2>2, <2>3 DEF Flow
<1> QED
  BY <1>4, <1>5

LEMMA FillFlow == ASSUME Base, Flow, Fill PROVE Flow'
<1> USE DEF posVars, bufVars, stateVars, threadVars, clientVars, queueVars, Dirs
<1>1. /\ ppc = "use" /\ dir = "tx" /\ ppc' = "return" /\ Up
      /\ mem' = [mem EXCEPT !["tx"][data] = counter + 1]
      /\ UNCHANGED <<dir, due, sem, polled, data, r_pos, w_pos, tpc, xpc, queued, line, ready>>
  BY DEF Fill, Up
<1>2. /\ data = w_pos["tx"] /\ w_pos["tx"] # r_pos["tx"] /\ counter + 1 \in Nat
      /\ IsRing(mem["tx"], N, r_pos["tx"], w_pos["tx"])
      /\ Pending("tx") = Between(mem["tx"], N, r_pos["tx"], w_pos["tx"])
      /\ r_pos["tx"] \in 0 .. N - 1
  BY <1>1, Rings DEF N, Base, Lending, Hand, Inv, Types, Apart, Ready, Wired, Kinds
<1>3. /\ mem'["tx"] = [mem["tx"] EXCEPT ![w_pos["tx"]] = counter + 1] /\ mem'["rx"] = mem["rx"]
  BY <1>1, <1>2 DEF Base, Lending, Memory
<1>4. Pending("tx")' = Pending("tx")
  <2>1. Between(mem'["tx"], N, r_pos["tx"], w_pos["tx"]) = Pending("tx")
    BY <1>2, <1>3, BetweenWrite
  <2> QED
    BY <1>1, <2>1 DEF Pending, Between, N
<1>5. Sending' = Sending
  BY <1>1, <1>2, <1>3 DEF Sending
<1>6. TxQueue'
  BY <1>1, <1>4, <1>5 DEF Flow, TxQueue
<1>7. RxQueue'
  BY <1>1, <1>3, RxKept DEF Flow, Up
<1>8. LoadBound' /\ Empty' /\ Told'
  BY <1>1 DEF Flow, LoadBound, Load, Alive, Empty, Early, Told, HasWriteNext, HasReadNext, After
<1> QED
  BY <1>6, <1>7, <1>8 DEF Flow

LEMMA CopyFlow == ASSUME Base, Flow, Copy PROVE Flow'
<1> USE DEF posVars, bufVars, stateVars, threadVars, clientVars, queueVars, Dirs
<1>1. /\ ppc = "use" /\ dir = "rx" /\ ppc' = "return" /\ Up
      /\ ready' = Tail(ready) /\ due' = due - 1
      /\ UNCHANGED <<dir, sem, polled, data, r_pos, w_pos, mem, tpc, xpc, queued, line>>
  BY DEF Copy, Up
<1>2. Pending("rx") \in Seq(Nat) /\ mem["rx"][data] \in Nat
  BY <1>1, Rings, Positions DEF Base, Lending, Memory, Hand
<1>3. ready = <<mem["rx"][data]>> \o Pending("rx")
  BY <1>1 DEF Flow, RxQueue, Using
<1>4. ready' = Pending("rx") /\ Len(ready) = Len(ready') + 1
  <2>1. PICK p, x : p = Pending("rx") /\ x = mem["rx"][data]
    OBVIOUS
  <2>2. p \in Seq(Nat) /\ x \in Nat /\ ready = <<x>> \o p /\ ready' = Tail(ready)
    BY ONLY <1>1, <1>2, <1>3, <2>1
  <2>3. Tail(<<x>> \o p) = p /\ Len(<<x>> \o p) = Len(p) + 1
    BY ONLY <2>2, OneMore
  <2>4. QED  BY ONLY <2>1, <2>2, <2>3
<1>5. RxQueue'
  <2>1. Pending("rx")' = Pending("rx") /\ Using' = <<>>
    BY <1>1 DEF Pending, Using
  <2> QED
    BY <1>2, <1>4, <2>1, OneMore DEF RxQueue
<1>6. TxQueue'
  BY <1>1, TxKept DEF Flow, Up
<1>7. LoadBound'
  <2>1. /\ Len(queued) \in Nat /\ Len(line) \in Nat /\ Len(ready) \in Nat /\ Len(ready') \in Nat
    BY <1>2, <1>4, Words DEF Flow
  <2>2. Load' = Load - 1 /\ Load \in Nat
    <3>1. UNCHANGED <<queued, line, xpc>> /\ Len(ready') = Len(ready) - 1
      BY <1>1, <1>4, <2>1
    <3> QED
      BY ONLY <2>1, <3>1 DEF Load
  <2>3. due \in Int
    BY DEF Base, Wired, Kinds
  <2> QED
    BY <1>1, <2>2, <2>3, Room DEF Flow, LoadBound, Alive
<1>8. Empty' /\ Told'
  BY <1>1 DEF Flow, Empty, Early, Told
<1> QED
  BY <1>5, <1>6, <1>7, <1>8 DEF Flow

LEMMA EnqueueFlow == ASSUME Base, Flow, Enqueue PROVE Flow'
<1> USE DEF posVars, bufVars, stateVars, threadVars, clientVars, queueVars, Dirs
<1>1. /\ ppc = "return" /\ ppc' = "tell" /\ Up /\ dir \in Dirs /\ w_pos \in [Dirs -> Nat]
      /\ UNCHANGED <<dir, sem, polled, data, r_pos, mem, tpc, xpc, line, ready>>
  BY DEF Enqueue, EnqBuffer, Up, Base, Inv, Types
<1>2. Empty' /\ Told'
  BY <1>1 DEF Empty, Early, Told
<1>3. CASE Moves(dir, FALSE)
  <2>1. /\ dir = "tx" /\ HasWriteNext("tx") /\ due' = due + 1
        /\ queued' = Append(queued, mem["tx"][w_pos["tx"]])
        /\ w_pos' = [w_pos EXCEPT !["tx"] = After("tx", w_pos["tx"])]
    BY <1>3 DEF Moves, Enqueue, EnqBuffer
  <2>2. w_pos'["tx"] = After("tx", w_pos["tx"]) /\ w_pos'["rx"] = w_pos["rx"]
    BY <1>1, <2>1
  <2>3. /\ w_pos["tx"] # r_pos["tx"]
        /\ IsRing(mem["tx"], N, r_pos["tx"], w_pos["tx"])
        /\ Pending("tx") = Between(mem["tx"], N, r_pos["tx"], w_pos["tx"])
        /\ Pending("tx") \in Seq(Nat) /\ mem["tx"][w_pos["tx"]] \in Nat
        /\ mem["tx"][r_pos["tx"]] \in Nat
    BY <1>1, Rings, Positions DEF N, Base, Inv, Apart, Ready, Lending, Memory
  <2>4. Pending("tx")' = Append(Pending("tx"), mem["tx"][w_pos["tx"]])
    <3>1. Between(mem["tx"], N, r_pos["tx"], After("tx", w_pos["tx"]))
            = Append(Pending("tx"), mem["tx"][w_pos["tx"]])
      BY <2>3, BetweenPut DEF After, N
    <3> QED
      BY <1>1, <2>2, <3>1 DEF Pending, Between, N
  <2>5. TxQueue'
    <3>1. Sending' = Sending /\ Sending \in Seq(Nat)
      BY <1>1, <2>3 DEF Sending
    <3>2. Sending \o Append(Pending("tx"), mem["tx"][w_pos["tx"]])
            = Append(Sending \o Pending("tx"), mem["tx"][w_pos["tx"]])
      BY <2>3, <3>1, OneMore
    <3>3. queued = Sending \o Pending("tx")
      BY <1>1 DEF Flow, TxQueue
    <3> QED
      BY <2>1, <2>4, <3>1, <3>2, <3>3 DEF TxQueue
  <2>6. RxQueue'
    BY <1>1, <2>2, RxKept DEF Flow, Up
  <2>7. LoadBound'
    <3>1. /\ queued \in Seq(Nat)
          /\ Len(queued) \in Nat /\ Len(line) \in Nat /\ Len(ready) \in Nat
      BY Words DEF Flow
    <3>2. Len(queued') = Len(queued) + 1
      BY <2>1, <2>3, <3>1, OneMore
    <3>3. Load' = Load + 1 /\ Load \in Nat
      BY <1>1, <3>1, <3>2 DEF Load
    <3>4. due \in Int /\ due < Window /\ Load <= due
      BY <1>1, <2>1 DEF Base, Wired, Kinds, Flow, LoadBound, Alive
    <3> QED
      BY <1>1, <2>1, <3>3, <3>4, Room DEF LoadBound
  <2> QED
    BY <1>2, <2>5, <2>6, <2>7 DEF Flow
<1>4. CASE ~Moves(dir, FALSE)
  <2>1. UNCHANGED <<w_pos, queued, due>>
    BY <1>4 DEF Enqueue, EnqBuffer
  <2>2. TxQueue' /\ RxQueue'
    BY <1>1, <2>1, TxKept, RxKept DEF Flow, Up
  <2>3. LoadBound'
    BY <1>1, <2>1 DEF Flow, LoadBound, Load, Alive
  <2> QED
    BY <1>2, <2>2, <2>3 DEF Flow
<1> QED
  BY <1>3, <1>4

LEMMA FlowStep == ASSUME Base, Flow, [Next]_vars PROVE Flow'
<1> USE DEF posVars, bufVars, stateVars, threadVars, clientVars, queueVars, Dirs
<1>1. CASE Sender
  BY ONLY Base, Flow, <1>1, SenderFlow
<1>2. CASE Receiver
  BY ONLY Base, Flow, <1>2, ReceiverFlow
<1>3. CASE SetupRing \/ SetupRequest \/ SetupMap \/ SetupEnqueue
  BY ONLY Base, Flow, <1>3, SetupFlow
<1>4. CASE Start
  BY ONLY Base, Flow, <1>4, StartFlow
<1>5. CASE Request
  BY ONLY Base, Flow, <1>5, RequestFlow
<1>6. CASE Fill
  BY ONLY Base, Flow, <1>6, FillFlow
<1>7. CASE Copy
  BY ONLY Base, Flow, <1>7, CopyFlow
<1>8. CASE Enqueue
  BY ONLY Base, Flow, <1>8, EnqueueFlow
<1>9. CASE Open
  <2>1. /\ ppc = "off" /\ ppc' = "ring" /\ dir' = "tx" /\ due' = 0
        /\ UNCHANGED <<sem, xpc, queued, line, ready>>
    BY <1>9 DEF Open
  <2>2. LoadBound'
    BY <2>1, Room DEF Flow, LoadBound, Load, Alive
  <2>3. TxQueue' /\ RxQueue' /\ Told' /\ Empty'
    BY <2>1 DEF TxQueue, RxQueue, Told, Up, Flow, Empty, Early
  <2> QED
    BY <2>2, <2>3 DEF Flow
<1>10. CASE Poll
  <2>1. /\ ppc = "poll" /\ ppc' = "request" /\ polled' = Polled
        /\ UNCHANGED <<dir, sem, due, data, mem, r_pos, w_pos, tpc, xpc, queued, line, ready>>
    BY <1>10 DEF Poll
  <2>2. LoadBound' /\ Empty'
    BY <2>1 DEF Flow, LoadBound, Load, Alive, Empty, Early
  <2>3. TxQueue' /\ RxQueue'
    BY <2>1, TxKept, RxKept DEF Flow, Up
  <2>4. Told'
    BY <2>1 DEF Told, Polled, HasWriteNext, HasReadNext, After
  <2> QED
    BY <2>2, <2>3, <2>4 DEF Flow
<1>11. CASE Tell \/ Stop \/ StopTx \/ StoppedTx \/ \E d \in Dirs : Try(d)
  <2>1. /\ Up /\ Up' /\ ~Early'
        /\ ppc \in {"tell", "idle", "stop", "stop_tx"}
        /\ ppc' \in {"idle", "stop", "stop_tx", "stop_rx", "poll"}
        /\ UNCHANGED <<due, data, mem, r_pos, w_pos, tpc, xpc, queued, line, ready>>
    BY <1>11 DEF Tell, Stop, StopTx, StoppedTx, Try, Up, Early
  <2>2. Alive' => Alive
    BY <1>11 DEF Tell, Stop, StopTx, StoppedTx, Try, Alive
  <2>3. LoadBound'
    <3>1. ppc' = "stop" /\ Alive' => due = 0
      BY <1>11 DEF Tell, Stop, StopTx, StoppedTx, Try, Alive
    <3>2. ppc' = "poll" /\ dir' = "tx" => due < Window
      BY <1>11 DEF Tell, Stop, StopTx, StoppedTx, Try
    <3>3. ppc' \in {"stop_tx", "stop_rx"} => ppc \in {"stop", "stop_tx"}
      BY <1>11 DEF Tell, Stop, StopTx, StoppedTx, Try
    <3> QED
      BY <2>1, <2>2, <3>1, <3>2, <3>3 DEF Flow, LoadBound, Load
  <2>4. TxQueue' /\ RxQueue'
    BY <2>1, TxKept, RxKept DEF Flow
  <2>5. Empty' /\ Told'
    BY <2>1 DEF Empty, Told
  <2> QED
    BY <2>3, <2>4, <2>5 DEF Flow
<1>12. CASE Release
  <2>1. /\ ppc = "stop_rx" /\ ppc' = "off" /\ queued' = <<>> /\ ready' = <<>>
        /\ UNCHANGED <<sem, due, xpc, line>>
    BY <1>12 DEF Release
  <2>2. Load' <= Load
    <3>1. Len(queued) \in Nat /\ Len(line) \in Nat /\ Len(ready) \in Nat
      BY Words DEF Flow
    <3> QED
      BY <2>1, <3>1 DEF Load
  <2>3. LoadBound'
    <3>1. Load \in Nat /\ Load' \in Nat
      BY <2>1, Words DEF Flow, Load
    <3>2. due \in Int
      BY DEF Base, Wired, Kinds
    <3> QED
      BY <2>1, <2>2, <3>1, <3>2, Room DEF Flow, LoadBound, Alive
  <2>4. TxQueue' /\ RxQueue' /\ Told' /\ Empty'
    BY <2>1 DEF TxQueue, RxQueue, Told, Up, Empty
  <2> QED
    BY <2>3, <2>4 DEF Flow
<1>13. CASE UNCHANGED vars
  <2>1. UNCHANGED <<ppc, dir, sem, polled, due, data, mem, r_pos, w_pos, tpc, xpc, queued, line,
                    ready>>
    BY <1>13 DEF vars
  <2>2. TxQueue' /\ RxQueue'
    BY <2>1, TxKept, RxKept DEF Flow, Up
  <2>3. LoadBound' /\ Empty' /\ Told'
    BY <2>1 DEF Flow, LoadBound, Load, Alive, Empty, Early, Told, HasWriteNext, HasReadNext, After
  <2> QED
    BY <2>2, <2>3 DEF Flow
<1> QED
  BY <1>1, <1>2, <1>3, <1>4, <1>5, <1>6, <1>7, <1>8, <1>9, <1>10, <1>11, <1>12, <1>13
  DEF Next, Setup, Transfer, Ending

LEMMA BaseInit == Init => Base
  BY InitInv, WiredInit, InitLending DEF Base

LEMMA BaseStep == Base /\ [Next]_vars => Base'
  BY NextInv, WiredStep, LendingStep DEF Base

Whole == Base /\ Flow

LEMMA WholeInit == Init => Whole
  BY BaseInit, InitFlow DEF Whole

LEMMA WholeStep == Whole /\ [Next]_vars => Whole'
  BY BaseStep, FlowStep DEF Whole

-----------------------------------------------------------------------------
(* Each ring is a queue of messages, for rings of any size: what the       *)
(* threads of axidma_example6.c take out of a ring is what was put in, in  *)
(* order, although ring_read_next and ring_write_next share no lock.       *)
THEOREM RingsAreQueues == Spec => []RingIsQueue
<1>1. Whole => RingIsQueue
  BY DEF Whole, Flow, TxQueue, RxQueue, Sending, Using, RingIsQueue, Streaming, Up
<1> QED
  BY <1>1, WholeInit, WholeStep, PTL DEF Spec

(* A client that keeps its window reads no buffer that the receiver's DMA  *)
(* engine writes, though xdma6_stream_rx_fn never looks at the reader; and *)
(* the memory it uses is that of the buffer it has asked for.              *)
THEOREM ReceiverExclusive == Spec => []ReceiverApart
<1>1. Whole => ReceiverApart
  <2>1. ASSUME Whole, ppc \in {"use", "return"} PROVE held = data
    BY <2>1 DEF Whole, Base, Lending, Hand
  <2>2. ASSUME Whole, ppc \in {"use", "return"}, dir = "rx" PROVE held # w_pos["rx"]
    <3>1. held = r_pos["rx"] /\ w_pos["rx"] # r_pos["rx"]
      BY <2>2, RxApart DEF Whole, Base, Lending, Hand, Up
    <3> QED
      BY <3>1
  <2> QED
    BY <2>1, <2>2 DEF ReceiverApart
<1> QED
  BY <1>1, WholeInit, WholeStep, PTL DEF Spec

(* A buffer that poll has announced is there when the program asks for it, *)
(* whatever the threads do in between: device_poll and the ioctls are      *)
(* separate calls, and nothing is locked from one to the next.             *)
THEOREM PollIsKept == Spec => PollHolds
<1>1. Whole /\ [Next]_vars => [failed' /\ ~failed => ~polled]_vars
  <2> SUFFICES ASSUME Whole, [Next]_vars, failed', ~failed PROVE ~polled
    OBVIOUS
  <2>1. CASE Request
    <3>1. ~Lends(dir, FALSE) /\ ppc = "request" /\ sem \in {0, 1} /\ dir \in Dirs
      BY <2>1 DEF Request, Whole, Base, Inv, Types
    <3>2. sem = 1
      BY <3>1 DEF Whole, Base, Lending, Failing, Alive
    <3>3. dir = "rx" /\ ~HasReadNext("rx")
      BY <3>1, <3>2 DEF Lends, Dirs
    <3> QED
      BY <3>1, <3>3 DEF Whole, Flow, Told
  <2>2. CASE Enqueue
    <3>1. ~Moves(dir, FALSE) /\ ppc = "return" /\ dir = "tx"
      BY <2>2 DEF Enqueue
    <3> QED
      BY <3>1 DEF Moves, Whole, Flow, Told
  <2>3. CASE ~Request /\ ~Enqueue
    BY <2>3 DEF Next, vars, clientVars, Sender, TxLoop, TxNext, TxSent, TxFault, TxForget, TxWoken,
       Receiver, RxLoop, RxReceived, RxMove, RxFault, RxTimeout, Open, Setup, SetupRing,
       SetupRequest, SetupMap, SetupEnqueue, Start, Transfer, Poll, Fill, Copy, Tell, Stop, Ending,
       StopTx, StoppedTx, Release, Try
  <2> QED
    BY <2>1, <2>2, <2>3
<1> QED
  BY <1>1, WholeInit, WholeStep, PTL DEF Spec, PollHolds
=============================================================================
