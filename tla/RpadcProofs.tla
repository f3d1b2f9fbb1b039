----------------------------- MODULE RpadcProofs ------------------------------
(***************************************************************************)
(* The driver for any FIFO and ring size, any number of readers and any    *)
(* order of calls (RpadcFifo): types, ring, interrupt.                     *)
(*                                                                         *)
(* What a data-acquisition program can rely on (RpadcSession), for FIFO    *)
(* and ring of any size and any number of samples: a sleeping thread is    *)
(* not forgotten, readBuf never underflows under a single reader, and the  *)
(* samples of an acquisition reach the program in order and none twice.    *)
(*                                                                         *)
(* The ioctls beside the sample path (RpadcControl), for a time FIFO of    *)
(* any length, any number of triggers and any requests: LAST_TIME never    *)
(* gives a program the words of two triggers as one time, and GET_CONFIG   *)
(* gives back the configuration that was set.                              *)
(***************************************************************************)
EXTENDS RpadcSession, RpadcControl, SequenceTheorems, TLAPS

-----------------------------------------------------------------------------
(* The driver                                                              *)

LEMMA ModRange == \A a \in Nat, b \in Nat \ {0} : a % b \in Nat /\ a % b < b
  OBVIOUS

(* Storing a word keeps the ring a ring, wherever the index points.        *)
LEMMA StoreType ==
  ASSUME NEW n \in Nat \ {0}, NEW b \in [0 .. n - 1 -> Word], NEW i \in Nat, NEW v \in Word
  PROVE  Store(b, i, v) \in [0 .. n - 1 -> Word]
  BY DEF Store

LEMMA FreshType == \A n \in Nat \ {0} : Fresh(n) \in [0 .. n - 1 -> Word]
  BY DEF Fresh, Word

LEMMA EmptyFifo == <<>> \in Seq(Word) /\ Len(<<>>) = 0 /\ Junk \in Word
  BY DEF Word

(* Reading the data register leaves a FIFO that is not longer.             *)
LEMMA FrontRest ==
  ASSUME fifo \in Seq(Word), Len(fifo) <= FifoLen
  PROVE  /\ Front \in Word
         /\ Rest \in Seq(Word) /\ Len(Rest) <= FifoLen
<1>1. CASE fifo = <<>>
  BY <1>1, EmptyFifo DEF Front, Rest
<1>2. CASE fifo # <<>>
  <2>1. Head(fifo) \in Word /\ Tail(fifo) \in Seq(Word)
    BY <1>2
  <2>2. Len(Tail(fifo)) = Len(fifo) - 1 /\ Len(fifo) \in Nat
    BY <1>2
  <2> QED
    BY <1>2, <2>1, <2>2, FifoAssumption DEF Front, Rest
<1> QED
  BY <1>1, <1>2

(* Types alone are not inductive: readBuf's caller counts its loop down,   *)
(* and a thread inside readBuf has at least this iteration left.           *)
LoopBound == \A r \in Readers : rpc[r] = "take" => rem[r] > 0
IInv == TypeOK /\ LoopBound

(* A step that leaves a group of variables alone keeps its types.          *)
LEMMA Keep ==
  ASSUME IInv
  PROVE  /\ UNCHANGED devVars => DevTypes'
         /\ UNCHANGED flagVars => FlagTypes'
         /\ UNCHANGED idxVars => IdxTypes'
         /\ UNCHANGED memVars => MemTypes'
         /\ UNCHANGED irqVars => IrqTypes'
         /\ UNCHANGED readVars => ReadTypes' /\ LoopBound'
         /\ UNCHANGED ctlVars => CtlTypes'
<1> USE DEF IInv, TypeOK
<1>1. UNCHANGED devVars => DevTypes'
  BY DEF devVars, DevTypes
<1>2. UNCHANGED flagVars => FlagTypes'
  BY DEF flagVars, FlagTypes
<1>3. UNCHANGED idxVars => IdxTypes'
  BY DEF idxVars, IdxTypes
<1>4. UNCHANGED memVars => MemTypes'
  BY DEF memVars, MemTypes
<1>5. UNCHANGED irqVars => IrqTypes'
  BY DEF irqVars, IrqTypes
<1>6. UNCHANGED readVars => ReadTypes' /\ LoopBound'
  BY DEF readVars, ReadTypes, LoopBound
<1>7. UNCHANGED ctlVars => CtlTypes'
  BY DEF ctlVars, CtlTypes
<1> QED
  BY <1>1, <1>2, <1>3, <1>4, <1>5, <1>6, <1>7

(* Types are preserved: every value the driver computes is of its kind,    *)
(* in particular the counts that ARM and STOP overwrite never go negative. *)
THEOREM TypeCorrect == Spec => []TypeOK
<1>1. Init => IInv
  <2> SUFFICES ASSUME Init PROVE IInv
    OBVIOUS
  <2>1. DevTypes
    <3>1. fifo \in Seq(Word) /\ Len(fifo) <= FifoLen
      BY FifoAssumption, EmptyFifo DEF Init
    <3>2. isr \subseteq Bits /\ ier \subseteq Bits /\ pend \in BOOLEAN
      BY DEF Init
    <3>3. next \in Nat /\ rec \in {"IDLE", "ARMED", "RUNNING"}
      BY DEF Init
    <3> QED
      BY <3>1, <3>2, <3>3 DEF DevTypes
  <2>2. MemTypes
    BY FifoAssumption, FreshType DEF Init, MemTypes
  <2>3. IrqTypes
    BY FifoAssumption, EmptyFifo DEF Init, IrqTypes
  <2>4. FlagTypes /\ IdxTypes
    BY DEF Init, FlagTypes, IdxTypes
  <2>5. ReadTypes
    BY DEF Init, ReadTypes
  <2>6. CtlTypes
    BY FifoAssumption DEF Init, CtlTypes
  <2>7. LoopBound
    BY DEF Init, LoopBound
  <2> QED
    BY <2>1, <2>2, <2>3, <2>4, <2>5, <2>6, <2>7 DEF TypeOK, IInv
<1>2. IInv /\ [Next]_vars => IInv'
  <2> SUFFICES ASSUME IInv, [Next]_vars PROVE IInv'
    OBVIOUS
  <2> USE Keep DEF TypeOK, IInv
  <2>1. CASE Emit
    <3>1. Append(fifo, next) \in Seq(Word) /\ Len(Append(fifo, next)) <= FifoLen
      BY <2>1, FifoAssumption DEF Emit, DevTypes, Word
    <3>2. DevTypes'
      BY <2>1, <3>1 DEF Emit, SetBits, DevTypes, Bits
    <3> QED
      BY <2>1, <3>2 DEF Emit
  <2>2. CASE EmitLost
    BY <2>2 DEF EmitLost, DevTypes
  <2>3. CASE TriggerIn
    BY <2>3 DEF TriggerIn, DevTypes
  <2>4. CASE IrqEnter
    BY <2>4 DEF IrqEnter, DevTypes, IrqTypes
  <2>5. CASE IrqMask
    BY <2>5, FifoAssumption DEF IrqMask, DevTypes, IrqTypes
  <2>6. CASE IrqCheck
    BY <2>6 DEF IrqCheck, Woken, FlagTypes, IrqTypes, ReadTypes, LoopBound
  <2>7. CASE IrqPop
    BY <2>7, FrontRest, FifoAssumption DEF IrqPop, DevTypes, IrqTypes
  <2>8. CASE WriteBufLock
    BY <2>8 DEF WriteBufLock, IdxTypes, IrqTypes
  <2>9. CASE WriteBufStore
    <3>1. MemTypes'
      BY <2>9, StoreType DEF WriteBufStore, MemTypes, IrqTypes
    <3>2. hidx + 1 \in Nat /\ bufSize \in Nat \ {0}
      BY DEF IrqTypes, MemTypes
    <3>3. IdxTypes'
      BY <2>9, <3>2, ModRange DEF WriteBufStore, IdxTypes, IrqTypes
    <3>4. IrqTypes'
      BY <2>9, EmptyFifo DEF WriteBufStore, IrqTypes
    <3> QED
      BY <2>9, <3>1, <3>3, <3>4 DEF WriteBufStore
  <2>10. CASE IrqAbort
    BY <2>10, EmptyFifo, FifoAssumption DEF IrqAbort, DevTypes, IrqTypes
  <2>11. CASE IrqExit
    BY <2>11 DEF IrqExit, Woken, SetBits, EnableMask, Bits, DevTypes, IrqTypes, ReadTypes, LoopBound
  <2>12. ASSUME NEW r \in Readers, ReadCall(r) \/ Reading(r) \/ ReadSignal(r)
         PROVE  IInv'
    <3>1. CASE ReadCall(r)
      BY <3>1 DEF ReadCall, Goto, ReadTypes, LoopBound
    <3>2. CASE ReadTest(r)
      BY <3>2 DEF ReadTest, Goto, ReadTypes, LoopBound
    <3>3. CASE ReadWait(r)
      BY <3>3 DEF ReadWait, Goto, ReadTypes, LoopBound
    <3>4. CASE ReadWoken(r)
      BY <3>4 DEF ReadWoken, Goto, ReadTypes, LoopBound
    <3>5. CASE ReadSignal(r)
      BY <3>5 DEF ReadSignal, Goto, ReadTypes, LoopBound
    <3>6. CASE ReadOcc(r)
      BY <3>6, FifoAssumption DEF ReadOcc, Goto, ReadTypes, LoopBound, IdxTypes
    <3>7. CASE ReadBufLock(r)
      BY <3>7 DEF ReadBufLock, Goto, ReadTypes, LoopBound, IdxTypes
    <3>8. CASE ReadBufTake(r)
      <4>1. ridx[r] + 1 \in Nat /\ bufSize \in Nat \ {0} /\ rcnt[r] \in Nat
        BY DEF ReadTypes, MemTypes
      <4>2. IdxTypes'
        BY <3>8, <4>1, ModRange DEF ReadBufTake, IdxTypes
      <4>3. rem[r] \in Nat /\ rem[r] > 0
        BY <3>8 DEF ReadBufTake, ReadTypes, LoopBound
      <4>4. ReadTypes' /\ LoopBound'
        BY <3>8, <4>3 DEF ReadBufTake, Goto, ReadTypes, LoopBound
      <4> QED
        BY <3>8, <4>2, <4>4 DEF ReadBufTake
    <3>9. CASE ReadReturn(r)
      BY <3>9 DEF ReadReturn, Goto, ReadTypes, LoopBound
    <3> QED
      BY <2>12, <3>1, <3>2, <3>3, <3>4, <3>5, <3>6, <3>7, <3>8, <3>9 DEF Reading
  <2>13. CASE Open
    BY <2>13, FreshType, FifoAssumption DEF Open, FlagTypes, IdxTypes, MemTypes
  <2>14. CASE ReleaseMask
    BY <2>14 DEF ReleaseMask, DevTypes, CtlTypes
  <2>15. CASE ReleaseFree
    BY <2>15, FreshType DEF ReleaseFree, FlagTypes, MemTypes, CtlTypes
  <2>16. CASE Reset
    BY <2>16, EmptyFifo, FifoAssumption DEF Reset, Ioctl, DevTypes, CtlTypes
  <2>17. CASE ResetFlag
    BY <2>17 DEF ResetFlag, FlagTypes, CtlTypes
  <2>18. CASE Clear
    BY <2>18, EmptyFifo, FifoAssumption DEF Clear, Ioctl, DevTypes, CtlTypes
  <2>19. CASE ClearIer
    BY <2>19 DEF ClearIer, SetBits, EnableMask, Bits, DevTypes, CtlTypes
  <2>20. CASE GetSr
    BY <2>20 DEF GetSr, Ioctl, DevTypes, CtlTypes
  <2>21. CASE SetInterrupt
    BY <2>21, FifoAssumption DEF SetInterrupt, Ioctl, FlagTypes, CtlTypes
  <2>22. CASE SetBufSize
    BY <2>22, FreshType, FifoAssumption DEF SetBufSize, Ioctl, MemTypes, CtlTypes
  <2>23. CASE Trigger
    BY <2>23 DEF Trigger, Ioctl, DevTypes, CtlTypes
  <2>24. CASE Arm
    BY <2>24, FifoAssumption DEF Arm, Ioctl, DevTypes, CtlTypes
  <2>25. CASE ArmPop
    BY <2>25, FrontRest, FifoAssumption DEF ArmPop, DevTypes, CtlTypes
  <2>26. CASE ArmIndex
    BY <2>26 DEF ArmIndex, IdxTypes, CtlTypes
  <2>27. CASE ArmCount
    BY <2>27 DEF ArmCount, IdxTypes, CtlTypes
  <2>28. CASE ArmCmd
    BY <2>28 DEF ArmCmd, DevTypes, CtlTypes
  <2>29. CASE ArmFlag
    BY <2>29 DEF ArmFlag, FlagTypes, CtlTypes
  <2>30. CASE Stop
    BY <2>30 DEF Stop, Ioctl, DevTypes, IdxTypes, CtlTypes
  <2>31. CASE StopWake
    BY <2>31 DEF StopWake, Woken, ReadTypes, LoopBound, CtlTypes
  <2>32. CASE StopFlag
    BY <2>32 DEF StopFlag, FlagTypes, CtlTypes
  <2>33. CASE UNCHANGED vars
    BY <2>33 DEF vars
  <2> QED
    BY <2>1, <2>2, <2>3, <2>4, <2>5, <2>6, <2>7, <2>8, <2>9, <2>10, <2>11, <2>12,
       <2>13, <2>14, <2>15, <2>16, <2>17, <2>18, <2>19, <2>20, <2>21, <2>22, <2>23,
       <2>24, <2>25, <2>26, <2>27, <2>28, <2>29, <2>30, <2>31, <2>32, <2>33
       DEF Next, Irq, Calling
<1>3. IInv => TypeOK
  BY DEF IInv
<1>4. QED
  BY <1>1, <1>2, <1>3, PTL DEF Spec

-----------------------------------------------------------------------------
(* What an interrupt or a call does to the status bits leaves no enabled   *)
(* bit set without its edge latched: whatever its length, whatever its     *)
(* mode, a FIFO with an enabled status bit gets its handler.               *)
THEOREM InterruptLatched == Spec => []EdgeLatched
<1>1. Init => EdgeLatched
  BY DEF Init, EdgeLatched, Line
<1>2. EdgeLatched /\ [Next]_vars => EdgeLatched'
  <2> SUFFICES ASSUME EdgeLatched, [Next]_vars PROVE EdgeLatched'
    OBVIOUS
  <2>1. ASSUME NEW s, NEW e, SetBits(s, e)
        PROVE  EdgeLatched'
    BY <2>1 DEF SetBits, EdgeLatched, Line
  <2>2. ASSUME UNCHANGED <<isr, ier, pend>>
        PROVE  EdgeLatched'
    BY <2>2 DEF EdgeLatched, Line
  <2>3. ASSUME isr' = {} \/ ier' = {}
        PROVE  EdgeLatched'
    BY <2>3 DEF EdgeLatched, Line
  <2>4. CASE Emit \/ IrqExit \/ ClearIer
    BY <2>1, <2>4 DEF Emit, IrqExit, ClearIer
  <2>5. CASE IrqEnter \/ IrqMask \/ IrqAbort \/ ReleaseMask \/ Reset \/ GetSr
    BY <2>3, <2>5 DEF IrqEnter, IrqMask, IrqAbort, ReleaseMask, Reset, GetSr
  <2>6. CASE EmitLost \/ TriggerIn
    BY <2>2, <2>6 DEF EmitLost, TriggerIn
  <2>7. CASE IrqCheck \/ IrqPop \/ WriteBufLock \/ WriteBufStore
    BY <2>2, <2>7 DEF IrqCheck, IrqPop, WriteBufLock, WriteBufStore, devVars
  <2>8. ASSUME NEW r \in Readers, ReadCall(r) \/ Reading(r) \/ ReadSignal(r)
        PROVE  EdgeLatched'
    BY <2>2, <2>8 DEF Reading, ReadCall, ReadTest, ReadWait, ReadWoken, ReadSignal,
       ReadOcc, ReadBufLock, ReadBufTake, ReadReturn, devVars
  <2>9. CASE Open \/ ReleaseFree \/ SetInterrupt \/ SetBufSize
    BY <2>2, <2>9 DEF Open, ReleaseFree, SetInterrupt, SetBufSize, devVars
  <2>10. CASE Clear \/ Trigger \/ Stop \/ ArmPop \/ ArmCmd
    BY <2>2, <2>10 DEF Clear, Trigger, Stop, ArmPop, ArmCmd
  <2>11. CASE ResetFlag \/ Arm \/ ArmIndex \/ ArmCount \/ ArmFlag
    BY <2>2, <2>11 DEF ResetFlag, Arm, ArmIndex, ArmCount, ArmFlag, devVars
  <2>12. CASE StopWake \/ StopFlag \/ UNCHANGED vars
    BY <2>2, <2>12 DEF StopWake, StopFlag, vars, devVars
  <2> QED
    BY <2>4, <2>5, <2>6, <2>7, <2>8, <2>9, <2>10, <2>11, <2>12 DEF Next, Irq, Calling
<1>3. QED
  BY <1>1, <1>2, PTL DEF Spec

-----------------------------------------------------------------------------
(* RingBounds, in the form its proof needs: the ring has the size open     *)
(* gave it, and what each locked section has loaded is in bounds too.      *)
Bounded ==
  /\ bufSize = BufSize
  /\ wIdx < bufSize /\ rIdx < bufSize /\ bufCount <= bufSize
  /\ hpc = "store" => hidx < bufSize /\ hcnt < bufSize
  /\ \A r \in Readers : rpc[r] = "take" => ridx[r] < bufSize /\ rcnt[r] <= bufSize

(* ARM and STOP overwrite the counters of the ring without its lock; for   *)
(* any number of readers, whatever the race leaves is within the ring,     *)
(* provided that no program resizes it.                                    *)
THEOREM RingBounded == Spec => []RingBounds
<1>1. CASE BufSizes \subseteq {BufSize}
  <2>1. Init => Bounded
    BY FifoAssumption DEF Init, Bounded
  <2>2. TypeOK /\ Bounded /\ [Next]_vars => Bounded'
    <3> SUFFICES ASSUME TypeOK, Bounded, [Next]_vars PROVE Bounded'
      OBVIOUS
    <3>0. /\ bufSize \in Nat \ {0} /\ wIdx \in Nat /\ rIdx \in Nat /\ bufCount \in Nat
          /\ hidx \in Nat /\ hcnt \in Nat
          /\ rpc \in [Readers -> {"user", "test", "wait", "sleep", "woken", "occ", "loop", "take"}]
          /\ rcnt \in [Readers -> Nat] /\ ridx \in [Readers -> Nat]
      BY DEF TypeOK, IdxTypes, MemTypes, IrqTypes, ReadTypes
    <3>1. ASSUME UNCHANGED <<idxVars, bufSize, hcnt, hidx, readVars>>, hpc' = "store" => hpc = "store"
          PROVE  Bounded'
      BY <3>1 DEF Bounded, idxVars, readVars
    <3>2. CASE Emit \/ EmitLost \/ TriggerIn
      BY <3>1, <3>2 DEF Emit, EmitLost, TriggerIn, memVars, irqVars
    <3>3. CASE IrqEnter \/ IrqMask \/ IrqPop \/ IrqAbort
      BY <3>1, <3>3 DEF IrqEnter, IrqMask, IrqPop, IrqAbort, memVars
    <3>4. CASE IrqCheck \/ IrqExit \/ StopWake
      BY <3>0, <3>4 DEF IrqCheck, IrqExit, StopWake, Woken, Bounded, idxVars, memVars, irqVars
    <3>5. CASE WriteBufLock
      BY <3>5 DEF WriteBufLock, Bounded, idxVars, memVars, readVars
    <3>6. CASE WriteBufStore
      <4>1. wIdx' < bufSize
        BY <3>0, <3>6, ModRange DEF WriteBufStore
      <4>2. hpc = "store" /\ bufCount' = hcnt + 1 /\ hpc' = "loop"
        BY <3>6 DEF WriteBufStore
      <4>3. UNCHANGED <<rIdx, bufSize, readVars>>
        BY <3>6 DEF WriteBufStore
      <4> QED
        BY <3>0, <4>1, <4>2, <4>3 DEF Bounded, readVars
    <3>7. ASSUME NEW r \in Readers, ReadCall(r) \/ Reading(r) \/ ReadSignal(r)
          PROVE  Bounded'
      <4>1. ASSUME NEW l \in {"user", "test", "wait", "sleep", "woken", "occ", "loop"}, Goto(r, l),
                   UNCHANGED <<idxVars, bufSize, irqVars, rcnt, ridx>>
            PROVE  Bounded'
        BY <3>0, <4>1 DEF Goto, Bounded, idxVars, irqVars
      <4>2. CASE \/ ReadCall(r) \/ ReadTest(r) \/ ReadWait(r) \/ ReadWoken(r)
                 \/ ReadSignal(r) \/ ReadOcc(r) \/ ReadReturn(r)
        BY <4>1, <4>2 DEF ReadCall, ReadTest, ReadWait, ReadWoken, ReadSignal, ReadOcc,
           ReadReturn, memVars
      <4>3. CASE ReadBufLock(r)
        BY <3>0, <4>3 DEF ReadBufLock, Goto, Bounded, idxVars, memVars, irqVars
      <4>4. CASE ReadBufTake(r)
        <5>1. (ridx[r] + 1) % bufSize < bufSize
          BY <3>0, ModRange
        <5>2. rIdx' < bufSize /\ bufCount' <= bufSize
          BY <3>0, <4>4, <5>1 DEF ReadBufTake, Bounded
        <5>3. \A t \in Readers : rpc'[t] = "take" =>
                rpc[t] = "take" /\ rcnt'[t] = rcnt[t] /\ ridx'[t] = ridx[t]
          BY <3>0, <4>4 DEF ReadBufTake, Goto
        <5>4. UNCHANGED <<wIdx, bufSize, irqVars>>
          BY <4>4 DEF ReadBufTake, memVars
        <5> QED
          BY <5>2, <5>3, <5>4 DEF Bounded, irqVars
      <4> QED
        BY <3>7, <4>2, <4>3, <4>4 DEF Reading
    <3>8. CASE Open \/ ArmIndex
      BY <3>8, FifoAssumption DEF Open, ArmIndex, Bounded, memVars, irqVars, readVars
    <3>9. CASE ReleaseMask \/ ReleaseFree \/ Reset \/ ResetFlag \/ Clear \/ ClearIer
      BY <3>1, <3>9 DEF ReleaseMask, ReleaseFree, Reset, ResetFlag, Clear, ClearIer, memVars, irqVars
    <3>10. CASE GetSr \/ SetInterrupt \/ Trigger \/ Arm \/ ArmPop \/ ArmCmd \/ ArmFlag \/ StopFlag
      BY <3>1, <3>10 DEF GetSr, SetInterrupt, Trigger, Arm, ArmPop, ArmCmd, ArmFlag, StopFlag,
         memVars, irqVars
    <3>11. CASE SetBufSize
      BY <1>1, <3>11 DEF SetBufSize, Bounded, idxVars, irqVars, readVars
    <3>12. CASE ArmCount \/ Stop
      BY <3>0, <3>12 DEF ArmCount, Stop, Bounded, memVars, irqVars, readVars
    <3>13. CASE UNCHANGED vars
      BY <3>1, <3>13 DEF vars, memVars, irqVars
    <3> QED
      BY <3>2, <3>3, <3>4, <3>5, <3>6, <3>7, <3>8, <3>9, <3>10, <3>11, <3>12, <3>13
         DEF Next, Irq, Calling
  <2>3. Bounded => RingBounds
    BY DEF Bounded, RingBounds
  <2> QED
    BY <2>1, <2>2, <2>3, TypeCorrect, PTL DEF Spec
<1>2. CASE ~(BufSizes \subseteq {BufSize})
  <2>1. RingBounds
    BY <1>2 DEF RingBounds
  <2> QED
    BY <2>1, PTL
<1> QED
  BY <1>1, <1>2

-----------------------------------------------------------------------------
(* The program                                                             *)

(* A session's step as a step of the driver, with what the program's order  *)
(* of calls adds to its guards.                                             *)
Resting == \/ Emit \/ EmitLost \/ TriggerIn \/ Trigger
           \/ ~armed /\ Configure
           \/ ResetFlag \/ ClearIer \/ StopFlag \/ ReleaseFree
           \/ Quiet /\ Arm
           \/ ArmPop \/ ArmIndex \/ ArmCmd \/ ArmFlag
Idling == Resting \/ ReleaseMask
Driven == \/ Idling \/ Irq \/ Open \/ ArmCount \/ Stop \/ StopWake
          \/ \E r \in Readers : Reading(r) \/ ReadSignal(r) \/ (armed /\ ReadCall(r))

LEMMA StepDriven == [SessionNext]_sessionVars => Driven \/ UNCHANGED vars
<1> SUFFICES ASSUME [SessionNext]_sessionVars PROVE Driven \/ UNCHANGED vars
  OBVIOUS
<1>1. CASE Lose \/ Begin \/ End
  BY <1>1 DEF Lose, Begin, End, Driven, Idling, Resting, Irq
<1>2. CASE Other
  BY <1>2 DEF Other, Hardware, Handler, Finish, Step, Driven, Idling, Resting, Irq, Reading
<1>3. CASE \E r \in Readers : Take(r)
  BY <1>3 DEF Take, Driven, Reading
<1>4. CASE UNCHANGED sessionVars
  BY <1>4 DEF sessionVars
<1>5. QED  BY <1>1, <1>2, <1>3, <1>4 DEF SessionNext

LEMMA DrivenNext == Driven => Next
  BY DEF Driven, Idling, Resting, Configure, Next, Irq, Calling

(* A session is a behaviour of the driver, so that its types hold.         *)
LEMMA SessionTypes == SessionSpec => []TypeOK
<1>1. SessionInit => Init
  BY DEF SessionInit
<1>2. [SessionNext]_sessionVars => [Next]_vars
  BY StepDriven, DrivenNext
<1>3. SessionSpec => Spec
  BY <1>1, <1>2, PTL DEF SessionSpec, Spec
<1>4. QED  BY <1>3, TypeCorrect, PTL

(* The types the proofs use.                                               *)
Places == {"user", "test", "wait", "sleep", "woken", "occ", "loop", "take"}
Counts ==
  /\ bufCount \in Nat /\ hocc \in Nat /\ hocc <= FifoLen /\ hcnt \in Nat
  /\ rpc \in [Readers -> Places] /\ rcnt \in [Readers -> Nat] /\ rem \in [Readers -> Nat]
  /\ Len(fifo) \in Nat /\ Len(fifo) <= FifoLen /\ FifoLen \in Nat \ {0} /\ BufSize \in Nat

LEMMA CountTypes == TypeOK => Counts
  BY FifoAssumption DEF TypeOK, Counts, Places, DevTypes, IdxTypes, IrqTypes, ReadTypes

-----------------------------------------------------------------------------
(* No lost wake-up. The conjuncts of the invariant:                        *)
AtUser == \A r \in Readers : rpc[r] = "user"

(* The spinlock excludes.                                                  *)
Mutex ==
  /\ hpc = "store" => \A r \in Readers : rpc[r] # "take"
  /\ \A r, s \in Readers : rpc[r] = "take" /\ rpc[s] = "take" => r = s

(* Nobody is in a closed device, nor is a thread while release waits.      *)
Closed ==
  /\ busy = 0 => hpc = "idle" /\ cpc = "user"
  /\ busy = 0 \/ cpc = "release" => AtUser

(* ARM finds the driver at rest, and it stays so until the command.        *)
Arming ==
  /\ armed => rec # "IDLE" \/ cpc \in {"stop_wake", "stop_flag"}
  /\ cpc \in {"arm_pop", "arm_count", "arm_cmd"} => Quiet /\ ~armed
  /\ cpc = "arm_flag" => rec # "IDLE"

(* These hold of every session.                                            *)
Order == Mutex /\ Closed /\ Arming

(* The handler pops no more words than the FIFO held.                      *)
Hand == hpc \in {"lock", "store"} => hocc < FifoLen

(* What a core in its locked section has loaded from an empty ring is 0.    *)
Loaded ==
  bufCount = 0 => /\ hpc = "store" => hcnt = 0
                  /\ \A r \in Readers : rpc[r] = "take" => rcnt[r] = 0

(* While a thread sleeps, all that the handler has still to store has room *)
(* in the ring: so it does not leave by the return that wakes nobody.      *)
Roomy ==
  /\ bufCount > 0 => hpc \in {"loop", "lock", "store"}
  /\ hpc = "loop" => hocc + bufCount <= BufSize
  /\ hpc = "lock" => hocc + bufCount < BufSize
  /\ hpc = "store" => hocc + hcnt < BufSize
  /\ \A r \in Readers : rpc[r] = "take" => rcnt[r] <= bufCount
Asleep == cpc # "stop_wake" /\ (\E s \in Readers : rpc[s] = "sleep") => Roomy

(* These, of a session whose ring is as long as the FIFO and keeps its size. *)
RingRoom == Hand /\ Loaded /\ Asleep /\ bufSize = BufSize
SInv == Order /\ RingRoom

(* Steps that touch neither threads, handler nor count.                    *)
LEMMA IdlingFrame ==
  ASSUME Idling
  PROVE  /\ UNCHANGED <<hpc, hocc, hcnt, hidx, cur, bufCount, rpc, rcnt, ridx, rem>>
         /\ bufSize' = bufSize \/ bufSize' \in BufSizes
         /\ (cpc' # "stop_wake" /\ cpc # "stop_wake") \/ cpc' = cpc
<1> USE DEF flagVars, idxVars, memVars, irqVars, readVars, ctlVars
<1>1. CASE Emit \/ EmitLost \/ TriggerIn
  BY <1>1 DEF Emit, EmitLost, TriggerIn
<1>2. CASE Trigger \/ ReleaseMask \/ ReleaseFree \/ StopFlag
  BY <1>2 DEF Trigger, Ioctl, ReleaseMask, ReleaseFree, StopFlag
<1>3. CASE Configure
  BY <1>3 DEF Configure, Ioctl, Reset, Clear, GetSr, SetInterrupt, SetBufSize
<1>4. CASE ResetFlag \/ ClearIer
  BY <1>4 DEF ResetFlag, ClearIer
<1>5. CASE Arm \/ ArmPop \/ ArmIndex \/ ArmCmd \/ ArmFlag
  BY <1>5 DEF Arm, Ioctl, ArmPop, ArmIndex, ArmCmd, ArmFlag
<1>6. QED  BY <1>1, <1>2, <1>3, <1>4, <1>5 DEF Idling, Resting

LEMMA IdlingClosed ==
  ASSUME Closed, Idling, UNCHANGED <<hpc, rpc>>, TypeOK
  PROVE  Closed'
<1> USE DEF Closed, AtUser, flagVars, ctlVars
<1>1. CASE Emit \/ EmitLost \/ TriggerIn
  BY <1>1 DEF Emit, EmitLost, TriggerIn
<1>2. CASE Trigger \/ ReleaseMask \/ StopFlag
  BY <1>2 DEF Trigger, Ioctl, ReleaseMask, StopFlag
<1>3. CASE ReleaseFree
  BY <1>3 DEF ReleaseFree
<1>4. CASE Configure
  BY <1>4 DEF Configure, Ioctl, Reset, Clear, GetSr, SetInterrupt, SetBufSize
<1>5. CASE ResetFlag \/ ClearIer
  BY <1>5 DEF ResetFlag, ClearIer
<1>6. CASE Arm \/ ArmPop \/ ArmIndex \/ ArmCmd \/ ArmFlag
  BY <1>6 DEF Arm, Ioctl, ArmPop, ArmIndex, ArmCmd, ArmFlag
<1>7. QED  BY <1>1, <1>2, <1>3, <1>4, <1>5, <1>6 DEF Idling, Resting

LEMMA IdlingArming ==
  ASSUME Arming, Idling, UNCHANGED <<hpc, rpc>>, TypeOK
  PROVE  Arming'
<1> USE DEF Arming, Quiet, AtUser, devVars, flagVars, ctlVars
<1>1. CASE Emit \/ EmitLost \/ TriggerIn
  BY <1>1 DEF Emit, EmitLost, TriggerIn
<1>2. CASE Trigger \/ ReleaseMask
  BY <1>2 DEF Trigger, Ioctl, ReleaseMask
<1>3. CASE ReleaseFree \/ StopFlag
  BY <1>3 DEF ReleaseFree, StopFlag
<1>4. CASE ~armed /\ Configure
  BY <1>4 DEF Configure, Ioctl, Reset, Clear, GetSr, SetInterrupt, SetBufSize
<1>5. CASE ResetFlag \/ ClearIer
  BY <1>5 DEF ResetFlag, ClearIer
<1>6. CASE Quiet /\ Arm
  BY <1>6 DEF Arm, Ioctl
<1>7. CASE ArmPop \/ ArmIndex \/ ArmCmd
  BY <1>7 DEF ArmPop, ArmIndex, ArmCmd
<1>8. CASE ArmFlag
  BY <1>8 DEF ArmFlag
<1>9. QED  BY <1>1, <1>2, <1>3, <1>4, <1>5, <1>6, <1>7, <1>8 DEF Idling, Resting

LEMMA IdlingKeeps ==
  ASSUME SInv, TypeOK, Idling, BufSizes \subseteq {BufSize}
  PROVE  RingRoom'
<1>1. /\ UNCHANGED <<hpc, hocc, hcnt, bufCount, rpc, rcnt>>
      /\ (cpc' # "stop_wake" /\ cpc # "stop_wake") \/ cpc' = cpc
  BY IdlingFrame
<1>2. bufSize' = BufSize
  BY IdlingFrame DEF SInv, RingRoom
<1>3. Hand' /\ Loaded' /\ Asleep'
  BY <1>1 DEF SInv, RingRoom, Hand, Loaded, Asleep, Roomy
<1>4. QED  BY <1>2, <1>3 DEF RingRoom

(* The handler's steps: only writeBuf takes the lock, wake_up moves only    *)
(* threads that sleep.                                                     *)
LEMMA HandlerFrame ==
  ASSUME Irq
  PROVE  /\ UNCHANGED <<cpc, cocc, rec, armed, busy, bufSize, rem, rcnt, ridx, next, rIdx>>
         /\ hpc = "idle" => pend /\ busy = 1
         /\ hpc' = "store" => hpc = "lock" /\ LockFree
         /\ rpc' = rpc \/ rpc' = Woken
  BY DEF Irq, IrqEnter, IrqMask, IrqCheck, IrqPop, WriteBufLock, WriteBufStore, IrqAbort, IrqExit,
         devVars, flagVars, idxVars, memVars, readVars, ctlVars

LEMMA WokenMoves ==
  ASSUME rpc' = rpc \/ rpc' = Woken
  PROVE  \A r \in Readers : /\ rpc'[r] \in {"take", "occ", "loop"} => rpc'[r] = rpc[r]
                            /\ rpc[r] = "take" => rpc'[r] = "take"
                            /\ rpc[r] = "user" => rpc'[r] = "user"
                            /\ rpc'[r] = "sleep" => rpc[r] = "sleep"
  BY DEF Woken

LEMMA HandlerOrder ==
  ASSUME Order, Irq
  PROVE  Order'
<1>1. /\ UNCHANGED <<cpc, rec, armed, busy>> /\ (hpc = "idle" => pend /\ busy = 1)
      /\ hpc' = "store" => LockFree
  BY HandlerFrame
<1>2. \A r \in Readers : /\ rpc'[r] = "take" => rpc[r] = "take"
                         /\ rpc[r] = "user" => rpc'[r] = "user"
  BY HandlerFrame, WokenMoves
<1>3. cpc \notin {"arm_pop", "arm_count", "arm_cmd"} /\ busy # 0
  BY <1>1 DEF Order, Arming, Quiet, Closed
<1>4. Mutex'
  BY <1>1, <1>2 DEF Order, Mutex, LockFree
<1>5. Closed' /\ Arming'
  BY <1>1, <1>2, <1>3 DEF Order, Closed, Arming, AtUser
<1>6. QED  BY <1>4, <1>5 DEF Order

LEMMA HandlerKeeps ==
  ASSUME SInv, Counts, Irq, FifoLen <= BufSize
  PROVE  RingRoom'
<1> USE DEF SInv, Order, RingRoom, Counts
<1>1. /\ UNCHANGED <<cpc, bufSize, rcnt>>
      /\ \A r \in Readers : /\ rpc'[r] = "take" => rpc[r] = "take"
                            /\ rpc'[r] = "sleep" => rpc[r] = "sleep"
  BY HandlerFrame, WokenMoves
<1>2. CASE IrqEnter \/ IrqMask
  <2>1. /\ UNCHANGED <<hcnt, bufCount>>
        /\ hpc \notin {"lock", "store", "loop"} /\ hpc' \in {"mask", "check"}
    BY <1>2 DEF IrqEnter, IrqMask, idxVars
  <2>2. Hand' /\ Loaded' /\ Asleep'
    BY <1>1, <2>1 DEF Hand, Loaded, Asleep, Roomy
  <2>3. QED  BY <1>1, <2>2
<1>3. CASE IrqCheck
  <2>1. UNCHANGED <<hocc, hcnt, bufCount>> /\ hpc = "check" /\ hpc' = "loop"
    BY <1>3 DEF IrqCheck, idxVars
  <2>2. Hand' /\ Loaded' /\ Asleep'
    BY <1>1, <2>1 DEF Hand, Loaded, Asleep, Roomy
  <2>3. QED  BY <1>1, <2>2
<1>4. CASE IrqPop
  <2>1. /\ UNCHANGED <<hcnt, bufCount>>
        /\ hpc = "loop" /\ hpc' = "lock" /\ hocc > 0 /\ hocc' = hocc - 1
    BY <1>4 DEF IrqPop, idxVars
  <2>2. Hand' /\ Loaded' /\ Asleep'
    BY <1>1, <2>1 DEF Hand, Loaded, Asleep, Roomy
  <2>3. QED  BY <1>1, <2>2
<1>5. CASE WriteBufLock
  <2>1. UNCHANGED <<hocc, bufCount>> /\ hpc = "lock" /\ hpc' = "store" /\ hcnt' = bufCount
    BY <1>5 DEF WriteBufLock, idxVars
  <2>2. Hand' /\ Loaded' /\ Asleep'
    BY <1>1, <2>1 DEF Hand, Loaded, Asleep, Roomy
  <2>3. QED  BY <1>1, <2>2
<1>6. CASE WriteBufStore
  <2>1. hocc' = hocc /\ hpc = "store" /\ hpc' = "loop" /\ bufCount' = hcnt + 1
    BY <1>6 DEF WriteBufStore
  <2>2. \A r \in Readers : rpc'[r] # "take"
    BY <1>1, <2>1 DEF Mutex
  <2>3. Hand' /\ Loaded' /\ Asleep'
    BY <1>1, <2>1, <2>2 DEF Hand, Loaded, Asleep, Roomy
  <2>4. QED  BY <1>1, <2>3
<1>7. CASE IrqAbort
  <2>1. bufCount' = bufCount /\ hpc = "lock" /\ hpc' = "idle" /\ bufCount >= bufSize
    BY <1>7 DEF IrqAbort, idxVars
  <2>2. Hand' /\ Loaded' /\ Asleep'
    BY <1>1, <2>1 DEF Hand, Loaded, Asleep, Roomy
  <2>3. QED  BY <1>1, <2>2
<1>8. CASE IrqExit
  <2>1. bufCount' = bufCount /\ hpc = "loop" /\ hpc' = "idle" /\ \A r \in Readers : rpc'[r] # "sleep"
    BY <1>8 DEF IrqExit, idxVars, Woken
  <2>2. Hand' /\ Loaded' /\ Asleep'
    BY <1>1, <2>1 DEF Hand, Loaded, Asleep
  <2>3. QED  BY <1>1, <2>2
<1>9. QED  BY <1>2, <1>3, <1>4, <1>5, <1>6, <1>7, <1>8 DEF Irq

LEMMA Fits ==
  ASSUME NEW a \in Nat, NEW b \in Nat, NEW c \in Nat, NEW d \in Nat, c <= b
  PROVE  (a + b <= d => a + c <= d) /\ (a + b < d => a + c < d)
  OBVIOUS

(* With fewer words in the ring there is more room.                        *)
LEMMA RoomierLess ==
  ASSUME Roomy, hpc' = hpc, hocc' = hocc, hpc # "store", \A t \in Readers : rpc'[t] # "take",
         bufCount \in Nat, hocc \in Nat, BufSize \in Nat, bufCount' \in Nat, bufCount' <= bufCount
  PROVE  Roomy'
<1>1. bufCount' > 0 => hpc' \in {"loop", "lock", "store"}
  BY DEF Roomy
<1>2. /\ hocc + bufCount <= BufSize => hocc + bufCount' <= BufSize
      /\ hocc + bufCount < BufSize => hocc + bufCount' < BufSize
  BY Fits
<1>3. QED  BY <1>1, <1>2 DEF Roomy

(* A thread in read() moves; only take and the wait matter to the others.   *)
LEMMA ReaderFrame ==
  ASSUME NEW r \in Readers, Reading(r) \/ ReadSignal(r) \/ (armed /\ ReadCall(r))
  PROVE  /\ UNCHANGED <<devVars, flagVars, memVars, irqVars, ctlVars, wIdx>>
         /\ rpc[r] # "user" \/ (armed /\ busy = 1 /\ cpc # "release")
         /\ \E l \in Places : /\ rpc' = [rpc EXCEPT ![r] = l]
                              /\ l = "take" <=> ReadBufLock(r)
  BY DEF Reading, ReadCall, ReadTest, ReadWait, ReadWoken, ReadSignal, ReadOcc, ReadBufLock,
         ReadBufTake, ReadReturn, Goto, Places, idxVars

LEMMA ReaderOrder ==
  ASSUME Order, Counts, NEW r \in Readers, Reading(r) \/ ReadSignal(r) \/ (armed /\ ReadCall(r))
  PROVE  Order'
<1>1. UNCHANGED <<hpc, cpc, rec, armed, busy, pend>>
  BY ReaderFrame DEF devVars, flagVars, irqVars, ctlVars
<1>2. /\ rpc'[r] = "take" => LockFree
      /\ \A t \in Readers : t # r => rpc'[t] = rpc[t]
  BY ReaderFrame DEF Counts, ReadBufLock
<1>3. busy # 0 /\ cpc # "release" /\ cpc \notin {"arm_pop", "arm_count", "arm_cmd"}
  BY ReaderFrame DEF Order, Closed, Arming, Quiet, AtUser
<1>4. Mutex'
  BY <1>1, <1>2 DEF Order, Mutex, LockFree
<1>5. Closed' /\ Arming'
  BY <1>1, <1>3 DEF Order, Closed, Arming
<1>6. QED  BY <1>4, <1>5 DEF Order

LEMMA ReaderKeeps ==
  ASSUME SInv, Counts, FifoLen <= BufSize, NEW r \in Readers,
         Reading(r) \/ ReadSignal(r) \/ (armed /\ ReadCall(r))
  PROVE  RingRoom'
<1> USE DEF SInv, Order, RingRoom, Counts
<1>1. UNCHANGED <<hpc, hocc, hcnt, cpc, bufSize>> /\ Hand'
  BY ReaderFrame DEF memVars, irqVars, ctlVars, Hand
<1>2. \A t \in Readers : t # r => rpc'[t] = rpc[t]
  BY ReaderFrame
<1>3. CASE \/ ReadCall(r) \/ ReadTest(r) \/ ReadWoken(r) \/ ReadSignal(r)
           \/ ReadOcc(r) \/ ReadReturn(r)
  <2>1. rpc'[r] \notin {"take", "sleep"} /\ UNCHANGED <<bufCount, rcnt>>
    BY <1>3 DEF ReadCall, ReadTest, ReadWoken, ReadSignal, ReadOcc, ReadReturn, Goto, idxVars
  <2>2. QED
    BY <1>1, <1>2, <2>1 DEF Loaded, Asleep, Roomy
<1>4. CASE ReadWait(r)
  <2>1. rpc'[r] # "take" /\ UNCHANGED <<bufCount, rcnt>> /\ (rpc'[r] = "sleep" => bufCount = 0)
    BY <1>4 DEF ReadWait, Goto, idxVars
  <2>2. Loaded'
    BY <1>1, <1>2, <2>1 DEF Loaded
  <2>3. CASE bufCount = 0
    BY <1>1, <1>2, <2>1, <2>2, <2>3 DEF Asleep, Roomy, Hand, Loaded
  <2>4. CASE bufCount # 0
    BY <1>1, <1>2, <2>1, <2>2, <2>4 DEF Asleep, Roomy
  <2>5. QED  BY <2>3, <2>4
<1>5. CASE ReadBufLock(r)
  <2>1. /\ rpc'[r] = "take" /\ bufCount' = bufCount
        /\ rcnt'[r] = bufCount /\ \A t \in Readers : t # r => rcnt'[t] = rcnt[t]
    BY <1>5 DEF ReadBufLock, Goto, idxVars
  <2>2. Loaded'
    BY <1>1, <1>2, <2>1 DEF Loaded
  <2>3. \A t \in Readers : rcnt'[t] <= bufCount' \/ (rcnt'[t] = rcnt[t] /\ rpc'[t] = rpc[t])
    BY <1>2, <2>1
  <2>4. Asleep'
    BY <1>1, <1>2, <2>1, <2>3 DEF Asleep, Roomy
  <2>5. QED  BY <1>1, <2>2, <2>4
<1>6. CASE ReadBufTake(r)
  <2>1. /\ rpc[r] = "take" /\ rpc'[r] = "loop"
        /\ bufCount' = IF rcnt[r] > 0 THEN rcnt[r] - 1 ELSE bufCount
    BY <1>6 DEF ReadBufTake, Goto
  <2>2. hpc # "store" /\ \A t \in Readers : rpc'[t] # "take"
    BY <1>2, <2>1 DEF Mutex
  <2>3. Loaded'
    BY <1>1, <2>2 DEF Loaded
  <2>4. bufCount' \in Nat
    BY <2>1
  <2>5. ASSUME Roomy PROVE Roomy'
    <3>1. bufCount' <= bufCount
      BY <2>1, <2>5 DEF Roomy
    <3>2. QED  BY <1>1, <2>2, <2>4, <2>5, <3>1, RoomierLess
  <2>6. Asleep'
    BY <1>1, <1>2, <2>1, <2>5 DEF Asleep
  <2>7. QED  BY <1>1, <2>3, <2>6
<1>7. QED  BY <1>3, <1>4, <1>5, <1>6 DEF Reading

(* Open and ARM find nobody in the driver, and STOP wakes whom it finds.   *)
CallStep == Open \/ ArmCount \/ Stop \/ StopWake

LEMMA CallOrder ==
  ASSUME Order, CallStep
  PROVE  Order'
<1> USE DEF Order
<1>1. CASE Open
  <2>1. UNCHANGED <<hpc, rpc, cpc, rec, pend>> /\ busy = 0 /\ busy' = 1 /\ armed' = FALSE
    BY <1>1 DEF Open, devVars, irqVars, readVars, ctlVars
  <2>2. QED
    BY <2>1 DEF AtUser, Mutex, Closed, Arming
<1>2. CASE ArmCount
  <2>1. /\ UNCHANGED <<hpc, rpc, rec, pend, busy, armed>>
        /\ cpc = "arm_count" /\ cpc' = "arm_cmd"
    BY <1>2 DEF ArmCount, devVars, flagVars, irqVars, readVars
  <2>2. QED
    BY <2>1 DEF Quiet, AtUser, Mutex, Closed, Arming
<1>3. CASE Stop
  <2>1. UNCHANGED <<hpc, rpc, pend, busy, armed>> /\ cpc' = "stop_wake" /\ busy = 1
    BY <1>3 DEF Stop, Ioctl, flagVars, irqVars, readVars
  <2>2. QED
    BY <2>1 DEF Mutex, Closed, Arming
<1>4. CASE StopWake
  <2>1. /\ UNCHANGED <<hpc, rec, pend, busy, armed>>
        /\ cpc = "stop_wake" /\ cpc' = "stop_flag" /\ rpc' = Woken
    BY <1>4 DEF StopWake, devVars, flagVars, irqVars
  <2>2. \A r \in Readers : /\ rpc'[r] = "take" => rpc[r] = "take"
                           /\ rpc[r] = "user" => rpc'[r] = "user"
    BY <2>1, WokenMoves
  <2>3. QED
    BY <2>1, <2>2 DEF Mutex, Closed, Arming, AtUser
<1>5. QED  BY <1>1, <1>2, <1>3, <1>4 DEF CallStep

LEMMA CallKeeps ==
  ASSUME SInv, Counts, CallStep
  PROVE  RingRoom'
<1> USE DEF SInv, Order, RingRoom, Counts
<1>1. CASE Open
  <2>1. UNCHANGED <<hpc, rpc>> /\ busy = 0 /\ bufSize' = BufSize
    BY <1>1 DEF Open, irqVars, readVars
  <2>2. hpc = "idle" /\ AtUser
    BY <2>1 DEF Closed
  <2>3. QED
    BY <2>1, <2>2 DEF AtUser, Hand, Loaded, Asleep
<1>2. CASE ArmCount
  <2>1. UNCHANGED <<hpc, rpc, bufSize>> /\ cpc = "arm_count"
    BY <1>2 DEF ArmCount, memVars, irqVars, readVars
  <2>2. hpc = "idle" /\ AtUser
    BY <2>1 DEF Arming, Quiet, AtUser
  <2>3. QED
    BY <2>1, <2>2 DEF AtUser, Hand, Loaded, Asleep
<1>3. CASE Stop
  <2>1. /\ UNCHANGED <<hpc, hocc, bufSize>>
        /\ cpc' = "stop_wake" /\ bufCount' = 1
    BY <1>3 DEF Stop, Ioctl, memVars, irqVars
  <2>2. QED
    BY <2>1 DEF Hand, Loaded, Asleep
<1>4. CASE StopWake
  <2>1. UNCHANGED <<hpc, hocc, hcnt, rcnt, bufSize, bufCount>> /\ rpc' = Woken
    BY <1>4 DEF StopWake, idxVars, memVars, irqVars
  <2>2. \A r \in Readers : /\ rpc'[r] = "take" => rpc[r] = "take"
                           /\ rpc'[r] # "sleep"
    BY <2>1 DEF Woken
  <2>3. QED
    BY <2>1, <2>2 DEF Hand, Loaded, Asleep
<1>5. QED  BY <1>1, <1>2, <1>3, <1>4 DEF CallStep

(* The order holds of every session.                                       *)
LEMMA OrderStep ==
  ASSUME Order, TypeOK, [SessionNext]_sessionVars
  PROVE  Order'
<1>1. Counts
  BY CountTypes
<1>2. CASE UNCHANGED vars
  BY <1>2 DEF vars, devVars, flagVars, irqVars, readVars, ctlVars,
     Order, Mutex, Closed, AtUser, Arming, Quiet
<1>3. CASE Idling
  <2>1. UNCHANGED <<hpc, rpc>>
    BY <1>3, IdlingFrame
  <2>2. Closed' /\ Arming'
    BY <1>3, <2>1, IdlingClosed, IdlingArming DEF Order
  <2>3. QED  BY <2>1, <2>2 DEF Order, Mutex
<1>4. CASE CallStep \/ Irq
  BY <1>4, CallOrder, HandlerOrder
<1>5. CASE \E r \in Readers : Reading(r) \/ ReadSignal(r) \/ (armed /\ ReadCall(r))
  BY <1>1, <1>5, ReaderOrder
<1>6. QED  BY <1>2, <1>3, <1>4, <1>5, StepDriven DEF Driven, CallStep

LEMMA OrderInvariant == SessionSpec => []Order
<1>1. SessionInit => Order
  BY DEF SessionInit, Init, Order, Mutex, Closed, AtUser, Arming, Quiet
<1>2. Order /\ TypeOK /\ [SessionNext]_sessionVars => Order'
  BY OrderStep
<1>3. QED  BY <1>1, <1>2, SessionTypes, PTL DEF SessionSpec

(* The whole invariant, of every session whose ring is as long as the FIFO *)
(* and keeps its size.                                                     *)
LEMMA SessionInvariant ==
  ASSUME FifoLen <= BufSize, BufSizes \subseteq {BufSize}
  PROVE  SessionSpec => []SInv
<1>1. SessionInit => SInv
  BY DEF SessionInit, Init, SInv, Order, RingRoom, Mutex, Closed, AtUser, Arming, Quiet, Hand, Loaded,
         Asleep
<1>2. SInv /\ TypeOK /\ [SessionNext]_sessionVars => SInv'
  <2> SUFFICES ASSUME SInv, TypeOK, [SessionNext]_sessionVars PROVE SInv'
    OBVIOUS
  <2>1. Counts
    BY CountTypes
  <2>2. Order'
    BY OrderStep DEF SInv
  <2>3. CASE UNCHANGED vars
    BY <2>2, <2>3 DEF vars, idxVars, memVars, irqVars, readVars, ctlVars,
       SInv, RingRoom, Hand, Loaded, Asleep, Roomy
  <2>4. CASE Driven
    BY <2>1, <2>2, <2>4, IdlingKeeps, HandlerKeeps, ReaderKeeps, CallKeeps DEF Driven, CallStep, SInv
  <2>5. QED  BY <2>3, <2>4, StepDriven
<1>3. QED  BY <1>1, <1>2, SessionTypes, PTL DEF SessionSpec

(* In every state of a session whose ring is at least as long as the FIFO:  *)
(* if words are there and a thread sleeps on readq, the handler is about to *)
(* wake it, with room for all it has still to store, or STOP is.            *)
THEOREM WakeupKept ==
  ASSUME FifoLen <= BufSize, BufSizes \subseteq {BufSize}
  PROVE  SessionSpec => []NoLostWakeup
<1>1. SInv /\ TypeOK => NoLostWakeup
  <2> SUFFICES ASSUME SInv, TypeOK, NEW s \in Readers, rpc[s] = "sleep", bufCount > 0
               PROVE  WakeDue
    BY DEF NoLostWakeup
  <2>1. Counts
    BY CountTypes
  <2>2. CASE cpc = "stop_wake"
    BY <2>2 DEF WakeDue
  <2>3. CASE cpc # "stop_wake"
    <3>1. Roomy /\ bufSize = BufSize
      BY <2>3 DEF SInv, RingRoom, Asleep
    <3>2. QED  BY <2>1, <3>1 DEF Roomy, WakeDue, Counts
  <2>4. QED  BY <2>2, <2>3
<1>2. QED  BY <1>1, SessionInvariant, SessionTypes, PTL

-----------------------------------------------------------------------------
(* No underflow. While the recorder runs for the program, no call that      *)
(* stores the count is under way, and what a locked section has loaded is   *)
(* the count. So a single reader's loop has no more iterations left than   *)
(* there are words: the handler can only add to them.                      *)
Underway == rec # "IDLE" /\ busy = 1 /\ cpc \in {"user", "arm_flag"} /\ (cpc = "user" => armed)
Running  == Underway /\ (hpc = "store" => hcnt = bufCount)
Counted(r) ==
  /\ rpc[r] = "occ" => bufCount > 0
  /\ rpc[r] = "loop" => rem[r] <= bufCount
  /\ rpc[r] = "take" => rcnt[r] = bufCount /\ 0 < rem[r] /\ rem[r] <= bufCount
Busy == Running /\ \A r \in Readers : Counted(r)
UInv == acquiring => Busy

LEMMA RestingFrame ==
  ASSUME Underway, Resting
  PROVE  /\ Underway' /\ UNCHANGED <<idxVars, memVars, irqVars, readVars>>
         /\ Emit \/ EmitLost \/ UNCHANGED <<fifo, next>>
<1> USE DEF Underway
<1>1. CASE Emit \/ EmitLost \/ TriggerIn
  BY <1>1 DEF Emit, EmitLost, TriggerIn, flagVars, ctlVars
<1>2. CASE Trigger
  BY <1>2 DEF Trigger, Ioctl, flagVars
<1>3. CASE ArmFlag
  BY <1>3 DEF ArmFlag, devVars
<1>4. ~(Configure /\ ~armed)
  BY DEF Configure, Ioctl, Reset, Clear, GetSr, SetInterrupt, SetBufSize
<1>5. ~(\/ ResetFlag \/ ClearIer \/ StopFlag \/ ReleaseFree \/ (Quiet /\ Arm)
        \/ ArmPop \/ ArmIndex \/ ArmCmd)
  BY DEF ResetFlag, ClearIer, StopFlag, ReleaseFree, Quiet, ArmPop, ArmIndex, ArmCmd
<1>6. QED  BY <1>1, <1>2, <1>3, <1>4, <1>5 DEF Resting

LEMMA BusyIdling ==
  ASSUME Busy, Resting
  PROVE  Busy'
  BY RestingFrame DEF Busy, Running, Counted, idxVars, irqVars, readVars

LEMMA BusyIrq ==
  ASSUME SInv, Counts, Busy, Irq
  PROVE  Busy'
<1>1. UNCHANGED <<rec, busy, cpc, armed, rcnt, rem>>
  BY DEF Irq, IrqEnter, IrqMask, IrqCheck, IrqPop, WriteBufLock, WriteBufStore, IrqAbort, IrqExit,
         devVars, flagVars, readVars, ctlVars
<1>2. \A r \in Readers : \A l \in {"occ", "loop", "take"} : rpc'[r] = l => rpc[r] = l
  <2>1. rpc' = rpc \/ rpc' = Woken
    BY DEF Irq, IrqEnter, IrqMask, IrqCheck, IrqPop, WriteBufLock, WriteBufStore, IrqAbort, IrqExit,
           readVars
  <2>2. QED  BY <2>1 DEF Woken
<1>3. CASE WriteBufStore
  <2>1. hpc = "store" /\ hpc' = "loop" /\ bufCount' = hcnt + 1
    BY <1>3 DEF WriteBufStore
  <2>2. bufCount' = bufCount + 1 /\ \A r \in Readers : rpc[r] # "take"
    BY <2>1 DEF Busy, Running, Underway, SInv, Order, Mutex
  <2>3. ASSUME NEW r \in Readers PROVE Counted(r)'
    <3>1. rem[r] \in Nat /\ bufCount \in Nat /\ Counted(r)
      BY DEF Counts, Busy
    <3>2. QED  BY <1>1, <1>2, <2>2, <3>1 DEF Counted
  <2>4. QED  BY <1>1, <2>1, <2>3 DEF Busy, Running, Underway
<1>4. CASE ~WriteBufStore
  <2>1. /\ bufCount' = bufCount
        /\ hpc' = "store" => hcnt' = bufCount
    BY <1>4 DEF Irq, IrqEnter, IrqMask, IrqCheck, IrqPop, WriteBufLock, IrqAbort, IrqExit, idxVars
  <2>2. ASSUME NEW r \in Readers PROVE Counted(r)'
    BY <1>1, <1>2, <2>1 DEF Counted, Busy
  <2>3. QED  BY <1>1, <2>1, <2>2 DEF Busy, Running, Underway
<1>5. QED  BY <1>3, <1>4

LEMMA BusyReader ==
  ASSUME SInv, Counts, Busy, NEW r \in Readers, \A s \in Readers : s = r,
         Reading(r) \/ ReadSignal(r) \/ (armed /\ ReadCall(r))
  PROVE  Busy'
<1> USE DEF Counts
<1>1. /\ UNCHANGED <<hpc, hcnt, cpc, rec, armed, busy>>
      /\ bufCount \in Nat /\ rem[r] \in Nat /\ Counted(r)
  BY DEF Busy, Reading, ReadCall, ReadTest, ReadWait, ReadWoken, ReadSignal, ReadOcc, ReadBufLock,
         ReadBufTake, ReadReturn, devVars, flagVars, irqVars, ctlVars
<1>2. CASE \/ ReadCall(r) \/ ReadTest(r) \/ ReadWait(r) \/ ReadWoken(r) \/ ReadSignal(r)
           \/ ReadReturn(r)
  <2>1. /\ UNCHANGED <<bufCount, rem, rcnt>> /\ rpc'[r] \notin {"loop", "take"}
        /\ rpc'[r] = "occ" => bufCount > 0
    BY <1>2 DEF ReadCall, ReadTest, ReadWait, ReadWoken, ReadSignal, ReadReturn, Goto, idxVars
  <2>2. Counted(r)' /\ Running'
    BY <1>1, <2>1 DEF Counted, Busy, Running, Underway
  <2>3. QED  BY <2>2 DEF Busy
<1>3. CASE ReadOcc(r)
  <2>1. PICK n \in ReadLens : rem' = [rem EXCEPT ![r] = IF n < bufCount THEN n ELSE bufCount]
    BY <1>3 DEF ReadOcc
  <2>2. n \in Nat
    BY <2>1, FifoAssumption
  <2>3. bufCount' = bufCount /\ rpc'[r] = "loop" /\ rem'[r] <= bufCount
    BY <1>1, <1>3, <2>1, <2>2 DEF ReadOcc, Goto, idxVars
  <2>4. Counted(r)' /\ Running'
    BY <1>1, <2>3 DEF Counted, Busy, Running, Underway
  <2>5. QED  BY <2>4 DEF Busy
<1>4. CASE ReadBufLock(r)
  <2>1. /\ bufCount' = bufCount /\ rpc[r] = "loop" /\ rpc'[r] = "take" /\ rem' = rem /\ rem[r] > 0
        /\ rcnt'[r] = bufCount
    BY <1>4 DEF ReadBufLock, Goto, idxVars
  <2>2. Counted(r)' /\ Running'
    BY <1>1, <2>1 DEF Counted, Busy, Running, Underway
  <2>3. QED  BY <2>2 DEF Busy
<1>5. CASE ReadBufTake(r)
  <2>1. /\ rpc[r] = "take" /\ rpc'[r] = "loop" /\ rem'[r] = rem[r] - 1
        /\ bufCount' = IF rcnt[r] > 0 THEN rcnt[r] - 1 ELSE bufCount
    BY <1>5 DEF ReadBufTake, Goto
  <2>2. hpc # "store"
    BY <2>1 DEF SInv, Order, Mutex
  <2>3. bufCount' = bufCount - 1 /\ rem[r] <= bufCount
    BY <1>1, <2>1 DEF Counted
  <2>4. Counted(r)'
    BY <1>1, <2>1, <2>3 DEF Counted
  <2>5. Running'
    BY <1>1, <2>2 DEF Busy, Running, Underway
  <2>6. QED  BY <2>4, <2>5 DEF Busy
<1>6. QED  BY <1>2, <1>3, <1>4, <1>5 DEF Reading

(* The command finds nobody in the driver.                                 *)
LEMMA BusyBegin ==
  ASSUME SInv, TypeOK, ArmCmd
  PROVE  Busy'
<1>1. cpc = "arm_cmd" /\ Quiet /\ busy # 0
  BY DEF ArmCmd, SInv, Order, Arming, Closed
<1>2. /\ UNCHANGED <<hpc, rpc, busy>> /\ cpc' = "arm_flag" /\ rec' = "ARMED"
  BY <1>1 DEF ArmCmd, Quiet, flagVars, irqVars, readVars
<1>3. busy = 1
  BY <1>1 DEF TypeOK, FlagTypes
<1>4. QED
  BY <1>1, <1>2, <1>3 DEF Quiet, Busy, Running, Underway, Counted

(* In every state of a session with a single reading thread whose ring is   *)
(* as long as the FIFO: readBuf finds a word while the acquisition runs.   *)
THEOREM NeverEmpty ==
  ASSUME FifoLen <= BufSize, BufSizes \subseteq {BufSize}, \A r, s \in Readers : r = s
  PROVE  SessionSpec => []NoUnderflow
<1>1. SessionInit => UInv
  BY DEF SessionInit, UInv
<1>2. UInv /\ SInv /\ TypeOK /\ [SessionNext]_sessionVars => UInv'
  <2> SUFFICES ASSUME UInv, SInv, TypeOK, [SessionNext]_sessionVars, acquiring' PROVE Busy'
    BY DEF UInv
  <2>1. Counts
    BY CountTypes
  <2>2. CASE Begin
    BY <2>2, BusyBegin DEF Begin
  <2>3. CASE UNCHANGED sessionVars
    BY <2>3 DEF UInv, Busy, Running, Underway, Counted, sessionVars, history, vars, devVars, flagVars,
       idxVars, irqVars, readVars, ctlVars
  <2>4. CASE Lose \/ Other \/ \E r \in Readers : Take(r)
    <3>1. Busy
      BY <2>4 DEF Lose, Other, Take, history, UInv
    <3>2. CASE Resting
      BY <3>1, <3>2, BusyIdling
    <3>3. CASE Irq
      BY <2>1, <3>1, <3>3, BusyIrq
    <3>4. ASSUME NEW r \in Readers, Reading(r) \/ ReadSignal(r) \/ (armed /\ ReadCall(r))
          PROVE  Busy'
      <4>1. \A s \in Readers : s = r
        OBVIOUS
      <4>2. QED  BY <2>1, <3>1, <3>4, <4>1, BusyReader
    <3>5. ~(Open \/ StopWake \/ ArmCount)
      BY <3>1 DEF Busy, Running, Underway, Open, StopWake, ArmCount
    <3>6. CASE Lose
      BY <3>2, <3>3, <3>6 DEF Lose, Resting, Irq
    <3>7. CASE Other
      <4>1. \/ Resting \/ Irq \/ Open \/ StopWake \/ ArmCount
            \/ \E r \in Readers : Reading(r) \/ ReadSignal(r) \/ (armed /\ ReadCall(r))
        BY <3>7 DEF Other, Hardware, Handler, Finish, Step, Resting, Irq, Reading
      <4>2. QED  BY <3>2, <3>3, <3>4, <3>5, <4>1
    <3>8. CASE \E r \in Readers : Take(r)
      BY <3>4, <3>8 DEF Take, Reading
    <3>9. QED  BY <2>4, <3>6, <3>7, <3>8
  <2>5. ~End
    BY DEF End
  <2>6. QED  BY <2>2, <2>3, <2>4, <2>5 DEF SessionNext
<1>3. UInv /\ TypeOK => NoUnderflow
  BY CountTypes DEF UInv, NoUnderflow, Busy, Counted, Counts
<1>4. QED  BY <1>1, <1>2, <1>3, SessionInvariant, SessionTypes, PTL DEF SessionSpec

-----------------------------------------------------------------------------
(***************************************************************************)
(* The samples of an acquisition reach the program in order and none       *)
(* twice, for any number of threads and samples and a ring that may be     *)
(* resized between acquisitions: the driver implements SampleStream, and   *)
(* what has not been lost for want of room is conserved.                   *)
(*                                                                         *)
(* First the algebra: sequences, and a ring as a sequence. Then the        *)
(* invariant that makes the ring one while interrupt handler and threads   *)
(* work on it, and what each step does to the words on their way.          *)
(***************************************************************************)

(* Sequences: the last of the second, the first of the second, the first of *)
(* the first, one in the middle.                                            *)
LEMMA AppendConcat ==
  ASSUME NEW S, NEW s \in Seq(S), NEW t \in Seq(S), NEW x \in S
  PROVE  s \o Append(t, x) = Append(s \o t, x)
<1>1. s \o t \in Seq(S) /\ <<x>> \in Seq(S)
  OBVIOUS
<1>2. Append(t, x) = t \o <<x>> /\ Append(s \o t, x) = (s \o t) \o <<x>>
  BY <1>1, AppendIsConcat
<1>3. QED  BY <1>1, <1>2, ConcatAssociative

LEMMA HeadOver ==
  ASSUME NEW S, NEW s \in Seq(S), NEW t \in Seq(S), t # <<>>
  PROVE  Append(s, Head(t)) \o Tail(t) = s \o t
<1>1. Head(t) \in S /\ Tail(t) \in Seq(S) /\ <<Head(t)>> \in Seq(S)
  OBVIOUS
<1>2. t = <<Head(t)>> \o Tail(t)
  BY <1>1
<1>3. Append(s, Head(t)) = s \o <<Head(t)>>
  BY <1>1, AppendIsConcat
<1>4. QED  BY <1>1, <1>2, <1>3, ConcatAssociative

LEMMA TailConcat ==
  ASSUME NEW S, NEW s \in Seq(S), NEW t \in Seq(S), s # <<>>
  PROVE  s \o t # <<>> /\ Head(s \o t) = Head(s) /\ Tail(s \o t) = Tail(s) \o t
<1>1. Head(s) \in S /\ Tail(s) \in Seq(S) /\ <<Head(s)>> \in Seq(S) /\ s = <<Head(s)>> \o Tail(s)
  OBVIOUS
<1>2. s \o t = <<Head(s)>> \o (Tail(s) \o t)
  BY <1>1, ConcatAssociative
<1>3. Tail(s) \o t \in Seq(S)
  BY <1>1
<1>4. QED  BY <1>1, <1>2, <1>3

LEMMA Removed ==
  ASSUME NEW w, NEW i
  PROVE  Stream!RemoveAt(w, i) = SubSeq(w, 1, i - 1) \o SubSeq(w, i + 1, Len(w))
  BY DEF Stream!RemoveAt

Removes(w, i, u) == i \in 1 .. Len(w) /\ u = Stream!RemoveAt(w, i)

LEMMA RemoveMiddle ==
  ASSUME NEW s \in Seq(Word), NEW x \in Word, NEW t \in Seq(Word)
  PROVE  Removes((s \o <<x>>) \o t, Len(s) + 1, s \o t)
<1>1. PICK w : w = (s \o <<x>>) \o t
  OBVIOUS
<1>2. PICK m, n \in Nat : m = Len(s) /\ n = Len(t)
  OBVIOUS
<1>3. /\ w \in Seq(Word) /\ Len(w) = m + 1 + n
      /\ \A i \in 1 .. m : w[i] = s[i]
      /\ \A i \in 1 .. n : w[m + 1 + i] = t[i]
  <2>1. /\ s \o <<x>> \in Seq(Word) /\ Len(s \o <<x>>) = m + 1
        /\ \A i \in 1 .. m : (s \o <<x>>)[i] = s[i]
    BY <1>2
  <2>2. QED  BY <1>1, <1>2, <2>1
<1>4. SubSeq(w, 1, m) = s
  <2>1. SubSeq(w, 1, m) \in Seq(Word) /\ Len(SubSeq(w, 1, m)) = m
    BY <1>2, <1>3
  <2>2. \A i \in 1 .. m : SubSeq(w, 1, m)[i] = s[i]
    BY <1>2, <1>3
  <2>3. QED  BY <1>2, <2>1, <2>2, SeqEqual
<1>5. SubSeq(w, m + 2, m + 1 + n) = t
  <2>1. /\ SubSeq(w, m + 2, m + 1 + n) \in Seq(Word) /\ Len(SubSeq(w, m + 2, m + 1 + n)) = n
        /\ \A i \in 1 .. n : SubSeq(w, m + 2, m + 1 + n)[i] = w[m + 1 + i]
    BY <1>2, <1>3
  <2>2. \A i \in 1 .. n : SubSeq(w, m + 2, m + 1 + n)[i] = t[i]
    BY <1>3, <2>1
  <2>3. QED  BY <1>2, <2>1, <2>2, SeqEqual
<1>6. Stream!RemoveAt(w, m + 1) = SubSeq(w, 1, (m + 1) - 1) \o SubSeq(w, (m + 1) + 1, Len(w))
  BY Removed
<1>7. (m + 1) - 1 = m /\ (m + 1) + 1 = m + 2 /\ m + 1 \in 1 .. Len(w)
  BY <1>2, <1>3
<1>8. QED  BY <1>1, <1>2, <1>3, <1>4, <1>5, <1>6, <1>7 DEF Removes

(* Consecutive numbers from one beyond b on.                               *)
Numbers(b, m) == [k \in 1 .. m |-> b + k]

LEMMA NextNumber ==
  ASSUME NEW b \in Int, NEW m \in Nat
  PROVE  Numbers(b, 0) = <<>> /\ Numbers(b, m + 1) = Append(Numbers(b, m), b + (m + 1))
<1>1. Numbers(b, m) \in Seq(Int) /\ Len(Numbers(b, m)) = m /\ \A k \in 1 .. m : Numbers(b, m)[k] = b + k
  BY DEF Numbers
<1>2. /\ Numbers(b, m + 1) \in Seq(Int) /\ Len(Numbers(b, m + 1)) = m + 1
      /\ \A k \in 1 .. m + 1 : Numbers(b, m + 1)[k] = b + k
  BY DEF Numbers
<1> DEFINE a == Append(Numbers(b, m), b + (m + 1))
<1>3. a \in Seq(Int) /\ Len(a) = m + 1 /\ \A k \in 1 .. m + 1 : a[k] = b + k
  <2>1. /\ a \in Seq(Int) /\ Len(a) = m + 1 /\ a[m + 1] = b + (m + 1)
        /\ \A k \in 1 .. m : a[k] = Numbers(b, m)[k]
    BY <1>1, AppendProperties
  <2>2. ASSUME NEW k \in 1 .. m + 1 PROVE a[k] = b + k
    <3>1. k \in 1 .. m \/ k = m + 1
      OBVIOUS
    <3>2. QED  BY <1>1, <2>1, <3>1
  <2>3. QED  BY <2>1, <2>2
<1> HIDE DEF a
<1>4. Numbers(b, m + 1) = a
  BY <1>2, <1>3, SeqEqual
<1>5. Numbers(b, 0) = <<>>
  BY DEF Numbers
<1>6. QED  BY <1>4, <1>5 DEF a

-----------------------------------------------------------------------------
(* A ring of n words with c of them from index r on, and the sequence of   *)
(* these c words.                                                          *)
Wrapped(x, n) == IF x < n THEN x ELSE x - n
IsRing(b, n, r, c) ==
  /\ n \in Nat \ {0} /\ b \in [0 .. n - 1 -> Word]
  /\ r \in Nat /\ r < n /\ c \in Nat /\ c <= n
Lists(q, b, n, r, c) ==
  /\ q \in Seq(Word) /\ Len(q) = c
  /\ \A k \in 1 .. c : q[k] = b[Wrapped(r + k - 1, n)]

(* The ring's indices are added modulo its size.                           *)
LEMMA Wrap ==
  ASSUME NEW n \in Nat \ {0}, NEW x \in Nat, x < n + n
  PROVE  x % n = Wrapped(x, n)
<1>1. CASE x < n
  BY <1>1 DEF Wrapped
<1>2. CASE x >= n
  BY <1>2 DEF Wrapped
<1>3. QED BY <1>1, <1>2

LEMMA ListsOne ==
  ASSUME NEW b, NEW n, NEW r, NEW c, IsRing(b, n, r, c),
         NEW p, Lists(p, b, n, r, c), NEW q, Lists(q, b, n, r, c)
  PROVE  p = q
<1>1. p \in Seq(Word) /\ q \in Seq(Word) /\ Len(p) = Len(q) /\ \A k \in 1 .. Len(p) : p[k] = q[k]
  BY DEF Lists
<1>2. QED  BY <1>1, SeqEqual

(* writeBuf appends, in the slot after the last.                            *)
LEMMA ListsStore ==
  ASSUME NEW b, NEW n, NEW r, NEW c, IsRing(b, n, r, c), c < n, NEW v \in Word,
         NEW q, Lists(q, b, n, r, c)
  PROVE  /\ IsRing(Store(b, Wrapped(r + c, n), v), n, r, c + 1)
         /\ Lists(Append(q, v), Store(b, Wrapped(r + c, n), v), n, r, c + 1)
         /\ Wrapped(Wrapped(r + c, n) + 1, n) = Wrapped(r + (c + 1), n)
<1> DEFINE w == Wrapped(r + c, n)
           d == Store(b, w, v)
           t == Append(q, v)
<1>1. /\ n \in Nat \ {0} /\ b \in [0 .. n - 1 -> Word]
      /\ r \in Nat /\ r < n /\ c \in Nat
  BY DEF IsRing
<1>2. w \in 0 .. n - 1 /\ \A k \in 1 .. c : Wrapped(r + k - 1, n) \in 0 .. n - 1 \ {w}
  BY <1>1 DEF Wrapped
<1>3. d \in [0 .. n - 1 -> Word] /\ d[w] = v /\ \A i \in 0 .. n - 1 : i # w => d[i] = b[i]
  BY <1>1, <1>2 DEF Store
<1> HIDE DEF d
<1>4. q \in Seq(Word) /\ Len(q) = c /\ \A k \in 1 .. c : q[k] = b[Wrapped(r + k - 1, n)]
  BY DEF Lists
<1>5. /\ t \in Seq(Word) /\ Len(t) = c + 1 /\ t[c + 1] = v
      /\ \A k \in 1 .. c : t[k] = q[k]
  BY <1>1, <1>4, AppendProperties
<1> HIDE DEF t
<1>6. ASSUME NEW k \in 1 .. c + 1 PROVE t[k] = d[Wrapped(r + k - 1, n)]
  <2>1. k \in 1 .. c \/ k = c + 1
    BY <1>1
  <2>2. CASE k \in 1 .. c
    <3>1. Wrapped(r + k - 1, n) \in 0 .. n - 1 /\ Wrapped(r + k - 1, n) # w
      BY <1>2, <2>2
    <3>2. QED  BY <1>3, <1>4, <1>5, <2>2, <3>1
  <2>3. CASE k = c + 1
    <3>1. r + (c + 1) - 1 = r + c
      BY <1>1
    <3>2. QED  BY <1>3, <1>5, <2>3, <3>1
  <2>4. QED  BY <2>1, <2>2, <2>3
<1>7. IsRing(d, n, r, c + 1)
  BY <1>1, <1>3 DEF IsRing
<1>8. Lists(t, d, n, r, c + 1)
  BY <1>5, <1>6 DEF Lists
<1>9. Wrapped(w + 1, n) = Wrapped(r + (c + 1), n)
  BY <1>1 DEF Wrapped
<1>10. QED  BY <1>7, <1>8, <1>9 DEF d, t

(* readBuf takes the first.                                                *)
LEMMA ListsTake ==
  ASSUME NEW b, NEW n, NEW r, NEW c, IsRing(b, n, r, c), c # 0,
         NEW q, Lists(q, b, n, r, c)
  PROVE  /\ q # <<>> /\ Head(q) = b[r]
         /\ IsRing(b, n, Wrapped(r + 1, n), c - 1)
         /\ Lists(Tail(q), b, n, Wrapped(r + 1, n), c - 1)
         /\ Wrapped(Wrapped(r + 1, n) + (c - 1), n) = Wrapped(r + c, n)
<1> DEFINE w == Wrapped(r + 1, n)
<1>1. /\ n \in Nat \ {0} /\ b \in [0 .. n - 1 -> Word]
      /\ r \in Nat /\ r < n /\ c \in Nat \ {0} /\ c <= n
  BY DEF IsRing
<1>2. w \in Nat /\ w < n /\ Wrapped(r + 1 - 1, n) = r
  BY <1>1 DEF Wrapped
<1>3. q \in Seq(Word) /\ Len(q) = c /\ \A k \in 1 .. c : q[k] = b[Wrapped(r + k - 1, n)]
  BY DEF Lists
<1>4. \A k \in 1 .. c - 1 : Wrapped(w + k - 1, n) = Wrapped(r + (k + 1) - 1, n)
  BY <1>1 DEF Wrapped
<1>5. Wrapped(w + (c - 1), n) = Wrapped(r + c, n)
  BY <1>1 DEF Wrapped
<1> HIDE DEF w
<1>6. q # <<>> /\ Head(q) = b[r]
  BY <1>1, <1>2, <1>3
<1>7. Tail(q) \in Seq(Word) /\ Len(Tail(q)) = c - 1 /\ \A k \in 1 .. c - 1 : Tail(q)[k] = q[k + 1]
  BY <1>1, <1>3, <1>6, HeadTailProperties
<1>8. ASSUME NEW k \in 1 .. c - 1 PROVE Tail(q)[k] = b[Wrapped(w + k - 1, n)]
  <2>1. k + 1 \in 1 .. c
    BY <1>1
  <2>2. q[k + 1] = b[Wrapped(r + (k + 1) - 1, n)]
    BY <1>3, <2>1
  <2>3. QED  BY <1>4, <1>7, <2>2
<1>9. IsRing(b, n, w, c - 1)
  BY <1>1, <1>2 DEF IsRing
<1>10. Lists(Tail(q), b, n, w, c - 1)
  BY <1>7, <1>8 DEF Lists
<1>11. QED  BY <1>5, <1>6, <1>9, <1>10 DEF w
-----------------------------------------------------------------------------
(* The invariant. ARM leaves FIFO and ring empty, since it finds the driver *)
(* at rest.                                                                *)
Starting ==
  /\ cpc = "arm_pop" => cocc = Len(fifo)
  /\ cpc \in {"arm_count", "arm_cmd"} => fifo = <<>> /\ wIdx = 0 /\ rIdx = 0
  /\ cpc = "arm_cmd" => bufCount = 0

(* What a core in its locked section has loaded is what is there.           *)
Loads ==
  /\ hpc = "store" => hcnt = bufCount /\ hidx = wIdx /\ bufCount < bufSize
  /\ \A r \in Readers : rpc[r] = "take" => rcnt[r] = bufCount /\ ridx[r] = rIdx

(* The words are the slots from rIdx to wIdx.                               *)
Circle == rIdx < bufSize /\ bufCount <= bufSize /\ wIdx = Wrapped(rIdx + bufCount, bufSize)

(* The handler finds in the FIFO the words it has counted.                  *)
Enough == hpc \in {"check", "loop", "lock", "store"} => hocc <= Len(fifo)

Flowing == Underway /\ Loads /\ Circle /\ Enough
FInv    == /\ Starting /\ (acquiring => Flowing)
           /\ acquiring \in BOOLEAN /\ delivered \in Seq(Word)

(* The words on their way, whether an acquisition runs or not.              *)
Words == Ring \o InHand \o fifo

(* The types the proofs use.                                               *)
FlowTypes ==
  /\ fifo \in Seq(Word) /\ next \in Nat /\ cur \in Word
  /\ bufSize \in Nat \ {0} /\ fifoBuffer \in [0 .. bufSize - 1 -> Word]
  /\ bufCount \in Nat /\ rIdx \in Nat /\ wIdx \in Nat /\ hocc \in Nat
  /\ rpc \in [Readers -> Places] /\ rcnt \in [Readers -> Nat] /\ ridx \in [Readers -> Nat]

LEMMA FlowTyped == TypeOK => FlowTypes
  BY DEF TypeOK, FlowTypes, Places, DevTypes, IdxTypes, MemTypes, IrqTypes, ReadTypes

LEMMA RingLists ==
  FlowTypes /\ Circle =>
    /\ IsRing(fifoBuffer, bufSize, rIdx, bufCount)
    /\ Lists(Ring, fifoBuffer, bufSize, rIdx, bufCount)
    /\ Ring \in Seq(Word) /\ InHand \in Seq(Word)
<1> SUFFICES ASSUME FlowTypes, Circle
             PROVE  /\ IsRing(fifoBuffer, bufSize, rIdx, bufCount)
                    /\ Lists(Ring, fifoBuffer, bufSize, rIdx, bufCount)
                    /\ Ring \in Seq(Word) /\ InHand \in Seq(Word)
  OBVIOUS
<1>1. IsRing(fifoBuffer, bufSize, rIdx, bufCount)
  BY DEF FlowTypes, Circle, IsRing
<1>2. ASSUME NEW k \in 1 .. bufCount
      PROVE  /\ Load(fifoBuffer, (rIdx + k - 1) % bufSize) = fifoBuffer[Wrapped(rIdx + k - 1, bufSize)]
             /\ fifoBuffer[Wrapped(rIdx + k - 1, bufSize)] \in Word
  <2>1. /\ bufSize \in Nat \ {0} /\ fifoBuffer \in [0 .. bufSize - 1 -> Word]
        /\ rIdx + k - 1 \in Nat /\ rIdx + k - 1 < bufSize + bufSize
    BY <1>1 DEF IsRing
  <2>2. (rIdx + k - 1) % bufSize = Wrapped(rIdx + k - 1, bufSize)
    BY <2>1, Wrap
  <2>3. Wrapped(rIdx + k - 1, bufSize) \in 0 .. bufSize - 1
    BY <2>1 DEF Wrapped
  <2>4. QED  BY <2>1, <2>2, <2>3 DEF Load
<1>3. bufCount \in Nat
  BY DEF FlowTypes
<1>4. Lists(Ring, fifoBuffer, bufSize, rIdx, bufCount)
  BY <1>2, <1>3 DEF Ring, Lists
<1>5. InHand \in Seq(Word)
  <2>1. cur \in Word
    BY DEF FlowTypes
  <2>2. QED  BY <2>1, EmptyFifo DEF InHand
<1>6. QED  BY <1>1, <1>4, <1>5 DEF Lists

(* Ring, hand and Words stay while their variables do.                      *)
LEMMA WordsStay ==
  /\ UNCHANGED <<bufCount, rIdx, memVars>> => Ring' = Ring
  /\ UNCHANGED <<hpc, cur>> => InHand' = InHand
  /\ UNCHANGED <<bufCount, rIdx, memVars, hpc, cur, fifo>> => Words' = Words
  BY DEF Ring, InHand, Words, memVars

-----------------------------------------------------------------------------
(* The steps of a running acquisition.                                     *)
LEMMA RestingFlow ==
  ASSUME Flowing, FlowTypes, Resting
  PROVE  /\ Flowing'
         /\ \/ Words' = Append(Words, next) /\ next' = next + 1 /\ Emit
            \/ Words' = Words /\ next' = next + 1 /\ EmitLost
            \/ Words' = Words /\ next' = next /\ ~EmitLost
<1>1. Underway' /\ UNCHANGED <<idxVars, memVars, irqVars, readVars>>
  BY RestingFrame DEF Flowing
<1>2. Loads' /\ Circle'
  BY <1>1 DEF Flowing, Loads, Circle, idxVars, memVars, irqVars, readVars
<1>3. UNCHANGED <<Ring, InHand>>
  BY <1>1, WordsStay DEF idxVars, irqVars
<1>4. CASE Emit
  <2>1. fifo' = Append(fifo, next) /\ next' = next + 1 /\ next \in Word
    BY <1>4 DEF Emit, FlowTypes, Word
  <2>2. Len(fifo') = Len(fifo) + 1 /\ Len(fifo) \in Nat
    BY <2>1 DEF FlowTypes
  <2>3. Enough'
    BY <1>1, <2>2 DEF Flowing, Enough, irqVars, FlowTypes
  <2>4. Ring \o InHand \in Seq(Word) /\ fifo \in Seq(Word)
    BY RingLists DEF Flowing, FlowTypes
  <2>5. Words' = Append(Words, next)
    BY <1>3, <2>1, <2>4, AppendConcat DEF Words
  <2>6. QED  BY <1>1, <1>2, <1>4, <2>1, <2>3, <2>5 DEF Flowing
<1>5. CASE ~Emit
  <2>1. fifo' = fifo /\ ((EmitLost /\ next' = next + 1) \/ (next' = next /\ ~EmitLost))
    <3>1. CASE EmitLost
      BY <3>1 DEF EmitLost
    <3>2. CASE ~EmitLost
      BY <1>5, <3>2, RestingFrame DEF Flowing
    <3>3. QED  BY <3>1, <3>2
  <2>2. Enough' /\ Words' = Words
    BY <1>1, <1>3, <2>1 DEF Flowing, Enough, irqVars, Words
  <2>3. QED  BY <1>1, <1>2, <2>1, <2>2 DEF Flowing
<1>6. QED  BY <1>4, <1>5

LEMMA IrqFlow ==
  ASSUME Flowing, FlowTypes, FlowTypes', Order, Irq
  PROVE  /\ Flowing' /\ next' = next
         /\ IF IrqAbort THEN \E i \in 1 .. Len(Words) : Words' = Stream!RemoveAt(Words, i)
                        ELSE Words' = Words
<1> USE DEF Flowing
<1>1. /\ UNCHANGED <<cpc, rec, armed, busy, bufSize, rem, rcnt, ridx, next, rIdx>>
      /\ \A r \in Readers : rpc'[r] = "take" => rpc[r] = "take"
  BY HandlerFrame, WokenMoves
<1>2. Underway' /\ next' = next
  BY <1>1 DEF Underway
<1>3. Ring \in Seq(Word) /\ InHand \in Seq(Word) /\ Ring \o InHand \in Seq(Word) /\ fifo \in Seq(Word)
  BY RingLists DEF FlowTypes
<1>4. CASE IrqEnter \/ IrqMask \/ IrqCheck \/ WriteBufLock \/ IrqExit
  <2>1. UNCHANGED <<fifo, idxVars, memVars, cur>>
    BY <1>4 DEF IrqEnter, IrqMask, IrqCheck, WriteBufLock, IrqExit, devVars
  <2>2. /\ hpc' = "store" => hcnt' = bufCount /\ hidx' = wIdx /\ bufCount < bufSize
        /\ hpc' \in {"check", "loop", "lock", "store"} => hocc' <= Len(fifo)
        /\ hpc \in {"lock", "store"} <=> hpc' \in {"lock", "store"}
    <3>1. CASE IrqEnter
      BY <3>1 DEF IrqEnter
    <3>2. CASE IrqMask
      BY <3>2 DEF IrqMask, FlowTypes
    <3>3. CASE IrqCheck
      BY <3>3 DEF IrqCheck, Enough
    <3>4. CASE WriteBufLock
      BY <3>4 DEF WriteBufLock, Enough
    <3>5. CASE IrqExit
      BY <3>5 DEF IrqExit
    <3>6. QED  BY <1>4, <3>1, <3>2, <3>3, <3>4, <3>5
  <2>3. InHand' = InHand /\ Ring' = Ring
    BY <2>1, <2>2, WordsStay DEF InHand, idxVars
  <2>4. Loads' /\ Circle' /\ Enough' /\ Words' = Words
    BY <1>1, <2>1, <2>2, <2>3 DEF Loads, Circle, Enough, Words, idxVars, memVars
  <2>5. ~IrqAbort
    BY <1>4 DEF IrqAbort, IrqEnter, IrqMask, IrqCheck, WriteBufLock, IrqExit
  <2>6. QED  BY <1>2, <2>4, <2>5
<1>5. CASE IrqPop
  <2>1. /\ hpc = "loop" /\ hpc' = "lock" /\ hocc > 0 /\ hocc' = hocc - 1
        /\ cur' = Front /\ fifo' = Rest /\ UNCHANGED <<idxVars, memVars>>
    BY <1>5 DEF IrqPop
  <2>2. fifo # <<>> /\ cur' = Head(fifo) /\ fifo' = Tail(fifo) /\ Len(fifo) \in Nat
    BY <2>1 DEF Enough, FlowTypes, Front, Rest
  <2>3. Head(fifo) \in Word /\ Tail(fifo) \in Seq(Word) /\ Len(Tail(fifo)) = Len(fifo) - 1
    BY <1>3, <2>2
  <2>4. Loads' /\ Circle' /\ Enough'
    BY <1>1, <2>1, <2>2, <2>3 DEF Loads, Circle, Enough, idxVars, memVars, FlowTypes
  <2>5. Ring' = Ring /\ InHand = <<>> /\ InHand' = <<Head(fifo)>>
    BY <2>1, <2>2, WordsStay DEF InHand, idxVars
  <2>6. Ring \o <<>> = Ring /\ Ring \o <<Head(fifo)>> = Append(Ring, Head(fifo))
    BY <1>3, <2>3, ConcatEmptySeq, AppendIsConcat
  <2>7. Words' = Words
    BY <1>3, <2>2, <2>5, <2>6, HeadOver DEF Words
  <2>8. QED  BY <1>2, <2>1, <2>4, <2>7 DEF IrqAbort
<1>6. CASE WriteBufStore
  <2>1. /\ hpc = "store" /\ hpc' = "loop" /\ fifo' = fifo /\ hocc' = hocc
        /\ fifoBuffer' = Store(fifoBuffer, wIdx, cur) /\ bufCount' = bufCount + 1
        /\ wIdx' = (wIdx + 1) % bufSize /\ bufCount < bufSize
    BY <1>6 DEF WriteBufStore, Loads, devVars
  <2>2. wIdx = Wrapped(rIdx + bufCount, bufSize) /\ wIdx \in 0 .. bufSize - 1
    BY DEF Circle, Wrapped, FlowTypes
  <2>3. /\ IsRing(fifoBuffer', bufSize, rIdx, bufCount + 1)
        /\ Lists(Append(Ring, cur), fifoBuffer', bufSize, rIdx, bufCount + 1)
        /\ Wrapped(wIdx + 1, bufSize) = Wrapped(rIdx + (bufCount + 1), bufSize)
    <3>1. cur \in Word
      BY DEF FlowTypes
    <3>2. /\ IsRing(fifoBuffer, bufSize, rIdx, bufCount)
          /\ Lists(Ring, fifoBuffer, bufSize, rIdx, bufCount)
      BY RingLists
    <3>3. /\ IsRing(Store(fifoBuffer, Wrapped(rIdx + bufCount, bufSize), cur), bufSize, rIdx, bufCount + 1)
          /\ Lists(Append(Ring, cur), Store(fifoBuffer, Wrapped(rIdx + bufCount, bufSize), cur),
                   bufSize, rIdx, bufCount + 1)
          /\ Wrapped(Wrapped(rIdx + bufCount, bufSize) + 1, bufSize)
                = Wrapped(rIdx + (bufCount + 1), bufSize)
      BY <2>1, <3>1, <3>2, SMT, ListsStore
    <3>4. QED  BY <2>1, <2>2, <3>3
  <2>4. wIdx' = Wrapped(rIdx + bufCount', bufSize)
    <3>1. bufSize \in Nat \ {0} /\ wIdx + 1 \in Nat /\ wIdx + 1 < bufSize + bufSize
      <4>1. bufSize \in Nat \ {0}
        BY DEF FlowTypes
      <4>2. QED  BY <2>2, <4>1
    <3>2. (wIdx + 1) % bufSize = Wrapped(wIdx + 1, bufSize)
      BY <3>1, Wrap
    <3>3. QED  BY <2>1, <2>3, <3>2
  <2>5. Loads' /\ Circle' /\ Enough'
    <3>1. \A r \in Readers : rpc'[r] # "take"
      BY <1>1, <2>1 DEF Order, Mutex
    <3>2. QED  BY <1>1, <2>1, <2>4, <3>1 DEF Loads, Circle, Enough, FlowTypes
  <2>6. Ring' = Append(Ring, cur)
    <3>1. Lists(Ring, fifoBuffer, bufSize, rIdx, bufCount)'
      BY <2>5, RingLists, PTL
    <3>2. Lists(Ring', fifoBuffer', bufSize, rIdx, bufCount + 1)
      BY <1>1, <2>1, <3>1
    <3>3. QED  BY <2>3, <3>2, Zenon, ListsOne
  <2>7. InHand = <<cur>> /\ InHand' = <<>> /\ cur \in Word
    BY <2>1 DEF InHand, FlowTypes
  <2>8. Append(Ring, cur) \in Seq(Word) /\ Append(Ring, cur) = Ring \o <<cur>>
    BY <1>3, <2>7, AppendIsConcat
  <2>9. Words' = Words
    BY <2>1, <2>6, <2>7, <2>8, ConcatEmptySeq DEF Words
  <2>10. QED  BY <1>2, <2>1, <2>5, <2>9 DEF IrqAbort
<1>7. CASE IrqAbort
  <2>1. /\ hpc = "lock" /\ hpc' = "idle" /\ UNCHANGED <<fifo, idxVars, memVars>>
    BY <1>7 DEF IrqAbort
  <2>2. Loads' /\ Circle' /\ Enough'
    BY <1>1, <2>1 DEF Loads, Circle, Enough, idxVars, memVars
  <2>3. Ring' = Ring /\ InHand = <<cur>> /\ InHand' = <<>> /\ cur \in Word
    BY <2>1, WordsStay DEF InHand, idxVars, FlowTypes
  <2>4. Words' = Ring \o fifo /\ Words = (Ring \o <<cur>>) \o fifo
    BY <1>3, <2>1, <2>3, ConcatEmptySeq DEF Words
  <2>5. /\ Len(Ring) + 1 \in 1 .. Len(Words)
        /\ Words' = Stream!RemoveAt(Words, Len(Ring) + 1)
    <3>1. Removes((Ring \o <<cur>>) \o fifo, Len(Ring) + 1, Ring \o fifo)
      BY <1>3, <2>3, Zenon, RemoveMiddle
    <3>2. QED  BY <2>4, <3>1 DEF Removes
  <2>6. QED  BY <1>2, <1>7, <2>2, <2>5
<1>8. QED  BY <1>4, <1>5, <1>6, <1>7 DEF Irq
LEMMA ReaderFlow ==
  ASSUME Flowing, FlowTypes, FlowTypes', Order, NEW r \in Readers,
         Reading(r) \/ ReadSignal(r) \/ (armed /\ ReadCall(r))
  PROVE  /\ Flowing' /\ next' = next
         /\ IF ReadBufTake(r) /\ rcnt[r] > 0
              THEN Words # <<>> /\ Data(r) = Head(Words) /\ Words' = Tail(Words)
              ELSE Words' = Words
<1> USE DEF Flowing
<1>1. /\ UNCHANGED <<rec, busy, cpc, armed, hpc, hcnt, hidx, hocc, cur, fifo, next, wIdx>>
      /\ UNCHANGED <<fifoBuffer, bufSize>>
      /\ \A t \in Readers : t # r => rpc'[t] = rpc[t]
  <2>1. UNCHANGED <<devVars, flagVars, memVars, irqVars, ctlVars, wIdx>>
    BY ReaderFrame
  <2>2. PICK l \in Places : rpc' = [rpc EXCEPT ![r] = l]
    BY ReaderFrame
  <2>3. \A t \in Readers : t # r => rpc'[t] = rpc[t]
    BY <2>2 DEF FlowTypes
  <2>4. QED  BY <2>1, <2>3 DEF devVars, flagVars, memVars, irqVars, ctlVars
<1>2. Underway' /\ Enough' /\ next' = next
  BY <1>1 DEF Underway, Enough
<1>3. Ring \in Seq(Word) /\ InHand \in Seq(Word) /\ fifo \in Seq(Word) /\ InHand \o fifo \in Seq(Word)
  <2>1. Ring \in Seq(Word) /\ InHand \in Seq(Word)
    BY RingLists
  <2>2. fifo \in Seq(Word)
    BY DEF FlowTypes
  <2>3. QED  BY <2>1, <2>2
<1>4. CASE ~ReadBufTake(r)
  <2>1. UNCHANGED idxVars
    BY <1>4 DEF Reading, ReadCall, ReadTest, ReadWait, ReadWoken, ReadSignal, ReadOcc, ReadBufLock,
       ReadReturn
  <2>2. /\ \A t \in Readers : t # r => rcnt'[t] = rcnt[t] /\ ridx'[t] = ridx[t]
        /\ rpc'[r] = "take" => rcnt'[r] = bufCount /\ ridx'[r] = rIdx
    <3>1. CASE ReadBufLock(r)
      BY <3>1 DEF ReadBufLock, FlowTypes
    <3>2. CASE ~ReadBufLock(r)
      <4>1. UNCHANGED <<rcnt, ridx>>
        BY <1>4, <3>2 DEF Reading, ReadCall, ReadTest, ReadWait, ReadWoken, ReadSignal, ReadOcc,
           ReadReturn
      <4>2. rpc'[r] # "take"
        BY <3>2, ReaderFrame DEF FlowTypes
      <4>3. QED  BY <4>1, <4>2
    <3>3. QED  BY <3>1, <3>2
  <2>3. Loads' /\ Circle'
    BY <1>1, <2>1, <2>2 DEF Loads, Circle, idxVars
  <2>4. Words' = Words
    BY <1>1, <2>1, WordsStay DEF idxVars, memVars
  <2>5. QED  BY <1>2, <1>4, <2>3, <2>4
<1>5. CASE ReadBufTake(r)
  <2>1. /\ rpc[r] = "take" /\ rpc' = [rpc EXCEPT ![r] = "loop"]
        /\ rcnt[r] = bufCount /\ ridx[r] = rIdx
        /\ IF bufCount > 0 THEN rIdx' = (rIdx + 1) % bufSize /\ bufCount' = bufCount - 1
                           ELSE UNCHANGED <<rIdx, bufCount>>
    BY <1>5 DEF ReadBufTake, Goto, Loads
  <2>2. hpc # "store" /\ \A t \in Readers : rpc'[t] # "take"
    BY <2>1 DEF Order, Mutex, FlowTypes
  <2>3. Loads'
    BY <1>1, <2>2 DEF Loads
  <2>4. CASE bufCount = 0
    <3>1. UNCHANGED <<rIdx, bufCount>>
      BY <2>1, <2>4
    <3>2. Circle' /\ Words' = Words
      BY <1>1, <3>1, WordsStay DEF Circle, memVars
    <3>3. QED  BY <1>2, <2>1, <2>3, <2>4, <3>2
  <2>5. CASE bufCount > 0
    <3>0. /\ IsRing(fifoBuffer, bufSize, rIdx, bufCount)
          /\ Lists(Ring, fifoBuffer, bufSize, rIdx, bufCount)
      BY RingLists
    <3>1. /\ bufSize \in Nat \ {0} /\ fifoBuffer \in [0 .. bufSize - 1 -> Word]
          /\ rIdx \in Nat /\ rIdx < bufSize /\ bufCount \in Nat \ {0} /\ bufCount <= bufSize
      BY <2>5, <3>0 DEF IsRing
    <3>2. /\ Ring # <<>> /\ Head(Ring) = fifoBuffer[rIdx]
          /\ IsRing(fifoBuffer, bufSize, Wrapped(rIdx + 1, bufSize), bufCount - 1)
          /\ Lists(Tail(Ring), fifoBuffer, bufSize, Wrapped(rIdx + 1, bufSize), bufCount - 1)
          /\ Wrapped(Wrapped(rIdx + 1, bufSize) + (bufCount - 1), bufSize) = Wrapped(rIdx + bufCount, bufSize)
      <4>1. bufCount # 0
        BY <3>1
      <4>2. QED  BY <3>0, <4>1, SMT, ListsTake
    <3>3. rIdx' = Wrapped(rIdx + 1, bufSize) /\ rIdx' < bufSize
      <4>1. rIdx + 1 \in Nat /\ rIdx + 1 < bufSize + bufSize
        BY <3>1
      <4>2. (rIdx + 1) % bufSize = Wrapped(rIdx + 1, bufSize)
        BY <3>1, <4>1, Wrap
      <4>3. QED  BY <2>1, <2>5, <3>1, <4>2 DEF Wrapped
    <3>4. bufCount' = bufCount - 1
      BY <2>1, <2>5
    <3>5. Circle'
      BY <1>1, <3>1, <3>2, <3>3, <3>4 DEF Circle
    <3>6. Lists(Ring, fifoBuffer, bufSize, rIdx, bufCount)'
      BY <3>5, RingLists, PTL
    <3>7. Lists(Ring', fifoBuffer, bufSize, Wrapped(rIdx + 1, bufSize), bufCount - 1)
      BY <1>1, <3>3, <3>4, <3>6
    <3>8. Ring # <<>> /\ Head(Ring) = fifoBuffer[rIdx] /\ Ring' = Tail(Ring)
      BY <3>2, <3>7, Zenon, ListsOne
    <3>9. InHand' = InHand
      BY <1>1 DEF InHand
    <3>10. Words = Ring \o (InHand \o fifo) /\ Words' = Ring' \o (InHand \o fifo)
      <4>1. (Ring \in Seq(Word))'
        BY <3>5, RingLists, PTL
      <4>2. Words = (Ring \o InHand) \o fifo /\ Words' = (Ring' \o InHand) \o fifo
        BY <1>1, <3>9 DEF Words
      <4>3. (Ring \o InHand) \o fifo = Ring \o (InHand \o fifo)
        BY <1>3, ConcatAssociative
      <4>4. (Ring' \o InHand) \o fifo = Ring' \o (InHand \o fifo)
        <5>1. Ring' \in Seq(Word)
          BY ONLY <4>1
        <5>2. PICK a : a = Ring'
          OBVIOUS
        <5>3. InHand \in Seq(Word) /\ fifo \in Seq(Word) /\ a \in Seq(Word)
          BY ONLY <1>3, <5>1, <5>2
        <5>4. (a \o InHand) \o fifo = a \o (InHand \o fifo)
          BY ONLY <5>3, ConcatAssociative
        <5>5. QED  BY ONLY <5>2, <5>4
      <4>5. QED  BY <4>2, <4>3, <4>4
    <3>11. Words # <<>> /\ Head(Words) = Head(Ring) /\ Words' = Tail(Words)
      BY <1>3, <3>8, <3>10, TailConcat
    <3>12. Data(r) = fifoBuffer[rIdx]
      BY <2>1, <2>5, <3>1 DEF Data, Load
    <3>13. QED  BY <1>2, <1>5, <2>1, <2>3, <2>5, <3>5, <3>8, <3>11, <3>12
  <2>6. bufCount \in Nat
    BY DEF FlowTypes
  <2>7. QED  BY <2>4, <2>5, <2>6
<1>6. QED  BY <1>4, <1>5

-----------------------------------------------------------------------------
(* ARM finds the recorder idle and nobody in the driver, so that nothing   *)
(* comes into FIFO and ring while it empties them.                         *)
Starts == {"arm_pop", "arm_count", "arm_cmd"}

LEMMA StartingKept ==
  ASSUME Order, FlowTypes, Starting, Driven
  PROVE  Starting'
<1> USE DEF Starting
<1>1. cpc \in Starts => rec = "IDLE" /\ hpc = "idle" /\ ~pend /\ ~armed /\ AtUser
  BY DEF Order, Arming, Quiet, AtUser, Starts
<1>2. CASE Emit \/ EmitLost \/ TriggerIn
  BY <1>1, <1>2 DEF Emit, EmitLost, TriggerIn, ctlVars, Starts
<1>3. CASE Trigger \/ Configure \/ ResetFlag \/ ClearIer \/ StopFlag \/ ReleaseFree \/ ReleaseMask
  <2>1. cpc' \notin Starts
    BY <1>3 DEF Trigger, Configure, Ioctl, Reset, Clear, GetSr, SetInterrupt, SetBufSize, ResetFlag,
       ClearIer, StopFlag, ReleaseFree, ReleaseMask, Starts
  <2>2. QED  BY <2>1 DEF Starts
<1>4. CASE Arm
  BY <1>4 DEF Arm, Ioctl, devVars
<1>5. CASE ArmPop
  <2>1. /\ cpc' = "arm_pop" /\ cocc = Len(fifo) /\ cocc > 0 /\ cocc' = cocc - 1 /\ fifo' = Rest
    BY <1>5 DEF ArmPop
  <2>2. fifo # <<>> /\ fifo' = Tail(fifo) /\ fifo \in Seq(Word)
    BY <2>1 DEF Rest, FlowTypes
  <2>3. Len(fifo') = Len(fifo) - 1
    BY <2>2
  <2>4. QED  BY <2>1, <2>3
<1>6. CASE ArmIndex
  <2>1. cpc' = "arm_count" /\ Len(fifo) = 0 /\ fifo' = fifo /\ wIdx' = 0 /\ rIdx' = 0
    BY <1>6 DEF ArmIndex, devVars
  <2>2. fifo = <<>>
    BY <2>1 DEF FlowTypes
  <2>3. QED  BY <2>1, <2>2
<1>7. CASE ArmCount \/ ArmCmd \/ ArmFlag
  BY <1>7 DEF ArmCount, ArmCmd, ArmFlag, devVars
<1>8. CASE Irq
  BY <1>1, <1>8, HandlerFrame DEF Starts
<1>9. CASE Open
  BY <1>9 DEF Open, Order, Closed, ctlVars
<1>10. CASE Stop \/ StopWake
  BY <1>10 DEF Stop, Ioctl, StopWake
<1>11. ASSUME NEW r \in Readers, Reading(r) \/ ReadSignal(r) \/ (armed /\ ReadCall(r))
       PROVE  Starting'
  <2>1. cpc' = cpc /\ (rpc[r] # "user" \/ armed)
    BY <1>11, ReaderFrame DEF ctlVars
  <2>2. QED  BY <1>1, <2>1 DEF AtUser, Starts
<1>12. QED
  BY <1>2, <1>3, <1>4, <1>5, <1>6, <1>7, <1>8, <1>9, <1>10, <1>11 DEF Driven, Idling, Resting

LEMMA Begins ==
  ASSUME Order, TypeOK, FlowTypes, Starting, ArmCmd
  PROVE  Flowing' /\ Words' = <<>> /\ next' = next /\ ~Underway
<1>1. cpc = "arm_cmd" /\ rec = "IDLE" /\ hpc = "idle" /\ AtUser /\ busy # 0
  BY DEF ArmCmd, Order, Arming, Closed, Quiet, AtUser
<1>2. /\ UNCHANGED <<next, fifo, hpc, rpc, busy, bufCount, wIdx, rIdx, bufSize>>
      /\ cpc' = "arm_flag" /\ rec' = "ARMED"
  BY <1>1 DEF ArmCmd, flagVars, idxVars, memVars, irqVars, readVars
<1>3. busy = 1
  BY <1>1 DEF TypeOK, FlagTypes
<1>4. fifo = <<>> /\ wIdx = 0 /\ rIdx = 0 /\ bufCount = 0 /\ bufSize \in Nat \ {0}
  BY <1>1 DEF Starting, FlowTypes
<1>5. Underway' /\ Loads' /\ Circle' /\ Enough'
  BY <1>1, <1>2, <1>3, <1>4 DEF Underway, Loads, Circle, Wrapped, Enough, AtUser
<1>6. Words' = <<>>
  <2>1. Ring' = <<>>
    BY <1>2, <1>4 DEF Ring
  <2>2. InHand' = <<>>
    BY <1>1, <1>2 DEF InHand
  <2>3. fifo' = <<>>
    BY <1>2, <1>4
  <2>4. QED  BY <2>1, <2>2, <2>3 DEF Words
<1>7. QED  BY <1>1, <1>2, <1>5, <1>6 DEF Flowing, Underway

(* Only samples that leave the recorder count, and only losses lose.       *)
LEMMA Steady ==
  ASSUME Other, FlowTypes
  PROVE  (Emit \/ next' = next) /\ ~EmitLost /\ ~IrqAbort
<1>1. /\ EmitLost => next' # next /\ fifo' = fifo /\ Len(fifo) = FifoLen
      /\ IrqAbort => hpc = "lock" /\ hpc' = "idle"
  BY DEF EmitLost, IrqAbort, FlowTypes
<1>2. CASE Emit
  BY <1>1, <1>2 DEF Emit, irqVars
<1>3. CASE TriggerIn \/ Trigger \/ ResetFlag \/ ClearIer \/ StopFlag \/ ReleaseFree
  BY <1>1, <1>3 DEF TriggerIn, Trigger, ResetFlag, ClearIer, StopFlag, ReleaseFree, devVars, irqVars
<1>4. CASE Configure
  BY <1>1, <1>4 DEF Configure, Reset, Clear, GetSr, SetInterrupt, SetBufSize, devVars, irqVars
<1>5. CASE Arm \/ ArmPop \/ ArmIndex \/ ArmCount \/ ArmFlag
  BY <1>1, <1>5 DEF Arm, ArmPop, ArmIndex, ArmCount, ArmFlag, devVars, irqVars
<1>6. CASE Handler
  BY <1>1, <1>6 DEF Handler, IrqEnter, IrqMask, IrqCheck, IrqPop, WriteBufLock, WriteBufStore,
     IrqExit, devVars
<1>7. CASE Open \/ StopWake
  BY <1>1, <1>7 DEF Open, StopWake, devVars, irqVars
<1>8. CASE \E r \in Readers : Reading(r) \/ ReadSignal(r) \/ (armed /\ ReadCall(r))
  BY <1>1, <1>8, ReaderFrame DEF devVars, irqVars
<1>9. QED
  BY <1>2, <1>3, <1>4, <1>5, <1>6, <1>7, <1>8 DEF Other, Hardware, Finish, Step, Reading

LEMMA OneByOne ==
  ASSUME FlowTypes, [SessionNext]_sessionVars
  PROVE  next' = next \/ next' = next + 1
<1>1. CASE Lose
  BY <1>1, HandlerFrame DEF Lose, EmitLost, Irq
<1>2. CASE Begin \/ End
  BY <1>2 DEF Begin, End, ArmCmd, Stop, ReleaseMask
<1>3. CASE Other
  BY <1>3, Steady DEF Emit
<1>4. CASE \E r \in Readers : Take(r)
  BY <1>4 DEF Take, ReadBufTake, devVars
<1>5. CASE UNCHANGED sessionVars
  BY <1>5 DEF sessionVars, vars, devVars
<1>6. QED
  BY <1>1, <1>2, <1>3, <1>4, <1>5 DEF SessionNext

(* A step of a running acquisition.                                        *)
LEMMA Onward ==
  ASSUME Flowing, FlowTypes, FlowTypes', Order, [SessionNext]_sessionVars, acquiring, acquiring'
  PROVE  /\ Flowing' /\ base' = base
         /\ \/ Words' = Append(Words, next) /\ next' = next + 1 /\ UNCHANGED <<delivered, lost>>
            \/ Words' = Words /\ next' = next + 1 /\ delivered' = delivered /\ lost'
            \/ /\ \E i \in 1 .. Len(Words) : Words' = Stream!RemoveAt(Words, i)
               /\ next' = next /\ delivered' = delivered /\ lost'
            \/ /\ Words # <<>> /\ Words' = Tail(Words) /\ delivered' = Append(delivered, Head(Words))
               /\ next' = next /\ lost' = lost
            \/ Words' = Words /\ next' = next /\ UNCHANGED <<delivered, lost>>
<1>1. ~End /\ ~Begin
  BY DEF End, Begin, ArmCmd, Flowing, Underway
<1>2. CASE Lose
  <2>1. base' = base /\ delivered' = delivered /\ lost'
    BY <1>2 DEF Lose
  <2>2. CASE EmitLost
    <3>1. Flowing' /\ (Words' = Append(Words, next) \/ Words' = Words) /\ ~Emit /\ next' = next + 1
      BY <2>2, RestingFlow DEF Resting, EmitLost, Emit
    <3>2. Words' = Words
      BY <2>2, <3>1, RestingFlow DEF Resting
    <3>3. QED  BY <2>1, <3>1, <3>2
  <2>3. CASE IrqAbort
    <3>1. /\ Flowing' /\ next' = next
          /\ \E i \in 1 .. Len(Words) : Words' = Stream!RemoveAt(Words, i)
      BY <2>3, IrqFlow DEF Irq
    <3>2. QED  BY <2>1, <3>1
  <2>4. QED  BY <1>2, <2>2, <2>3 DEF Lose
<1>3. CASE Other
  <2>1. UNCHANGED <<base, delivered, lost>>
    BY <1>3 DEF Other, history
  <2>2. ~EmitLost /\ ~IrqAbort
    BY <1>3, Steady
  <2>3. CASE Resting
    BY <2>1, <2>2, <2>3, RestingFlow
  <2>4. CASE Irq
    BY <2>1, <2>2, <2>4, IrqFlow
  <2>5. ASSUME NEW r \in Readers, Step(r) \/ ReadSignal(r) \/ (armed /\ ReadCall(r))
        PROVE  Flowing' /\ Words' = Words /\ next' = next
    <3>1. Reading(r) \/ ReadSignal(r) \/ (armed /\ ReadCall(r))
      BY <2>5 DEF Step, Reading
    <3>2. ~ReadBufTake(r)
      BY <2>5 DEF Step, ReadSignal, ReadCall, ReadTest, ReadWait, ReadWoken, ReadOcc, ReadBufLock,
         ReadReturn, ReadBufTake
    <3>3. QED  BY <3>1, <3>2, ReaderFlow
  <2>6. ~(Open \/ StopWake \/ ArmCount)
    BY DEF Flowing, Underway, Open, StopWake, ArmCount
  <2>7. \/ Resting \/ Irq \/ Open \/ StopWake \/ ArmCount
        \/ \E r \in Readers : Step(r) \/ ReadSignal(r) \/ (armed /\ ReadCall(r))
    BY <1>3 DEF Other, Hardware, Handler, Finish, Resting, Irq
  <2>8. QED  BY <2>1, <2>3, <2>4, <2>5, <2>6, <2>7
<1>4. ASSUME NEW r \in Readers, Take(r)
      PROVE  /\ Flowing' /\ base' = base /\ next' = next /\ lost' = lost
             /\ \/ /\ Words # <<>> /\ Words' = Tail(Words)
                   /\ delivered' = Append(delivered, Head(Words))
                \/ Words' = Words /\ delivered' = delivered
  <2>1. /\ ReadBufTake(r) /\ base' = base /\ lost' = lost
        /\ delivered' = IF rcnt[r] > 0 THEN Append(delivered, Data(r)) ELSE delivered
    BY <1>4 DEF Take
  <2>2. /\ Flowing' /\ next' = next
        /\ IF rcnt[r] > 0
             THEN Words # <<>> /\ Data(r) = Head(Words) /\ Words' = Tail(Words)
             ELSE Words' = Words
    BY <2>1, ReaderFlow DEF Reading
  <2>3. QED  BY <2>1, <2>2
<1>5. CASE UNCHANGED sessionVars
  <2>1. UNCHANGED <<vars, history>>
    BY <1>5 DEF sessionVars
  <2>2. Flowing' /\ next' = next
    BY <2>1 DEF Flowing, Underway, Loads, Circle, Enough, vars, devVars, flagVars, idxVars, memVars,
       irqVars, readVars, ctlVars
  <2>3. Words' = Words
    BY <2>1, WordsStay DEF vars, devVars, idxVars, irqVars
  <2>4. QED  BY <2>1, <2>2, <2>3 DEF history
<1>6. QED  BY <1>1, <1>2, <1>3, <1>4, <1>5 DEF SessionNext

-----------------------------------------------------------------------------
(* The other steps: one begins an acquisition, one ends it.                *)
LEMMA Turns ==
  ASSUME [SessionNext]_sessionVars, FInv, ~(acquiring /\ acquiring')
  PROVE  \/ Begin /\ ~acquiring
         \/ acquiring' = FALSE /\ delivered' = delivered /\ (acquiring => End)
<1>1. CASE Begin
  BY <1>1 DEF Begin, FInv
<1>2. CASE End
  BY <1>2 DEF End
<1>3. CASE Lose \/ Other \/ UNCHANGED sessionVars
  <2>1. acquiring' = acquiring /\ delivered' = delivered
    BY <1>3 DEF Lose, Other, history, sessionVars
  <2>2. QED  BY <2>1 DEF FInv
<1>4. CASE \E r \in Readers : Take(r)
  <2>1. acquiring' = acquiring /\ (~acquiring => delivered' = delivered)
    BY <1>4 DEF Take
  <2>2. QED  BY <2>1 DEF FInv
<1>5. QED  BY <1>1, <1>2, <1>3, <1>4 DEF SessionNext

LEMMA FlowInvariant == SessionSpec => []FInv
<1>1. SessionInit => FInv
  <2> SUFFICES ASSUME SessionInit PROVE FInv
    OBVIOUS
  <2>1. Starting /\ acquiring = FALSE /\ delivered = <<>>
    BY DEF SessionInit, Init, Starting
  <2>2. <<>> \in Seq(Word)
    BY EmptyFifo
  <2>3. QED  BY <2>1, <2>2 DEF FInv
<1>2. FInv /\ Order /\ TypeOK /\ TypeOK' /\ [SessionNext]_sessionVars => FInv'
  <2> SUFFICES ASSUME FInv, Order, TypeOK, TypeOK', [SessionNext]_sessionVars PROVE FInv'
    OBVIOUS
  <2>1. FlowTypes
    BY FlowTyped
  <2>2. FlowTypes'
    BY FlowTyped, PTL
  <2>3. Starting'
    <3>1. CASE Driven
      BY <2>1, <3>1, StartingKept DEF FInv
    <3>2. CASE UNCHANGED vars
      BY <3>2 DEF FInv, Starting, vars, devVars, idxVars, ctlVars
    <3>3. QED  BY <3>1, <3>2, StepDriven
  <2>4. CASE acquiring /\ acquiring'
    <3>1. Words \in Seq(Word)
      <4>1. Ring \in Seq(Word) /\ InHand \in Seq(Word) /\ fifo \in Seq(Word)
        BY <2>1, <2>4, RingLists DEF FInv, Flowing, FlowTypes
      <4>2. QED  BY <4>1 DEF Words
    <3>2. /\ Flowing'
          /\ delivered' = delivered \/ (Words # <<>> /\ delivered' = Append(delivered, Head(Words)))
      BY <2>1, <2>2, <2>4, Onward DEF FInv
    <3>3. Words # <<>> => Head(Words) \in Word
      BY <3>1
    <3>4. delivered' \in Seq(Word)
      BY <3>2, <3>3 DEF FInv
    <3>5. acquiring' \in BOOLEAN
      BY DEF FInv, SessionNext, sessionVars, history, Lose, Begin, End, Other, Take
    <3>6. QED  BY <2>3, <3>2, <3>4, <3>5 DEF FInv
  <2>5. CASE Begin
    <3>1. acquiring' = TRUE /\ delivered' = <<>> /\ ArmCmd
      BY <2>5 DEF Begin
    <3>2. Flowing'
      BY <2>1, <3>1, Begins DEF FInv
    <3>3. <<>> \in Seq(Word)
      BY EmptyFifo
    <3>4. QED  BY <2>3, <3>1, <3>2, <3>3 DEF FInv
  <2>6. CASE acquiring' = FALSE /\ delivered' = delivered
    BY <2>3, <2>6 DEF FInv
  <2>7. QED  BY <2>4, <2>5, <2>6, Turns
<1>3. QED  BY <1>1, <1>2, OrderInvariant, SessionTypes, PTL DEF SessionSpec

(* What has been delivered and what is on its way are consecutive numbers.  *)
Tally ==
  acquiring /\ ~lost =>
    /\ base \in Int /\ base <= next - 1
    /\ delivered \o Words = Numbers(base, next - 1 - base)

(* In every state of a session: what read() has returned, followed by what  *)
(* is in the ring, in the handler's hand and in the FIFO, is every sample   *)
(* since the arming in order, until one was lost for want of room.         *)
THEOREM Conserved == SessionSpec => []Conservation
<1>1. SessionInit => Tally
  BY DEF SessionInit, Tally
<1>2. Tally /\ FInv /\ Order /\ TypeOK /\ TypeOK' /\ [SessionNext]_sessionVars => Tally'
  <2> SUFFICES ASSUME Tally, FInv, Order, TypeOK, TypeOK', [SessionNext]_sessionVars,
                      acquiring', ~lost'
               PROVE  /\ base' \in Int /\ base' <= next' - 1
                      /\ delivered' \o Words' = Numbers(base', next' - 1 - base')
    BY DEF Tally
  <2>1. FlowTypes /\ next \in Nat
    BY FlowTyped DEF FlowTypes
  <2>2. FlowTypes'
    BY FlowTyped, PTL
  <2>3. CASE Begin
    <3>1. base' = next - 1 /\ delivered' = <<>> /\ Words' = <<>> /\ next' = next
      BY <2>1, <2>3, Begins DEF Begin, FInv
    <3>2. Numbers(base', 0) = <<>> /\ next' - 1 - base' = 0 /\ base' \in Int
      BY <2>1, <3>1, NextNumber
    <3>3. QED  BY <2>1, <3>1, <3>2
  <2>4. CASE acquiring
    <3>1. /\ base' = base /\ ~lost
          /\ \/ Words' = Append(Words, next) /\ next' = next + 1 /\ delivered' = delivered
             \/ /\ Words # <<>> /\ Words' = Tail(Words) /\ delivered' = Append(delivered, Head(Words))
                /\ next' = next
             \/ Words' = Words /\ next' = next /\ delivered' = delivered
      BY <2>1, <2>2, <2>4, Onward DEF FInv
    <3>2. /\ base \in Int /\ base <= next - 1
          /\ delivered \o Words = Numbers(base, next - 1 - base)
      BY <2>4, <3>1 DEF Tally
    <3>3. Words \in Seq(Word) /\ delivered \in Seq(Word) /\ next \in Word
      <4>1. Ring \in Seq(Word) /\ InHand \in Seq(Word) /\ fifo \in Seq(Word)
        BY <2>1, <2>4, RingLists DEF FInv, Flowing, FlowTypes
      <4>2. QED  BY <2>1, <4>1 DEF Words, FInv, Word
    <3>4. CASE Words' = Append(Words, next) /\ next' = next + 1 /\ delivered' = delivered
      <4>1. delivered' \o Words' = Append(delivered \o Words, next)
        BY <3>3, <3>4, AppendConcat
      <4>2. PICK m \in Nat : m = next - 1 - base
        BY <2>1, <3>2
      <4>3. Numbers(base, m + 1) = Append(Numbers(base, m), base + (m + 1))
        BY <3>2, NextNumber
      <4>4. base + (m + 1) = next /\ next' - 1 - base' = m + 1 /\ base' <= next' - 1
        BY <2>1, <3>1, <3>2, <3>4, <4>2
      <4>5. QED  BY <3>1, <3>2, <4>1, <4>2, <4>3, <4>4
    <3>5. CASE /\ Words # <<>> /\ Words' = Tail(Words) /\ delivered' = Append(delivered, Head(Words))
               /\ next' = next
      <4>1. delivered' \o Words' = delivered \o Words
        BY <3>3, <3>5, HeadOver
      <4>2. QED  BY <3>1, <3>2, <3>5, <4>1
    <3>6. CASE Words' = Words /\ next' = next /\ delivered' = delivered
      BY <3>1, <3>2, <3>6
    <3>7. QED  BY <3>1, <3>4, <3>5, <3>6
  <2>5. QED  BY <2>3, <2>4, Turns
<1>3. Tally => Conservation
  BY DEF Tally, Conservation, Transit, Words, Numbers
<1>4. QED
  BY <1>1, <1>2, <1>3, FlowInvariant, OrderInvariant, SessionTypes, PTL DEF SessionSpec

(* A session implements the abstract stream: every step starts or stops an *)
(* acquisition, sends, loses, drops or delivers a sample, or changes       *)
(* nothing the stream knows of.                                            *)
THEOREM Implements == SessionSpec => StreamSpec
<1>1. SessionInit => Stream!Init
  BY DEF SessionInit, Init, Stream!Init, Transit
<1>2. FInv /\ Order /\ TypeOK /\ TypeOK' /\ [SessionNext]_sessionVars => [Stream!Next]_(Stream!vars)
  <2> SUFFICES ASSUME FInv, Order, TypeOK, TypeOK', [SessionNext]_sessionVars
               PROVE  Stream!Next \/ UNCHANGED Stream!vars
    OBVIOUS
  <2>1. FlowTypes /\ next \in Nat
    BY FlowTyped DEF FlowTypes
  <2>2. FlowTypes'
    BY FlowTyped, PTL
  <2>3. CASE acquiring /\ acquiring'
    <3>1. acquiring' = acquiring
      BY <2>3 DEF FInv, SessionNext, sessionVars, history, Lose, Begin, End, Other, Take
    <3>2. Transit = Words /\ Transit' = Words'
      BY <2>3 DEF Transit, Words
    <3>3. CASE Words' = Append(Words, next) /\ next' = next + 1 /\ delivered' = delivered
      BY <2>1, <2>3, <3>1, <3>2, <3>3 DEF Stream!Next, Stream!Send
    <3>4. CASE Words' = Words /\ next' = next + 1 /\ delivered' = delivered
      BY <2>1, <2>3, <3>1, <3>2, <3>4 DEF Stream!Next, Stream!SendLost
    <3>5. CASE /\ \E i \in 1 .. Len(Words) : Words' = Stream!RemoveAt(Words, i)
               /\ next' = next /\ delivered' = delivered
      BY <2>3, <3>1, <3>2, <3>5 DEF Stream!Next, Stream!Drop
    <3>6. CASE /\ Words # <<>> /\ Words' = Tail(Words) /\ delivered' = Append(delivered, Head(Words))
               /\ next' = next
      BY <2>3, <3>1, <3>2, <3>6 DEF Stream!Next, Stream!Deliver
    <3>7. CASE Words' = Words /\ next' = next /\ delivered' = delivered
      BY <3>1, <3>2, <3>7 DEF Stream!vars
    <3>8. QED
      BY <2>1, <2>2, <2>3, <3>3, <3>4, <3>5, <3>6, <3>7, Onward DEF FInv
  <2>4. CASE Begin /\ ~acquiring
    <3>1. /\ acquiring' = TRUE /\ delivered' = <<>> /\ next' = next /\ Words' = <<>>
      BY <2>1, <2>4, Begins DEF Begin, FInv
    <3>2. Transit' = <<>>
      BY <3>1 DEF Transit, Words
    <3>3. QED  BY <2>4, <3>1, <3>2 DEF Stream!Next, Stream!Start
  <2>5. CASE acquiring' = FALSE /\ delivered' = delivered /\ (acquiring => End)
    <3>1. Transit' = <<>>
      BY <2>5 DEF Transit
    <3>2. CASE acquiring
      <4>1. next' = next
        BY <2>5, <3>2 DEF End, Stop, ReleaseMask
      <4>2. QED  BY <2>5, <3>1, <3>2, <4>1 DEF Stream!Next, Stream!Stop
    <3>3. CASE acquiring = FALSE
      <4>1. Transit = <<>>
        BY <3>3 DEF Transit
      <4>2. CASE next' = next
        BY <2>5, <3>1, <3>3, <4>1, <4>2 DEF Stream!vars
      <4>3. CASE next' = next + 1
        <5>1. next' - 1 = (next - 1) + 1
          BY <2>1, <4>3
        <5>2. QED  BY <2>5, <3>1, <3>3, <4>1, <5>1 DEF Stream!Next, Stream!SendLost
      <4>4. QED  BY <2>1, <4>2, <4>3, OneByOne
    <3>4. QED  BY <3>2, <3>3 DEF FInv
  <2>6. QED  BY <2>3, <2>4, <2>5, Turns
<1>3. QED
  BY <1>1, <1>2, FlowInvariant, OrderInvariant, SessionTypes, PTL
     DEF SessionSpec, StreamSpec, Stream!Spec

-----------------------------------------------------------------------------
(* The time FIFO                                                           *)

Types ==
  /\ times \in Seq(Nat)
  /\ trec \in [on : BOOLEAN, mask : {"none", "hi", "stuck"}, k : Nat]
  /\ tctl \in [pc : {"user", "prepost", "dec", "arm", "low", "high"},
               left : Nat, low : Int]
  /\ thist \in [next : Nat, gap : {"none", "lost", "stuck"}]

(* A thread inside LAST_TIME has the words it has come for: nobody else     *)
(* takes any.                                                               *)
Popping ==
  /\ tctl.pc = "low" => Len(times) >= 2
  /\ tctl.pc = "high" => Len(times) >= 1

(* ARM counts right, since the recorder is at rest: unless its high word    *)
(* goes on.                                                                 *)
ArmCounts ==
  /\ trec.mask = "hi" => trec.on
  /\ trec.mask = "stuck" => trec.k >= 1
  /\ trec.mask = "stuck" => thist.gap # "none" \/ ~trec.on
  /\ tctl.pc = "arm" => ~trec.on
  /\ tctl.pc = "arm" /\ trec.mask # "stuck" => Len(times) = tctl.left

(* The next word the recorder puts out.                                     *)
Coming == 2 * trec.k + (IF trec.mask = "hi" THEN 1 ELSE 0)

(* What the FIFO holds are all the words from the one owed to the one       *)
(* coming.                                                                  *)
Live == trec.on /\ thist.gap = "none"
Run  ==
  Live =>
    /\ \A i \in 1 .. Len(times) : times[i] = Owed + i - 1
    /\ Owed + Len(times) = Coming
    /\ tctl.pc = "high" => tctl.low = thist.next

TimeInv == Types /\ Popping /\ ArmCounts /\ Run

-----------------------------------------------------------------------------
(* Appending the next number to a run of consecutive ones, and taking its   *)
(* first, leave a run.                                                      *)
LEMMA RunAppend ==
  ASSUME NEW s \in Seq(Nat), NEW a \in Nat, NEW w \in Nat,
         \A i \in 1 .. Len(s) : s[i] = a + i - 1, w = a + Len(s)
  PROVE  /\ Append(s, w) \in Seq(Nat) /\ Len(Append(s, w)) = Len(s) + 1
         /\ \A i \in 1 .. Len(Append(s, w)) : Append(s, w)[i] = a + i - 1
<1>1. Append(s, w) \in Seq(Nat) /\ Len(Append(s, w)) = Len(s) + 1
  OBVIOUS
<1>2. ASSUME NEW i \in 1 .. Len(Append(s, w)) PROVE Append(s, w)[i] = a + i - 1
  <2>1. CASE i \in 1 .. Len(s)
    BY <2>1
  <2>2. CASE i = Len(s) + 1
    BY <2>2
  <2>3. QED  BY <1>1, <2>1, <2>2
<1>3. QED  BY <1>1, <1>2

LEMMA RunTail ==
  ASSUME NEW s \in Seq(Nat), NEW a \in Nat, Len(s) >= 1,
         \A i \in 1 .. Len(s) : s[i] = a + i - 1
  PROVE  /\ Tail(s) \in Seq(Nat) /\ Len(Tail(s)) = Len(s) - 1 /\ Head(s) = a
         /\ \A i \in 1 .. Len(Tail(s)) : Tail(s)[i] = a + 1 + i - 1
<1>1. s # <<>> /\ Head(s) = s[1] /\ Tail(s) \in Seq(Nat) /\ Len(Tail(s)) = Len(s) - 1
  OBVIOUS
<1>2. ASSUME NEW i \in 1 .. Len(Tail(s)) PROVE Tail(s)[i] = s[i + 1]
  BY <1>1
<1>3. QED  BY <1>1, <1>2

LEMMA PopWhole ==
  ASSUME times \in Seq(Nat), Len(times) >= 1
  PROVE  /\ Pop = times[1] /\ Pop \in Nat /\ Left = Tail(times)
         /\ Left \in Seq(Nat) /\ Len(Left) = Len(times) - 1
  BY DEF Pop, Left

LEMMA Start == ControlInit => TimeInv
<1> SUFFICES ASSUME ControlInit PROVE TimeInv
  OBVIOUS
<1>1. times = <<>> /\ Len(times) = 0 /\ times \in Seq(Nat)
  BY DEF ControlInit
<1>2. 0 \in Int
  OBVIOUS
<1>3. Types
  BY <1>1, <1>2 DEF ControlInit, Types
<1>4. Popping /\ ArmCounts /\ Run
  BY <1>1 DEF ControlInit, Popping, ArmCounts, Run, Live
<1>5. QED  BY <1>3, <1>4 DEF TimeInv

(* A word arrives that the FIFO has no room for: the history knows.          *)
LEMMA Lost ==
  ASSUME TimeInv, trec' \in [on : BOOLEAN, mask : {"none", "hi"}, k : Nat],
         trec.on, trec'.on, times' = times, tctl' = tctl,
         thist' = [thist EXCEPT !.gap = "lost"]
  PROVE  TimeInv'
<1>1. thist' \in [next : Nat, gap : {"none", "lost", "stuck"}] /\ thist'.gap = "lost"
  BY DEF TimeInv, Types
<1>2. Types' /\ Popping' /\ ArmCounts' /\ Run'
  BY <1>1 DEF TimeInv, Types, Popping, ArmCounts, Run, Live
<1>3. QED  BY <1>2 DEF TimeInv

(* A word arrives and is the one that was coming: the run becomes longer.   *)
LEMMA Longer ==
  ASSUME TimeInv, trec' \in [on : BOOLEAN, mask : {"none", "hi"}, k : Nat],
         trec.on, trec'.on, tctl' = tctl, thist' = thist,
         NEW w \in Nat, times' = Append(times, w),
         Live => w = Coming /\ Coming' = Coming + 1
  PROVE  TimeInv'
<1>1. times' \in Seq(Nat) /\ Len(times') = Len(times) + 1
  BY DEF TimeInv, Types
<1>2. Types' /\ Popping' /\ ArmCounts'
  BY <1>1 DEF TimeInv, Types, Popping, ArmCounts
<1>3. ASSUME Live' PROVE Run!2'
  <2>1. Live /\ Owed' = Owed /\ Owed \in Nat
    BY <1>3 DEF Live, Owed, TimeInv, Types
  <2>2. \A i \in 1 .. Len(times') : times'[i] = Owed + i - 1
    <3>1. w = Owed + Len(times) /\ \A i \in 1 .. Len(times) : times[i] = Owed + i - 1
      BY <2>1 DEF Run, TimeInv
    <3>2. QED  BY <2>1, <3>1, RunAppend DEF TimeInv, Types
  <2>3. Owed' + Len(times') = Coming'
    BY <1>1, <2>1 DEF Run, TimeInv, Types
  <2>4. QED  BY <2>1, <2>2, <2>3 DEF Run, TimeInv
<1>4. QED  BY <1>2, <1>3 DEF Run, TimeInv

LEMMA LowKeeps == TimeInv /\ LowWord => TimeInv'
<1> SUFFICES ASSUME TimeInv, LowWord PROVE TimeInv'
  OBVIOUS
<1>1. /\ trec' \in [on : BOOLEAN, mask : {"none", "hi"}, k : Nat]
      /\ trec.on /\ trec'.on /\ tctl' = tctl
      /\ trec'.k = trec.k /\ trec'.mask = "hi" /\ trec.mask # "hi" /\ 2 * trec.k \in Nat
  <2>1. /\ trec.on /\ trec.mask # "hi" /\ tctl' = tctl
        /\ trec' = [trec EXCEPT !.mask = "hi"]
    BY DEF LowWord
  <2>2. /\ trec \in [on : BOOLEAN, mask : {"none", "hi", "stuck"}, k : Nat]
        /\ trec.k \in Nat /\ 2 * trec.k \in Nat
    BY DEF TimeInv, Types
  <2>3. /\ trec' \in [on : BOOLEAN, mask : {"none", "hi"}, k : Nat]
        /\ trec'.on = trec.on /\ trec'.k = trec.k /\ trec'.mask = "hi"
    BY <2>1, <2>2
  <2>4. QED  BY <2>1, <2>2, <2>3
<1>2. CASE thist' = thist /\ times' = Append(times, 2 * trec.k)
  <2>1. 2 * trec.k = Coming /\ Coming' = Coming + 1
    BY <1>1 DEF Coming
  <2>2. QED  BY <1>1, <1>2, <2>1, Longer
<1>3. CASE thist' = [thist EXCEPT !.gap = "lost"] /\ times' = times
  BY <1>1, <1>3, Lost
<1>4. QED  BY <1>2, <1>3 DEF LowWord, Put

LEMMA HighKeeps == TimeInv /\ HighWord => TimeInv'
<1> SUFFICES ASSUME TimeInv, HighWord PROVE TimeInv'
  OBVIOUS
<1>1. /\ trec' \in [on : BOOLEAN, mask : {"none", "hi"}, k : Nat]
      /\ trec.on /\ trec'.on /\ tctl' = tctl
      /\ trec'.k = trec.k + 1 /\ trec'.mask = "none" /\ trec.mask = "hi"
      /\ trec.k \in Nat /\ 2 * trec.k + 1 \in Nat
  <2>1. /\ trec.on /\ trec.mask = "hi" /\ tctl' = tctl
        /\ trec' = [trec EXCEPT !.mask = "none", !.k = @ + 1]
    BY DEF HighWord
  <2>2. /\ trec \in [on : BOOLEAN, mask : {"none", "hi", "stuck"}, k : Nat]
        /\ trec.k \in Nat /\ trec.k + 1 \in Nat /\ 2 * trec.k + 1 \in Nat
    BY DEF TimeInv, Types
  <2>3. trec' = [trec EXCEPT !.mask = "none", !.k = trec.k + 1]
    BY <2>1, <2>2
  <2>4. trec'.k = trec.k + 1 /\ trec'.mask = "none" /\ trec'.on = trec.on
    BY <2>2, <2>3
  <2>5. trec' \in [on : BOOLEAN, mask : {"none", "hi"}, k : Nat]
    BY <2>2, <2>3
  <2>6. QED  BY <2>1, <2>2, <2>4, <2>5
<1>2. CASE thist' = thist /\ times' = Append(times, 2 * trec.k + 1)
  <2>1. 2 * trec.k + 1 = Coming /\ Coming' = Coming + 1
    BY <1>1 DEF Coming
  <2>2. QED  BY <1>1, <1>2, <2>1, Longer
<1>3. CASE thist' = [thist EXCEPT !.gap = "lost"] /\ times' = times
  BY <1>1, <1>3, Lost
<1>4. QED  BY <1>2, <1>3 DEF HighWord, Put

LEMMA StuckKeeps == TimeInv /\ StuckWord => TimeInv'
<1> SUFFICES ASSUME TimeInv, StuckWord PROVE TimeInv'
  OBVIOUS
<1>1. /\ times' = Append(times, 2 * trec.k - 1) /\ trec.mask = "stuck"
      /\ trec' = trec /\ tctl' = tctl /\ thist' = thist
  BY DEF StuckWord
<1>2. 2 * trec.k - 1 \in Nat
  BY <1>1 DEF TimeInv, Types, ArmCounts
<1>3. times' \in Seq(Nat) /\ Len(times') = Len(times) + 1
  BY <1>1, <1>2 DEF TimeInv, Types
<1>4. Types' /\ Popping' /\ ArmCounts' /\ Run'
  BY <1>1, <1>3 DEF TimeInv, Types, Popping, ArmCounts, Run, Live
<1>5. QED  BY <1>4 DEF TimeInv

(* What a thread does while the recorder is at rest does not touch the run. *)
LEMMA AtRestKeeps ==
  ASSUME TimeInv, ~trec.on, trec' = trec, thist' = thist, Types', Popping', ArmCounts'
  PROVE  TimeInv'
  BY DEF TimeInv, Run, Live

LEMMA ConfigKeeps == TimeInv /\ (SetMode \/ SetPrePost \/ SetDec \/ GetConfig) => TimeInv'
<1> SUFFICES ASSUME TimeInv, SetMode \/ SetPrePost \/ SetDec \/ GetConfig PROVE TimeInv'
  OBVIOUS
<1>1. PICK l \in {"user", "prepost", "dec"} :
        /\ tctl.pc \in {"user", "prepost", "dec"} /\ tctl' = [tctl EXCEPT !.pc = l]
        /\ times' = times /\ trec' = trec /\ thist' = thist
  BY DEF SetMode, SetPrePost, SetDec, GetConfig, Enters
<1>2. tctl' \in [pc : {"user", "prepost", "dec"}, left : Nat, low : Int]
  BY <1>1 DEF TimeInv, Types
<1>3. Types' /\ Popping' /\ ArmCounts'
  BY <1>1, <1>2 DEF TimeInv, Types, Popping, ArmCounts
<1>4. Run'
  BY <1>1, <1>2 DEF TimeInv, Run, Live, Owed, Coming
<1>5. QED  BY <1>3, <1>4 DEF TimeInv

LEMMA ClearKeeps == TimeInv /\ TimeClear => TimeInv'
<1> SUFFICES ASSUME TimeInv, TimeClear PROVE TimeInv'
  OBVIOUS
<1>1. times' = <<>> /\ times' \in Seq(Nat) /\ trec' = trec /\ thist' = thist /\ ~trec.on
  BY DEF TimeClear, AtRest
<1>2. /\ tctl' \in [pc : {"user"}, left : Nat, low : Int]
  BY DEF TimeClear, Enters, TimeInv, Types
<1>3. Types' /\ Popping' /\ ArmCounts'
  BY <1>1, <1>2 DEF TimeInv, Types, Popping, ArmCounts
<1>4. QED  BY <1>1, <1>3, AtRestKeeps

LEMMA ArmKeeps == TimeInv /\ (TimeArm \/ TimeArmPop) => TimeInv'
<1> SUFFICES ASSUME TimeInv, TimeArm \/ TimeArmPop PROVE TimeInv'
  OBVIOUS
<1>1. trec' = trec /\ thist' = thist /\ ~trec.on
  BY DEF TimeArm, TimeArmPop, AtRest, TimeInv, ArmCounts
<1>2. CASE TimeArm
  <2>1. /\ times' = times /\ Len(times) \in Nat
        /\ tctl' \in [pc : {"arm"}, left : Nat, low : Int] /\ tctl'.left = Len(times)
    <3>1. times' = times /\ tctl' = [tctl EXCEPT !.pc = "arm", !.left = Len(times)]
      BY <1>2 DEF TimeArm
    <3>2. Len(times) \in Nat
      BY DEF TimeInv, Types
    <3>3. QED  BY <3>1, <3>2 DEF TimeInv, Types
  <2>2. Types' /\ Popping' /\ ArmCounts'
    BY <1>1, <2>1 DEF TimeInv, Types, Popping, ArmCounts
  <2>3. QED  BY <1>1, <2>2, AtRestKeeps
<1>3. CASE TimeArmPop
  <2>1. /\ times' = Left /\ tctl.pc = "arm" /\ tctl.left \in Nat \ {0}
        /\ tctl' \in [pc : {"arm"}, left : Nat, low : Int] /\ tctl'.left = tctl.left - 1
    BY <1>3 DEF TimeArmPop, TimeInv, Types
  <2>2. CASE Len(times) >= 1
    <3>1. times' \in Seq(Nat) /\ Len(times') = Len(times) - 1 /\ Len(times) \in Nat
      BY <2>1, <2>2, PopWhole DEF TimeInv, Types
    <3>2. Types' /\ Popping' /\ ArmCounts'
      BY <1>1, <2>1, <3>1 DEF TimeInv, Types, Popping, ArmCounts
    <3>3. QED  BY <1>1, <3>2, AtRestKeeps
  <2>3. CASE times = <<>>
    <3>1. times' = times /\ trec.mask = "stuck"
      BY <2>1, <2>3 DEF Left, TimeInv, ArmCounts
    <3>2. Types' /\ Popping' /\ ArmCounts'
      BY <1>1, <2>1, <3>1 DEF TimeInv, Types, Popping, ArmCounts
    <3>3. QED  BY <1>1, <3>2, AtRestKeeps
  <2>4. QED  BY <2>2, <2>3 DEF TimeInv, Types
<1>4. QED  BY <1>2, <1>3

(* The recorder is armed with an empty FIFO, or with its high word on.      *)
LEMMA ArmedKeeps == TimeInv /\ TimeArmed => TimeInv'
<1> SUFFICES ASSUME TimeInv, TimeArmed PROVE TimeInv'
  OBVIOUS
<1>1. /\ times' = times /\ tctl.pc = "arm" /\ tctl.left = 0
      /\ tctl' \in [pc : {"user"}, left : Nat, low : Int]
      /\ trec' \in [on : {TRUE}, mask : {"none", "hi", "stuck"}, k : Nat]
      /\ trec'.k = trec.k /\ trec'.mask = trec.mask
  BY DEF TimeArmed, TimeInv, Types
<1>2. trec.mask # "hi" /\ trec.k \in Nat /\ 2 * trec.k \in Nat
  BY <1>1 DEF TimeInv, Types, ArmCounts
<1>3. CASE trec.mask = "stuck"
  <2>1. thist' \in [next : Nat, gap : {"stuck"}]
    BY <1>2, <1>3 DEF TimeArmed, TimeInv, Types
  <2>2. Types' /\ Popping' /\ ArmCounts' /\ Run'
    BY <1>1, <1>3, <2>1 DEF TimeInv, Types, Popping, ArmCounts, Run, Live
  <2>3. QED  BY <2>2 DEF TimeInv
<1>4. CASE trec.mask # "stuck"
  <2>1. thist' \in [next : Nat, gap : {"none"}] /\ thist'.next = 2 * trec.k
    BY <1>2, <1>4 DEF TimeArmed, TimeInv, Types
  <2>2. Len(times) = 0
    BY <1>1, <1>4 DEF TimeInv, ArmCounts
  <2>3. Types' /\ Popping' /\ ArmCounts'
    BY <1>1, <1>2, <1>4, <2>1 DEF TimeInv, Types, Popping, ArmCounts
  <2>4. Run'
    BY <1>1, <1>2, <2>1, <2>2 DEF Run, Live, Owed, Coming
  <2>5. QED  BY <2>3, <2>4 DEF TimeInv
<1>5. QED  BY <1>3, <1>4

LEMMA StopKeeps == TimeInv /\ TimeStop => TimeInv'
<1> SUFFICES ASSUME TimeInv, TimeStop PROVE TimeInv'
  OBVIOUS
<1>1. times' = times /\ tctl' \in [pc : {"user"}, left : Nat, low : Int]
  BY DEF TimeStop, Enters, TimeInv, Types
<1>2. CASE trec.mask = "hi"
  <2>1. /\ trec' \in [on : {FALSE}, mask : {"stuck"}, k : Nat] /\ trec'.k = trec.k + 1
        /\ trec.k \in Nat
        /\ thist' \in [next : Nat, gap : {"stuck"}]
    <3>1. /\ trec' = [trec EXCEPT !.on = FALSE, !.mask = "stuck", !.k = @ + 1]
          /\ thist' = [thist EXCEPT !.gap = "stuck"]
      BY <1>2 DEF TimeStop
    <3>2. /\ trec \in [on : BOOLEAN, mask : {"none", "hi", "stuck"}, k : Nat]
          /\ trec.k \in Nat /\ trec.k + 1 \in Nat
          /\ thist \in [next : Nat, gap : {"none", "lost", "stuck"}]
      BY DEF TimeInv, Types
    <3>3. trec' = [trec EXCEPT !.on = FALSE, !.mask = "stuck", !.k = trec.k + 1]
      BY <3>1, <3>2
    <3>4. trec'.k = trec.k + 1
      BY <3>2, <3>3
    <3>5. trec' \in [on : {FALSE}, mask : {"stuck"}, k : Nat]
      BY <3>2, <3>3
    <3>6. thist' \in [next : Nat, gap : {"stuck"}]
      BY <3>1, <3>2
    <3>7. QED  BY <3>2, <3>4, <3>5, <3>6
  <2>2. Types' /\ Popping'
    BY <1>1, <2>1 DEF TimeInv, Types, Popping
  <2>3. trec'.on = FALSE /\ trec'.mask = "stuck" /\ trec'.k >= 1 /\ tctl'.pc = "user"
    <3>1. trec'.on \in {FALSE} /\ trec'.mask \in {"stuck"} /\ tctl'.pc \in {"user"}
      BY <1>1, <2>1
    <3>2. trec'.k >= 1
      BY <2>1
    <3>3. QED  BY <3>1, <3>2
  <2>4. ArmCounts' /\ Run'
    BY <2>3 DEF ArmCounts, Run, Live
  <2>5. QED  BY <2>2, <2>4 DEF TimeInv
<1>3. CASE trec.mask # "hi"
  <2>1. /\ trec' \in [on : {FALSE}, mask : {"none", "stuck"}, k : Nat] /\ trec'.k = trec.k
        /\ thist' = thist
    BY <1>3 DEF TimeStop, TimeInv, Types
  <2>2. Types' /\ Popping'
    BY <1>1, <2>1 DEF TimeInv, Types, Popping
  <2>3. /\ trec'.on = FALSE /\ trec'.mask # "hi" /\ tctl'.pc = "user"
        /\ trec'.mask = "stuck" => trec.mask = "stuck"
    <3>1. trec' = [trec EXCEPT !.on = FALSE]
      BY <1>3 DEF TimeStop
    <3>2. trec'.mask = trec.mask
      BY <3>1 DEF TimeInv, Types
    <3>3. QED  BY <1>1, <1>3, <2>1, <3>2
  <2>4. ArmCounts' /\ Run'
    BY <2>1, <2>3 DEF TimeInv, ArmCounts, Run, Live
  <2>5. QED  BY <2>2, <2>4 DEF TimeInv
<1>4. QED  BY <1>2, <1>3

LEMMA LastKeeps == TimeInv /\ LastTime => TimeInv'
<1> SUFFICES ASSUME TimeInv, LastTime PROVE TimeInv'
  OBVIOUS
<1>1. /\ times' = times /\ trec' = trec /\ thist' = thist /\ Len(times) >= 2
      /\ tctl.pc = "user"
      /\ tctl' \in [pc : {"low"}, left : Nat, low : Int]
  BY DEF LastTime, TimeInv, Types
<1>2. Types' /\ Popping' /\ ArmCounts' /\ Run'
  BY <1>1 DEF TimeInv, Types, Popping, ArmCounts, Run, Live, Owed, Coming
<1>3. QED  BY <1>2 DEF TimeInv

(* The low word is the one owed, and the next one is owed then.             *)
LEMMA LowTaken == TimeInv /\ LastTimeLow => TimeInv'
<1> SUFFICES ASSUME TimeInv, LastTimeLow PROVE TimeInv'
  OBVIOUS
<1>1. /\ trec' = trec /\ thist' = thist /\ tctl.pc = "low" /\ times' = Left
      /\ tctl' = [tctl EXCEPT !.pc = "high", !.low = Pop]
      /\ Len(times) >= 2 /\ Len(times) \in Nat
  BY DEF LastTimeLow, TimeInv, Types, Popping
<1>2. /\ Pop = times[1] /\ Pop \in Nat /\ times' = Tail(times)
      /\ times' \in Seq(Nat) /\ Len(times') = Len(times) - 1
  BY <1>1, PopWhole DEF TimeInv, Types
<1>3. /\ tctl' \in [pc : {"high"}, left : Nat, low : Int] /\ tctl'.low = Pop
  <2>1. Pop \in Int /\ tctl \in [pc : {"user", "prepost", "dec", "arm", "low", "high"},
                                left : Nat, low : Int]
    BY <1>2 DEF TimeInv, Types
  <2>2. QED  BY <1>1, <2>1
<1>4. Types' /\ Popping' /\ ArmCounts'
  BY <1>1, <1>2, <1>3 DEF TimeInv, Types, Popping, ArmCounts
<1>5. ASSUME Live' PROVE Run!2'
  <2>1. Live /\ Owed \in Nat /\ Owed = thist.next /\ Owed' = Owed + 1 /\ Coming' = Coming
    BY <1>1, <1>3, <1>5 DEF Live, Owed, Coming, TimeInv, Types
  <2>2. \A i \in 1 .. Len(times) : times[i] = Owed + i - 1
    BY <2>1 DEF TimeInv, Run
  <2>3. times \in Seq(Nat) /\ Len(times) >= 1 /\ 1 \in 1 .. Len(times)
    BY <1>1 DEF TimeInv, Types
  <2>4. Pop = thist.next
    <3>1. times[1] = Owed + 1 - 1
      BY <2>2, <2>3
    <3>2. QED  BY <1>2, <2>1, <3>1
  <2>5. \A i \in 1 .. Len(times') : times'[i] = Owed + 1 + i - 1
    <3>1. \A i \in 1 .. Len(Tail(times)) : Tail(times)[i] = Owed + 1 + i - 1
      BY <2>1, <2>2, <2>3, RunTail
    <3>2. QED  BY <1>2, <3>1
  <2>6. Owed + Len(times) = Coming
    BY <2>1 DEF TimeInv, Run
  <2>7. Owed' + Len(times') = Coming'
    <3>1. Len(times') = Len(times) - 1 /\ Len(times) \in Nat
      BY <1>1, <1>2
    <3>2. QED  BY <2>1, <2>6, <3>1
  <2>8. tctl'.low = thist'.next
    BY <1>1, <1>3, <2>4
  <2>9. \A i \in 1 .. Len(times') : times'[i] = Owed' + i - 1
    BY <2>1, <2>5
  <2>10. QED  BY <2>7, <2>8, <2>9
<1>6. QED  BY <1>4, <1>5 DEF TimeInv, Run

LEMMA HighTaken == TimeInv /\ LastTimeHigh => TimeInv'
<1> SUFFICES ASSUME TimeInv, LastTimeHigh PROVE TimeInv'
  OBVIOUS
<1>1. /\ trec' = trec /\ tctl.pc = "high" /\ times' = Left
      /\ tctl' = [tctl EXCEPT !.pc = "user", !.low = 0]
      /\ thist' = [thist EXCEPT !.next = IF thist.gap = "none" THEN @ + 2 ELSE @]
      /\ Len(times) >= 1 /\ Len(times) \in Nat
  BY DEF LastTimeHigh, TimeInv, Types, Popping
<1>2. /\ Pop \in Nat /\ times' = Tail(times)
      /\ times' \in Seq(Nat) /\ Len(times') = Len(times) - 1
  BY <1>1, PopWhole DEF TimeInv, Types
<1>3. /\ thist' \in [next : Nat, gap : {"none", "lost", "stuck"}]
      /\ thist'.gap = thist.gap
      /\ thist.gap = "none" => thist'.next = thist.next + 2
  <2>1. /\ thist \in [next : Nat, gap : {"none", "lost", "stuck"}]
        /\ thist.next \in Nat /\ thist.next + 2 \in Nat
    BY DEF TimeInv, Types
  <2>2. CASE thist.gap = "none"
    <3>1. thist' = [thist EXCEPT !.next = thist.next + 2]
      BY <1>1, <2>1, <2>2
    <3>2. QED  BY <2>1, <2>2, <3>1
  <2>3. CASE thist.gap # "none"
    <3>1. thist' = [thist EXCEPT !.next = thist.next]
      BY <1>1, <2>1, <2>3
    <3>2. thist' = thist
      BY <2>1, <3>1
    <3>3. QED  BY <2>1, <2>3, <3>2
  <2>4. QED  BY <2>2, <2>3
<1>4. tctl' \in [pc : {"user"}, left : Nat, low : Int]
  <2>1. /\ tctl \in [pc : {"user", "prepost", "dec", "arm", "low", "high"},
                     left : Nat, low : Int]
        /\ 0 \in Int
    BY DEF TimeInv, Types
  <2>2. tctl' = [tctl EXCEPT !.pc = "user", !.low = 0]
    BY <1>1
  <2>3. QED  BY <2>1, <2>2
<1>5. Types' /\ Popping' /\ ArmCounts'
  BY <1>1, <1>2, <1>3, <1>4 DEF TimeInv, Types, Popping, ArmCounts
<1>6. ASSUME Live' PROVE Run!2'
  <2>1. /\ Live /\ thist'.next = thist.next + 2 /\ thist.next \in Nat
        /\ Owed \in Nat /\ Owed' = Owed + 1 /\ Coming' = Coming
    BY <1>1, <1>3, <1>4, <1>6 DEF Live, Owed, Coming, TimeInv, Types
  <2>2. \A i \in 1 .. Len(times) : times[i] = Owed + i - 1
    BY <2>1 DEF TimeInv, Run
  <2>3. \A i \in 1 .. Len(times') : times'[i] = Owed + 1 + i - 1
    <3>1. times \in Seq(Nat) /\ Len(times) >= 1
      BY <1>1 DEF TimeInv, Types
    <3>2. \A i \in 1 .. Len(Tail(times)) : Tail(times)[i] = Owed + 1 + i - 1
      BY <2>1, <2>2, <3>1, RunTail
    <3>3. QED  BY <1>2, <3>2
  <2>4. Owed + Len(times) = Coming
    BY <2>1 DEF TimeInv, Run
  <2>5. Owed' + Len(times') = Coming'
    BY <1>1, <1>2, <2>1, <2>4
  <2>6. \A i \in 1 .. Len(times') : times'[i] = Owed' + i - 1
    BY <2>1, <2>3
  <2>7. tctl'.pc # "high"
    BY <1>4
  <2>8. QED  BY <2>5, <2>6, <2>7
<1>7. QED  BY <1>5, <1>6 DEF TimeInv, Run

(* In every state: the words in the FIFO and in LAST_TIME's hands are the   *)
(* ones owed next, unless one was lost or a STOP came between two words.    *)
THEOREM InStep == ControlSpec => []TimesInStep
<1>1. ControlInit => TimeInv
  BY Start
<1>2. TimeInv /\ [ControlNext]_controlVars => TimeInv'
  <2> SUFFICES ASSUME TimeInv, [ControlNext]_controlVars PROVE TimeInv'
    OBVIOUS
  <2>1. CASE UNCHANGED controlVars
    BY <2>1 DEF controlVars, TimeInv, Types, Popping, ArmCounts, Run, Live, Owed, Coming
  <2>2. CASE ControlNext
    BY <2>2, LowKeeps, HighKeeps, StuckKeeps, ConfigKeeps, ClearKeeps, ArmKeeps,
       ArmedKeeps, StopKeeps, LastKeeps, LowTaken, HighTaken DEF ControlNext
  <2>3. QED  BY <2>1, <2>2
<1>3. TimeInv => TimesInStep
  BY DEF TimeInv, Run, Live, TimesInStep
<1>4. QED  BY <1>1, <1>2, <1>3, PTL DEF ControlSpec

-----------------------------------------------------------------------------
(* A sum of a multiple and a smaller rest comes apart again.                *)
LEMMA Division ==
  ASSUME NEW b \in Nat \ {0}, NEW q \in Nat, NEW r \in 0 .. b - 1
  PROVE  (r + b * q) \div b = q /\ (r + b * q) % b = r
<1> DEFINE a == r + b * q
<1>1. a \in Nat
  OBVIOUS
<1>2. a = b * (a \div b) + (a % b) /\ a % b \in 0 .. b - 1 /\ a \div b \in Int
  BY <1>1
<1>3. QED  BY <1>1, <1>2

LEMMA Flags ==
  ASSUME NEW q \in Nat, NEW a \in 0 .. 1, NEW b \in 0 .. 1, NEW c \in 0 .. 1
  PROVE  LET r == a + 2 * b + 4 * c + 8 * q
         IN  Bit(r, 1) = a /\ Bit(r, 2) = b /\ Bit(r, 4) = c
  BY DEF Bit

(* The decimation in the register is one less, of 0 the greatest.           *)
LEMMA Wraps ==
  ASSUME NEW u \in Nat \ {0}, NEW d \in 0 .. u - 1
  PROVE  (((d - 1) % u) + 1) % u = d
<1>1. CASE d = 0
  <2>1. (d - 1) % u = u - 1
    BY <1>1
  <2>2. u % u = 0
    OBVIOUS
  <2>3. QED  BY <1>1, <2>1, <2>2
<1>2. CASE d # 0
  <2>1. (d - 1) % u = d - 1
    BY <1>2
  <2>2. d % u = d
    OBVIOUS
  <2>3. QED  BY <1>2, <2>1, <2>2
<1>3. QED  BY <1>1, <1>2

(* GET_CONFIG takes apart what SET_CONFIG has packed.                       *)
Packed(c) == [mode |-> ModeReg(c), prepost |-> PrePostReg(c), dec |-> DecReg(c)]

LEMMA ModeApart ==
  ASSUME NEW c \in Requests
  PROVE  /\ Bit(ModeReg(c), 1) = IF c.mode = "STREAMING" THEN 1 ELSE 0
         /\ Bit(ModeReg(c), 2) = IF c.trig_from_chana = 0 THEN 0 ELSE 1
         /\ Bit(ModeReg(c), 4) = IF c.trig_above_threshold = 0 THEN 0 ELSE 1
         /\ (ModeReg(c) \div Byte) % Byte = c.trig_samples
         /\ ModeReg(c) \div Short = c.trig_threshold
<1>1. PICK k \in Nat \ {0} : Byte = 8 * k
  <2>1. Byte \in Nat \ {0} /\ Byte % 8 = 0
    BY ControlAssumption
  <2>2. Byte = 8 * (Byte \div 8) /\ Byte \div 8 \in Nat \ {0}
    BY <2>1
  <2>3. QED  BY <2>2
<1>2. /\ Short = Byte * Byte /\ Byte \in Nat \ {0} /\ Byte >= 8
      /\ c.trig_samples \in 0 .. Byte - 1 /\ c.trig_threshold \in 0 .. Short - 1
      /\ Short \in Nat \ {0}
  <2>1. /\ Short = Byte * Byte /\ Byte \in Nat \ {0}
        /\ c.trig_samples \in 0 .. Byte - 1 /\ c.trig_threshold \in 0 .. Short - 1
    BY ControlAssumption
  <2>2. QED  BY <1>1, <2>1
<1> DEFINE a == IF c.mode = "STREAMING" THEN 1 ELSE 0
           b == IF c.trig_from_chana = 0 THEN 0 ELSE 1
           d == IF c.trig_above_threshold = 0 THEN 0 ELSE 1
           s == c.trig_samples
           t == c.trig_threshold
           f == a + 2 * b + 4 * d
<1>3. /\ a \in 0 .. 1 /\ b \in 0 .. 1 /\ d \in 0 .. 1 /\ f \in 0 .. 7
      /\ ModeReg(c) = f + Byte * s + Short * t
  BY <1>2 DEF ModeReg, Flag
<1>4. s \in 0 .. Byte - 1 /\ t \in 0 .. Short - 1
  BY <1>2
<1> HIDE DEF a, b, d, s, t
<1>5. /\ Bit(ModeReg(c), 1) = a /\ Bit(ModeReg(c), 2) = b /\ Bit(ModeReg(c), 4) = d
  <2> DEFINE q == k * s + k * Byte * t
  <2>1. q \in Nat /\ Byte * s + Short * t = 8 * q
    BY <1>1, <1>2, <1>4
  <2>2. ModeReg(c) = a + 2 * b + 4 * d + 8 * q
    BY <1>2, <1>3, <1>4, <2>1
  <2> HIDE DEF q
  <2>3. QED  BY <1>3, <2>1, <2>2, Flags
<1> HIDE DEF f
<1>6. (ModeReg(c) \div Byte) % Byte = s
  <2> DEFINE q == s + Byte * t
  <2>1. q \in Nat /\ ModeReg(c) = f + Byte * q
    BY <1>2, <1>3, <1>4
  <2>2. f \in 0 .. Byte - 1
    BY <1>2, <1>3
  <2>3. ModeReg(c) \div Byte = q
    <3> HIDE DEF q
    <3> QED  BY <1>2, <2>1, <2>2, Division
  <2>4. (s + Byte * t) % Byte = s
    <3>1. Byte \in Nat \ {0} /\ t \in Nat /\ s \in 0 .. Byte - 1
      BY <1>2, <1>4
    <3>2. QED  BY ONLY <3>1, Division
  <2>5. QED  BY <2>3, <2>4
<1>7. ModeReg(c) \div Short = t
  <2> DEFINE r == f + Byte * s
  <2>1. r \in 0 .. Short - 1
    <3>1. Byte * s <= Byte * (Byte - 1)
      BY <1>2, <1>4
    <3>2. QED  BY <1>2, <1>3, <1>4, <3>1
  <2>2. ModeReg(c) = r + Short * t
    BY <1>3
  <2> HIDE DEF r
  <2>3. Short \in Nat \ {0} /\ t \in Nat
    BY <1>2, <1>4
  <2>4. QED  BY ONLY <2>1, <2>2, <2>3, Division
<1>8. QED  BY <1>5, <1>6, <1>7 DEF a, b, d, s, t

LEMMA ReadBack ==
  ASSUME NEW c \in Requests
  PROVE  Config(Packed(c)) = Plain(c)
<1>1. /\ Short \in Nat \ {0} /\ UInt \in Nat \ {0}
      /\ c \in [mode : {"STREAMING", "EVENT_STREAMING"},
                trig_from_chana : Nat, trig_above_threshold : Nat,
                trig_samples : 0 .. Byte - 1, trig_threshold : 0 .. Short - 1,
                pre_samples : 0 .. Short - 1, post_samples : 0 .. Short - 1,
                decimation : 0 .. UInt - 1]
  BY ControlAssumption DEF UInt
<1>2. /\ PrePostReg(c) % Short = c.post_samples
      /\ PrePostReg(c) \div Short = c.pre_samples
  <2>1. c.post_samples \in 0 .. Short - 1 /\ c.pre_samples \in Nat
    BY <1>1
  <2>2. QED  BY <1>1, <2>1, Division DEF PrePostReg
<1>3. (DecReg(c) + 1) % UInt = c.decimation
  BY <1>1, Wraps DEF DecReg
<1>4. Config(Packed(c)) =
        [mode |-> IF Bit(ModeReg(c), 1) = 1 THEN "STREAMING" ELSE "EVENT_STREAMING",
         trig_from_chana |-> Bit(ModeReg(c), 2),
         trig_above_threshold |-> Bit(ModeReg(c), 4),
         trig_samples |-> c.trig_samples, trig_threshold |-> c.trig_threshold,
         post_samples |-> c.post_samples, pre_samples |-> c.pre_samples,
         decimation |-> c.decimation]
  BY <1>2, <1>3, ModeApart DEF Config, Packed
<1>5. (IF Bit(ModeReg(c), 1) = 1 THEN "STREAMING" ELSE "EVENT_STREAMING") = c.mode
  BY <1>1, ModeApart
<1>6. Plain(c) =
        [mode |-> c.mode,
         trig_from_chana |-> Bit(ModeReg(c), 2),
         trig_above_threshold |-> Bit(ModeReg(c), 4),
         trig_samples |-> c.trig_samples, trig_threshold |-> c.trig_threshold,
         post_samples |-> c.post_samples, pre_samples |-> c.pre_samples,
         decimation |-> c.decimation]
  <2> DEFINE b == Bit(ModeReg(c), 2)
             d == Bit(ModeReg(c), 4)
  <2>1. /\ b = IF c.trig_from_chana = 0 THEN 0 ELSE 1
        /\ d = IF c.trig_above_threshold = 0 THEN 0 ELSE 1
    BY ModeApart
  <2> HIDE DEF b, d
  <2>2. Plain(c) = [c EXCEPT !.trig_from_chana = b, !.trig_above_threshold = d]
    BY <1>1, <2>1 DEF Plain
  <2>3. QED  BY <1>1, <2>2 DEF b, d
<1>7. QED  BY <1>4, <1>5, <1>6

-----------------------------------------------------------------------------
(* The registers hold the last request, as far as SET_CONFIG has come.      *)
RegsAgree ==
  /\ chist.answer = <<>> \/ chist.answer = <<Plain(chist.asked)>>
  /\ tctl.pc \notin {"prepost", "dec"} => Config(regs) = Plain(chist.asked)
  /\ tctl.pc \in {"prepost", "dec"} =>
       chist.asked \in Requests /\ chist.answer = <<>>
       /\ regs.mode = ModeReg(chist.asked)
  /\ tctl.pc = "dec" => regs.prepost = PrePostReg(chist.asked)

Written ==
  /\ regs = [mode |-> regs.mode, prepost |-> regs.prepost, dec |-> regs.dec]
  /\ chist = [asked |-> chist.asked, answer |-> chist.answer]
  /\ tctl = [pc |-> tctl.pc, left |-> tctl.left, low |-> tctl.low]

CInv == Written /\ RegsAgree

LEMMA ReadStart == ControlInit => CInv
<1> SUFFICES ASSUME ControlInit PROVE CInv
  OBVIOUS
<1>1. Written /\ tctl.pc = "user" /\ chist.answer = <<>> /\ chist.asked = Config(regs)
  BY DEF ControlInit, Written
<1>2. regs = [mode |-> 0, prepost |-> 0, dec |-> 0]
  BY DEF ControlInit
<1>3. /\ Bit(0, 2) = 0 /\ Bit(0, 4) = 0
  BY DEF Bit
<1>4. Plain(Config(regs)) = Config(regs)
  <2> DEFINE x == Config(regs)
  <2>1. x.trig_from_chana = 0 /\ x.trig_above_threshold = 0
    BY <1>2, <1>3 DEF Config
  <2>2. x = [x EXCEPT !.trig_from_chana = 0, !.trig_above_threshold = 0]
    BY <2>1 DEF Config
  <2>3. Plain(x) = [x EXCEPT !.trig_from_chana = 0, !.trig_above_threshold = 0]
    BY <2>1 DEF Plain
  <2>4. QED  BY <2>2, <2>3
<1>5. QED  BY <1>1, <1>4 DEF CInv, RegsAgree

(* A step that leaves the configuration alone and is not one of SET_CONFIG.  *)
LEMMA Elsewhere ==
  ASSUME CInv, UNCHANGED <<regs, chist>>, Written',
         tctl' = tctl \/ (tctl.pc \notin {"prepost", "dec"} /\ tctl'.pc \notin {"prepost", "dec"})
  PROVE  CInv'
  BY DEF CInv, RegsAgree

LEMMA ReadSteps == CInv /\ [ControlNext]_controlVars => CInv'
<1> SUFFICES ASSUME CInv, [ControlNext]_controlVars PROVE CInv'
  OBVIOUS
<1>1. CASE UNCHANGED controlVars
  BY <1>1, Elsewhere DEF controlVars, CInv, Written
<1>2. CASE LowWord \/ HighWord \/ StuckWord
  BY <1>2, Elsewhere DEF LowWord, HighWord, StuckWord, CInv, Written
<1>3. CASE TimeClear \/ TimeStop
  <2>1. /\ UNCHANGED <<regs, chist>> /\ tctl.pc = "user"
        /\ tctl' = [tctl EXCEPT !.pc = "user"]
    BY <1>3 DEF TimeClear, TimeStop, Enters
  <2>2. QED  BY <2>1, Elsewhere DEF CInv, Written
<1>4. CASE TimeArm \/ TimeArmPop \/ TimeArmed
  <2>1. UNCHANGED <<regs, chist>> /\ tctl.pc \in {"user", "arm"}
    BY <1>4 DEF TimeArm, TimeArmPop, TimeArmed
  <2>2. Written' /\ tctl'.pc \in {"user", "arm"}
    BY <1>4, <2>1 DEF TimeArm, TimeArmPop, TimeArmed, CInv, Written
  <2>3. QED  BY <2>1, <2>2, Elsewhere
<1>5. CASE LastTime \/ LastTimeLow \/ LastTimeHigh
  <2>1. UNCHANGED <<regs, chist>> /\ tctl.pc \in {"user", "low", "high"}
    BY <1>5 DEF LastTime, LastTimeLow, LastTimeHigh
  <2>2. Written' /\ tctl'.pc \in {"user", "low", "high"}
    BY <1>5, <2>1 DEF LastTime, LastTimeLow, LastTimeHigh, CInv, Written
  <2>3. QED  BY <2>1, <2>2, Elsewhere
<1>6. CASE SetMode
  <2>1. PICK c \in Requests :
          /\ regs' = [regs EXCEPT !.mode = ModeReg(c)]
          /\ chist' = [asked |-> c, answer |-> <<>>]
          /\ tctl' = [tctl EXCEPT !.pc = "prepost"]
    BY <1>6 DEF SetMode, Enters
  <2>2. QED  BY <2>1 DEF CInv, Written, RegsAgree
<1>7. CASE SetPrePost
  <2>1. /\ tctl.pc = "prepost" /\ tctl' = [tctl EXCEPT !.pc = "dec"] /\ chist' = chist
        /\ regs' = [regs EXCEPT !.prepost = PrePostReg(chist.asked)]
    BY <1>7 DEF SetPrePost
  <2>2. QED  BY <2>1 DEF CInv, Written, RegsAgree
<1>8. CASE SetDec
  <2>1. /\ tctl.pc = "dec" /\ tctl' = [tctl EXCEPT !.pc = "user"] /\ chist' = chist
        /\ regs' = [regs EXCEPT !.dec = DecReg(chist.asked)]
    BY <1>8 DEF SetDec
  <2>2. Written' /\ tctl'.pc = "user" /\ regs' = Packed(chist.asked) /\ chist.asked \in Requests
    BY <2>1 DEF CInv, Written, RegsAgree, Packed
  <2>3. Config(regs') = Plain(chist.asked)
    BY <2>2, ReadBack
  <2>4. QED  BY <2>1, <2>2, <2>3 DEF CInv, RegsAgree
<1>9. CASE GetConfig
  <2>1. /\ tctl.pc = "user" /\ tctl' = [tctl EXCEPT !.pc = "user"] /\ regs' = regs
        /\ chist' = [chist EXCEPT !.answer = <<Config(regs)>>]
    BY <1>9 DEF GetConfig, Enters
  <2>2. Written' /\ tctl'.pc = "user" /\ chist'.asked = chist.asked
        /\ chist'.answer = <<Plain(chist.asked)>> /\ Config(regs) = Plain(chist.asked)
    BY <2>1 DEF CInv, Written, RegsAgree
  <2>3. QED  BY <2>1, <2>2 DEF CInv, RegsAgree
<1>10. QED
  BY <1>1, <1>2, <1>3, <1>4, <1>5, <1>6, <1>7, <1>8, <1>9 DEF ControlNext

(* For a byte of any width that has room for the flags, and any requests:  *)
(* GET_CONFIG answers with what SET_CONFIG was last asked for.              *)
THEOREM ReadsBack == ControlSpec => []ConfigRead
<1>1. CInv => ConfigRead
  BY DEF CInv, RegsAgree, ConfigRead
<1>2. QED  BY <1>1, ReadStart, ReadSteps, PTL DEF ControlSpec
=============================================================================
