----------------------------- MODULE RpadcSession -----------------------------
(***************************************************************************)
(* RpadcFifo as a data-acquisition program uses it, in the order of        *)
(* rpadc_fifo_test.c: open, stop, configure, clear, reset, arm, trigger;   *)
(* then threads read while another may stop the acquisition; then the next *)
(* acquisition or close. The program configures only between acquisitions, *)
(* and it arms only when the driver has come to rest (the test sleeps for  *)
(* a second after STOP and for 10 us after each call): the recorder is     *)
(* idle, no interrupt is being served or latched, nobody is reading.       *)
(*                                                                         *)
(* Three history variables follow the current acquisition.                 *)
(***************************************************************************)
EXTENDS RpadcFifo

VARIABLES
  acquiring,   \* from ARM's command to the recorder to STOP or release
  base,        \* samples the recorder had emitted when it was armed
  delivered,   \* words read() has given to the program since
  lost         \* a sample has been lost since

history == <<acquiring, base, delivered, lost>>
sessionVars == <<vars, history>>

Quiet ==
  /\ rec = "IDLE" /\ hpc = "idle" /\ ~pend
  /\ \A r \in Readers : rpc[r] = "user"

-----------------------------------------------------------------------------
SessionInit ==
  /\ Init
  /\ acquiring = FALSE /\ base = 0 /\ delivered = <<>> /\ lost = FALSE

(* Samples that the FIFO or the full ring had no room for.                 *)
Lose ==
  /\ EmitLost \/ IrqAbort
  /\ lost' = TRUE /\ UNCHANGED <<acquiring, base, delivered>>

Take(r) ==
  /\ ReadBufTake(r)
  /\ delivered' = IF acquiring /\ rcnt[r] > 0 THEN Append(delivered, Data(r)) ELSE delivered
  /\ UNCHANGED <<acquiring, base, lost>>

Begin ==
  /\ ArmCmd
  /\ acquiring' = TRUE /\ base' = next - 1 /\ delivered' = <<>> /\ lost' = FALSE

End ==
  /\ Stop \/ ReleaseMask
  /\ acquiring' = FALSE /\ UNCHANGED <<base, delivered, lost>>

(* Calls the program makes only between acquisitions.                      *)
Configure == Reset \/ Clear \/ GetSr \/ SetInterrupt \/ SetBufSize

Hardware == Emit \/ TriggerIn

Handler == \/ IrqEnter \/ IrqMask \/ IrqCheck \/ IrqPop \/ WriteBufLock
           \/ WriteBufStore \/ IrqExit

Step(r) == \/ ReadTest(r) \/ ReadWait(r) \/ ReadWoken(r) \/ ReadOcc(r)
           \/ ReadBufLock(r) \/ ReadReturn(r)

Finish == \/ ReleaseFree \/ ResetFlag \/ ClearIer \/ ArmPop \/ ArmIndex
          \/ ArmCount \/ ArmFlag \/ StopWake \/ StopFlag

Other ==
  /\ \/ Hardware \/ Handler \/ Finish \/ Open \/ Trigger
     \/ ~armed /\ Configure
     \/ Quiet /\ Arm
     \/ \E r \in Readers : Step(r) \/ ReadSignal(r) \/ (armed /\ ReadCall(r))
  /\ UNCHANGED history

SessionNext == Lose \/ Begin \/ End \/ Other \/ \E r \in Readers : Take(r)

SessionSpec == SessionInit /\ [][SessionNext]_sessionVars

(* The kernel runs interrupt handlers and runnable threads; the program's  *)
(* reading thread calls read() again and again. Nothing makes the recorder *)
(* emit, the program stop, or a signal arrive.                             *)
Fairness ==
  /\ WF_sessionVars(Handler /\ UNCHANGED history)
  /\ WF_sessionVars(IrqAbort /\ Lose)
  /\ WF_sessionVars(Finish /\ UNCHANGED history)
  /\ WF_sessionVars(Begin)
  /\ \A r \in Readers :
       /\ WF_sessionVars(Step(r) /\ UNCHANGED history)
       /\ WF_sessionVars(Take(r))
       /\ WF_sessionVars(armed /\ ReadCall(r) /\ UNCHANGED history)

FairSpec == SessionSpec /\ Fairness

-----------------------------------------------------------------------------

(* The words of the running acquisition on their way to the program, the   *)
(* next one to be delivered first: in the ring, in the handler's hand, in  *)
(* the FIFO.                                                               *)
Ring   == [k \in 1 .. bufCount |-> Load(fifoBuffer, (rIdx + k - 1) % bufSize)]
InHand == IF hpc \in {"lock", "store"} THEN <<cur>> ELSE <<>>
Transit == IF acquiring THEN Ring \o InHand \o fifo ELSE <<>>

(* Interrupt handler, readers and FPGA share the samples of an acquisition *)
(* without losing, repeating or reordering one: what read() has returned,  *)
(* followed by what is on its way, is every sample since the arming, until *)
(* the FIFO or the ring overflows.                                         *)
Conservation ==
  acquiring /\ ~lost =>
    delivered \o Transit = [k \in 1 .. next - 1 - base |-> base + k]

(* readBuf's underflow, "Should never happen", does not happen to a single *)
(* reading thread while the acquisition runs: only the handler changes     *)
(* bufCount under its feet, and only upwards.                              *)
NoUnderflow ==
  acquiring => \A r \in Readers : rpc[r] = "take" => rcnt[r] > 0

(* No lost wake-up: if words are in the ring and a thread sleeps on readq, *)
(* then the handler is on its way to wake_up, and not to the overflow      *)
(* return that skips it, or STOP is. Needs a ring at least as long as the  *)
(* FIFO: one interrupt may otherwise fill it and leave without waking.     *)
WakeDue ==
  \/ cpc = "stop_wake"
  \/ hpc \in {"loop", "lock", "store"} /\ (hpc = "lock" => bufCount < bufSize)
NoLostWakeup ==
  \A r \in Readers : rpc[r] = "sleep" /\ bufCount > 0 => WakeDue

(* In first-sample mode a sample that has left the recorder while IRQ_cb   *)
(* runs or may be called is eventually returned by read(), unless the      *)
(* acquisition ends, overflows or loses one.                               *)
Delivery ==
  \A k \in 1 .. MaxSamples :
    acquiring /\ ~fifoHalfInterrupt /\ (hpc # "idle" \/ ier = {"RC"}) /\ next > k /\ base < k
      ~> ~acquiring \/ lost \/ fifoOverflow \/ \E i \in 1 .. Len(delivered) : delivered[i] = k

(* STOP releases a thread that it finds asleep in read(): the thread gets  *)
(* back to its caller, though STOP wakes it before it clears the flag the  *)
(* thread tests next. (A thread that takes STOP's pretended word, calls    *)
(* read() again and falls asleep before STOP wakes is not released.)       *)
StopReleases ==
  \A r \in Readers :
    cpc = "stop_wake" /\ rpc[r] = "sleep" /\ bufCount > 0 ~> rpc[r] = "user"

(* The acquisition implements the abstract stream.                         *)
Stream == INSTANCE SampleStream
  WITH on <- acquiring, sent <- next - 1, transit <- Transit, out <- delivered
StreamSpec == Stream!Spec
=============================================================================
