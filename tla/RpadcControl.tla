----------------------------- MODULE RpadcControl -----------------------------
(***************************************************************************)
(* The ioctls of the ADC driver (rfx_nioadc and mit_jasadc, rpadc_fifo.c)  *)
(* that RpadcFifo leaves out because they do not touch the sample path:    *)
(* SET_CONFIG and GET_CONFIG pack a configuration into three registers,    *)
(* LAST_TIME takes the time of a trigger from the second FIFO as two       *)
(* words, and RESET, CLEAR and ARM empty that FIFO each in its own way.    *)
(*                                                                         *)
(* The program keeps to the order of rpadc_fifo_test.c: it configures,     *)
(* clears and arms when the recorder has come to rest after STOP.          *)
(*                                                                         *)
(* External: the FIFO and the recorder's time stream, as Trarec has it: a  *)
(* low word, a clock later a high word; after a STOP between the two the   *)
(* high word goes on until the next trigger. Word 2k is the low word of    *)
(* trigger k, word 2k + 1 the high one; trec.k is the next trigger.        *)
(***************************************************************************)
EXTENDS Integers, Sequences

CONSTANTS
  TimeLen,      (* FIFO_LEN: words the time FIFO can hold                  *)
  MaxTriggers,  (* bound: triggers in a behaviour                          *)
  Byte, Short,  (* values of an unsigned char and an unsigned short        *)
  Requests      (* configurations a program asks for                       *)

ASSUME ControlAssumption ==
  /\ TimeLen \in Nat \ {0} /\ MaxTriggers \in Nat
  /\ Byte \in Nat \ {0} /\ Byte % 8 = 0 /\ Short = Byte * Byte
  /\ Requests \subseteq
       [mode : {"STREAMING", "EVENT_STREAMING"},
        trig_from_chana : Nat, trig_above_threshold : Nat,
        trig_samples : 0 .. Byte - 1, trig_threshold : 0 .. Short - 1,
        pre_samples : 0 .. Short - 1, post_samples : 0 .. Short - 1,
        decimation : 0 .. Short * Short - 1]

VARIABLES
  regs,   \* mode, pre/post and decimation registers
  times,  \* words in the time FIFO
  trec,   \* the recorder: armed, words it is putting out, triggers so far
  tctl,   \* the thread in ioctl: place, words left to pop, low word
  thist,  \* history of the times, see ControlInit
  chist   \* history of the configuration

controlVars == <<regs, times, trec, tctl, thist, chist>>

UInt == Short * Short

-----------------------------------------------------------------------------
(* Mutant of DecReg: the decimation as it is (a line the source comments    *)
(* out in GET_CONFIG, left in SET_CONFIG).                                  *)
DecRegPlain(c) == c.decimation % UInt

(* SET_CONFIG packs the fields; each fits the bits it is given. The        *)
(* decimator counts from 0, a decimation of 0 wraps.                       *)
Flag(b, weight) == IF b THEN weight ELSE 0

ModeReg(c) ==
  Flag(c.mode = "STREAMING", 1) + Flag(c.trig_from_chana # 0, 2)
    + Flag(c.trig_above_threshold # 0, 4)
    + Byte * c.trig_samples + Short * c.trig_threshold
PrePostReg(c) == c.post_samples + Short * c.pre_samples
DecReg(c)     == (c.decimation - 1) % UInt

(* GET_CONFIG takes them apart again; flags come back as 0 or 1.           *)
Bit(r, weight) == (r \div weight) % 2
Config(r) ==
  [mode                 |-> IF Bit(r.mode, 1) = 1 THEN "STREAMING" ELSE "EVENT_STREAMING",
   trig_from_chana      |-> Bit(r.mode, 2),
   trig_above_threshold |-> Bit(r.mode, 4),
   trig_samples         |-> (r.mode \div Byte) % Byte,
   trig_threshold       |-> r.mode \div Short,
   post_samples         |-> r.prepost % Short,
   pre_samples          |-> r.prepost \div Short,
   decimation           |-> (r.dec + 1) % UInt]

-----------------------------------------------------------------------------
(* The recorder puts a word out; a full FIFO loses it.                     *)
Room == Len(times) < TimeLen
Put(w) ==
  \/ Room /\ times' = Append(times, w) /\ UNCHANGED thist
  \/ ~Room /\ thist' = [thist EXCEPT !.gap = "lost"] /\ UNCHANGED times

LowWord ==
  /\ trec.on /\ trec.mask # "hi" /\ trec.k < MaxTriggers
  /\ Put(2 * trec.k)
  /\ trec' = [trec EXCEPT !.mask = "hi"]
  /\ UNCHANGED <<regs, tctl, chist>>

HighWord ==
  /\ trec.on /\ trec.mask = "hi"
  /\ Put(2 * trec.k + 1)
  /\ trec' = [trec EXCEPT !.mask = "none", !.k = @ + 1]
  /\ UNCHANGED <<regs, tctl, chist>>

(* After a STOP between the words, armed or not, until the next trigger.   *)
StuckWord ==
  /\ trec.mask = "stuck" /\ Room
  /\ times' = Append(times, 2 * trec.k - 1)
  /\ UNCHANGED <<regs, trec, tctl, thist, chist>>

-----------------------------------------------------------------------------
Pop == IF times = <<>> THEN -1 ELSE Head(times)
Left == IF times = <<>> THEN <<>> ELSE Tail(times)

Enters(place) == tctl.pc = "user" /\ tctl' = [tctl EXCEPT !.pc = place]
AtRest == ~trec.on

SetMode ==
  /\ AtRest /\ Enters("prepost")
  /\ \E c \in Requests :
       /\ regs' = [regs EXCEPT !.mode = ModeReg(c)]
       /\ chist' = [asked |-> c, answer |-> <<>>]
  /\ UNCHANGED <<times, trec, thist>>

SetPrePost ==
  /\ tctl.pc = "prepost" /\ tctl' = [tctl EXCEPT !.pc = "dec"]
  /\ regs' = [regs EXCEPT !.prepost = PrePostReg(chist.asked)]
  /\ UNCHANGED <<times, trec, thist, chist>>

SetDec ==
  /\ tctl.pc = "dec" /\ tctl' = [tctl EXCEPT !.pc = "user"]
  /\ regs' = [regs EXCEPT !.dec = DecReg(chist.asked)]
  /\ UNCHANGED <<times, trec, thist, chist>>

GetConfig ==
  /\ Enters("user")
  /\ chist' = [chist EXCEPT !.answer = <<Config(regs)>>]
  /\ UNCHANGED <<regs, times, trec, thist>>

(* RESET and CLEAR, of which only the effect on the time FIFO is here.     *)
TimeClear ==
  /\ AtRest /\ Enters("user")
  /\ times' = <<>>
  /\ UNCHANGED <<regs, trec, thist, chist>>

(* ARM: read the occupancy, pop so many words, arm the recorder.           *)
TimeArm ==
  /\ AtRest /\ tctl.pc = "user"
  /\ tctl' = [tctl EXCEPT !.pc = "arm", !.left = Len(times)]
  /\ UNCHANGED <<regs, times, trec, thist, chist>>

(* Mutant of TimeArmPop: the time FIFO is not emptied.                      *)
TimeArmPopNothing ==
  /\ tctl.pc = "arm" /\ tctl.left > 0
  /\ tctl' = [tctl EXCEPT !.left = 0]
  /\ UNCHANGED <<regs, times, trec, thist, chist>>

TimeArmPop ==
  /\ tctl.pc = "arm" /\ tctl.left > 0
  /\ times' = Left
  /\ tctl' = [tctl EXCEPT !.left = @ - 1]
  /\ UNCHANGED <<regs, trec, thist, chist>>

TimeArmed ==
  /\ tctl.pc = "arm" /\ tctl.left = 0
  /\ tctl' = [tctl EXCEPT !.pc = "user"]
  /\ trec' = [trec EXCEPT !.on = TRUE]
  /\ thist' = [thist EXCEPT !.next = 2 * trec.k,
                            !.gap = IF trec.mask = "stuck" THEN "stuck" ELSE "none"]
  /\ UNCHANGED <<regs, times, chist>>

TimeStop ==
  /\ Enters("user")
  /\ IF trec.mask = "hi"
       THEN /\ trec' = [trec EXCEPT !.on = FALSE, !.mask = "stuck", !.k = @ + 1]
            /\ thist' = [thist EXCEPT !.gap = "stuck"]
       ELSE /\ trec' = [trec EXCEPT !.on = FALSE]
            /\ UNCHANGED thist
  /\ UNCHANGED <<regs, times, chist>>

(* LAST_TIME: refused if the FIFO is full (it may have lost a word) or     *)
(* does not hold a pair; else two reads of the data register, of which the *)
(* second completes the answer (tctl.low, Pop).                            *)
LastTime ==
  /\ tctl.pc = "user" /\ Len(times) < TimeLen /\ Len(times) >= 2
  /\ tctl' = [tctl EXCEPT !.pc = "low"]
  /\ UNCHANGED <<regs, times, trec, thist, chist>>

LastTimeLow ==
  /\ tctl.pc = "low"
  /\ tctl' = [tctl EXCEPT !.pc = "high", !.low = Pop]
  /\ times' = Left
  /\ UNCHANGED <<regs, trec, thist, chist>>

LastTimeHigh ==
  /\ tctl.pc = "high"
  /\ tctl' = [tctl EXCEPT !.pc = "user", !.low = 0]
  /\ times' = Left
  /\ thist' = [thist EXCEPT !.next = IF thist.gap = "none" THEN @ + 2 ELSE @]
  /\ UNCHANGED <<regs, trec, chist>>

-----------------------------------------------------------------------------
ControlInit ==
  /\ regs = [mode |-> 0, prepost |-> 0, dec |-> 0]
  /\ times = <<>>
  /\ trec = [on |-> FALSE, mask |-> "none", k |-> 0]
  /\ tctl = [pc |-> "user", left |-> 0, low |-> 0]
  /\ thist = [next |-> 0,          \* word that LAST_TIME owes next
              gap |-> "none"]      \* since ARM: the FIFO has "lost" a word, or
                                   \* a STOP has left the high word "stuck"
  /\ chist = [asked |-> Config(regs),   \* what SET_CONFIG was last asked for
              answer |-> <<>>]          \* what GET_CONFIG has answered since

ControlNext ==
  \/ LowWord \/ HighWord \/ StuckWord
  \/ SetMode \/ SetPrePost \/ SetDec \/ GetConfig
  \/ TimeClear \/ TimeArm \/ TimeArmPop \/ TimeArmed \/ TimeStop
  \/ LastTime \/ LastTimeLow \/ LastTimeHigh

ControlSpec == ControlInit /\ [][ControlNext]_controlVars

-----------------------------------------------------------------------------
(* The times stay in step: the words in the FIFO and in LAST_TIME's hands  *)
(* are the ones owed next, so that each pair is the low and the high word  *)
(* of one trigger and no trigger since ARM is skipped; until the FIFO has  *)
(* lost a word or the recorder was stopped between two words.              *)
Owed == IF tctl.pc = "high" THEN thist.next + 1 ELSE thist.next
TimesInStep ==
  trec.on /\ thist.gap = "none" =>
    /\ \A i \in 1 .. Len(times) : times[i] = Owed + i - 1
    /\ tctl.pc = "high" => tctl.low = thist.next

(* GET_CONFIG answers with what SET_CONFIG was asked for, flags as 0 or 1, *)
(* for every field at its limits.                                          *)
Plain(c) == [c EXCEPT !.trig_from_chana = IF @ = 0 THEN 0 ELSE 1,
                      !.trig_above_threshold = IF @ = 0 THEN 0 ELSE 1]
ConfigRead == \A i \in DOMAIN chist.answer : chist.answer[i] = Plain(chist.asked)
=============================================================================
