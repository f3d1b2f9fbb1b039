------------------------------ MODULE XadcProofs ------------------------------
(***************************************************************************)
(* What the XADC driver promises, for every set of channels, top value,    *)
(* device tree, clock and number of calls.                                 *)
(*                                                                         *)
(* The AXI cores: AxiInv (the shared registers and the trigger handler's   *)
(* memory follow what the callers hold) gives ScanPushed and AxiConfig.    *)
(*                                                                         *)
(* The Zynq: EventInv (whatever the handler may report is due) gives       *)
(* EventTruth; with AccessInv (where an access is between its command and  *)
(* its answer) TrueReads; with ConfigInv (the last write on its way to a   *)
(* register is the driver's value) ConfigTaken. A lemma XDoes states what   *)
(* an action does to each field.                                           *)
(***************************************************************************)
EXTENDS Xadc, TLAPS, FiniteSetTheorems, SequenceTheorems, WellFoundedInduction


(* The numberings lead back and forth.                                      *)
LEMMA Numberings ==
  /\ \A a \in Bit : ToAxi(a) # EOS /\ FromAxi(ToAxi(a)) = a
  /\ \A a, b \in Bit : Disable(a) = Disable(b) => a = b
  /\ \A c \in Channel : AlarmOf(c) \in Bit \ {0} /\ EventChannel(AlarmOf(c)) = c
<1>1. \A a \in Bit : ToAxi(a) # EOS /\ FromAxi(ToAxi(a)) = a
  BY DEF Bit, EOS, ToAxi, FromAxi
<1>2. \A a, b \in Bit : Disable(a) = Disable(b) => a = b
  BY DEF Bit, Disable
<1>3. \A c \in Channel : AlarmOf(c) \in Bit \ {0} /\ EventChannel(AlarmOf(c)) = c
  BY DEF Channel, Temp, Bit, AlarmOf, EventChannel
<1>4. QED  BY <1>1, <1>2, <1>3

Shaped ==
  /\ sysmon = [on |-> sysmon.on, mode |-> sysmon.mode, dis |-> sysmon.dis, pd |-> sysmon.pd,
               div |-> sysmon.div, seq0 |-> sysmon.seq0, seq1 |-> sysmon.seq1,
               isr |-> sysmon.isr, ier |-> sysmon.ier]
  /\ axi = [alarm_mask |-> axi.alarm_mask, trigger |-> axi.trigger, data |-> axi.data,
            scans |-> axi.scans]
  /\ buf = [pc |-> buf.pc, todo |-> buf.todo, scan |-> buf.scan]
  /\ airq = [pc |-> airq.pc, status |-> airq.status]
  /\ thread = [pc |-> thread.pc, left |-> thread.left, data |-> thread.data]
  /\ ahist = [ops |-> ahist.ops, seen |-> ahist.seen, ec |-> ahist.ec]

(* Only the alarms of the channels that have events occur and are enabled; *)
(* what the status registers hold has occurred.                             *)
Used == {AlarmOf(c) : c \in EventChannels}
Served(s) == \A b \in s \ {EOS} : \E a \in ahist.seen : b = ToAxi(a)
Truth ==
  /\ axi.alarm_mask \subseteq Used /\ sysmon.on \subseteq Used /\ ahist.seen \subseteq Used
  /\ Served(sysmon.isr) /\ Served(airq.status)

(* Registers that several callers write.                                   *)
Together ==
  /\ axi.trigger \in {"none"} \cup Triggers
  /\ sysmon.ier = {ToAxi(a) : a \in axi.alarm_mask}
                    \cup (IF axi.trigger = "none" THEN {} ELSE {EOS})
  /\ \A a \in Bit : \/ ahist.ec /\ Disable(a) = EC
                    \/ (Disable(a) \in sysmon.dis <=> a \notin axi.alarm_mask)

-----------------------------------------------------------------------------
(* What the steps do to the records.                                        *)
Core(c) == c = [on |-> c.on, mode |-> c.mode, dis |-> c.dis, pd |-> c.pd, div |-> c.div,
                seq0 |-> c.seq0, seq1 |-> c.seq1, isr |-> c.isr, ier |-> c.ier]
Seqs(c) == <<c.mode, c.seq0, c.seq1, c.pd>>

(* A change that latches the alarms it raises.                              *)
LatchedTo(on, dis, ier, isr, ec) ==
  \E rise \in SUBSET on :
    /\ sysmon'.on = on /\ sysmon'.dis = dis /\ sysmon'.ier = ier
    /\ sysmon'.isr = isr \cup {ToAxi(a) : a \in rise}
    /\ ahist'.seen = ahist.seen \cup rise /\ ahist'.ec = ec

LEMMA Latches ==
  ASSUME NEW new, NEW hist1, Latched(new, hist1), Core(new),
         hist1 = [ops |-> hist1.ops, seen |-> ahist.seen, ec |-> hist1.ec]
  PROVE  /\ Core(sysmon') /\ ahist' = [ops |-> ahist'.ops, seen |-> ahist'.seen, ec |-> ahist'.ec]
         /\ LatchedTo(new.on, new.dis, new.ier, new.isr, hist1.ec)
         /\ Seqs(sysmon') = Seqs(new) /\ sysmon'.div = new.div
<1> DEFINE rise == Asserted(new) \ Asserted(sysmon)
<1>1. rise \in SUBSET new.on
  BY DEF Asserted
<1>2. /\ sysmon' = [new EXCEPT !.isr = @ \cup {ToAxi(a) : a \in rise}]
      /\ ahist' = [hist1 EXCEPT !.seen = @ \cup rise]
  BY DEF Latched
<1> HIDE DEF rise
<1>3. /\ sysmon' = [on |-> new.on, mode |-> new.mode, dis |-> new.dis, pd |-> new.pd,
                    div |-> new.div, seq0 |-> new.seq0, seq1 |-> new.seq1,
                    isr |-> new.isr \cup {ToAxi(a) : a \in rise}, ier |-> new.ier]
      /\ ahist' = [ops |-> hist1.ops, seen |-> ahist.seen \cup rise, ec |-> hist1.ec]
  <2>1. new = [on |-> new.on, mode |-> new.mode, dis |-> new.dis, pd |-> new.pd, div |-> new.div,
               seq0 |-> new.seq0, seq1 |-> new.seq1, isr |-> new.isr, ier |-> new.ier]
    BY DEF Core
  <2>2. \A x : [new EXCEPT !.isr = x] =
               [on |-> new.on, mode |-> new.mode, dis |-> new.dis, pd |-> new.pd, div |-> new.div,
                seq0 |-> new.seq0, seq1 |-> new.seq1, isr |-> x, ier |-> new.ier]
    BY ONLY <2>1
  <2>3. \A x : [hist1 EXCEPT !.seen = x] = [ops |-> hist1.ops, seen |-> x, ec |-> hist1.ec]
    OBVIOUS
  <2>4. new.isr = new.isr /\ hist1.seen = ahist.seen
    OBVIOUS
  <2>5. sysmon' = [new EXCEPT !.isr = new.isr \cup {ToAxi(a) : a \in rise}]
    BY ONLY <1>2
  <2>6. ahist' = [hist1 EXCEPT !.seen = ahist.seen \cup rise]
    BY ONLY <1>2, <2>4
  <2>7. QED  BY ONLY <2>2, <2>3, <2>5, <2>6
<1>4. Core(sysmon') /\ ahist' = [ops |-> ahist'.ops, seen |-> ahist'.seen, ec |-> ahist'.ec]
  BY <1>3 DEF Core
<1>5. Seqs(sysmon') = Seqs(new) /\ sysmon'.div = new.div
  BY <1>3 DEF Seqs
<1>6. LatchedTo(new.on, new.dis, new.ier, new.isr, hist1.ec)
  BY <1>1, <1>3 DEF LatchedTo
<1>7. QED  BY <1>4, <1>5, <1>6

(* A record after a change of some of its fields.                          *)
LEMMA HistWith ==
  ASSUME NEW h, h = [ops |-> h.ops, seen |-> h.seen, ec |-> h.ec], NEW e
  PROVE  [h EXCEPT !.ec = e] = [ops |-> h.ops, seen |-> h.seen, ec |-> e]
OBVIOUS

LEMMA ToggleDoes ==
  ASSUME Shaped, ToggleAxi
  PROVE  /\ Shaped' /\ UNCHANGED <<axi, buf, airq, thread, sysmon.div>>
         /\ Seqs(sysmon') = Seqs(sysmon)
         /\ \E c \in EventChannels : \E on \in SUBSET (sysmon.on \cup {AlarmOf(c)}) :
              LatchedTo(on, sysmon.dis, sysmon.ier, sysmon.isr, ahist.ec)
<1>1. PICK c \in EventChannels :
        Latched([sysmon EXCEPT !.on = IF AlarmOf(c) \in @ THEN @ \ {AlarmOf(c)} ELSE @ \cup {AlarmOf(c)}], ahist)
  BY DEF ToggleAxi
<1> DEFINE on == IF AlarmOf(c) \in sysmon.on THEN sysmon.on \ {AlarmOf(c)} ELSE sysmon.on \cup {AlarmOf(c)}
           new == [sysmon EXCEPT !.on = on]
<1>2. on \in SUBSET (sysmon.on \cup {AlarmOf(c)})
  OBVIOUS
<1>3. Latched(new, ahist)
  BY <1>1 DEF Shaped
<1> HIDE DEF on
<1>4. /\ Core(new) /\ Seqs(new) = Seqs(sysmon) /\ new.div = sysmon.div
      /\ new.on = on /\ new.dis = sysmon.dis /\ new.ier = sysmon.ier /\ new.isr = sysmon.isr
  BY DEF Shaped, Core, Seqs
<1> HIDE DEF new
<1>5. ahist = [ops |-> ahist.ops, seen |-> ahist.seen, ec |-> ahist.ec]
  BY DEF Shaped
<1>6. /\ Core(sysmon') /\ ahist' = [ops |-> ahist'.ops, seen |-> ahist'.seen, ec |-> ahist'.ec]
      /\ LatchedTo(new.on, new.dis, new.ier, new.isr, ahist.ec) /\ Seqs(sysmon') = Seqs(sysmon) /\ sysmon'.div = sysmon.div
  BY <1>3, <1>4, <1>5, Latches
<1>7. UNCHANGED <<axi, buf, airq, thread>>
  BY DEF ToggleAxi
<1>8. Shaped'
  BY <1>6, <1>7 DEF Shaped, Core
<1>9. QED  BY <1>2, <1>4, <1>6, <1>7, <1>8

LEMMA EventConfigDoes ==
  ASSUME Shaped, WriteEventConfigAxi
  PROVE  /\ Shaped' /\ UNCHANGED <<buf, airq, thread, sysmon.div>>
         /\ UNCHANGED <<axi.trigger, axi.data, axi.scans>>
         /\ Seqs(sysmon') = Seqs(sysmon)
         /\ \E c \in EventChannels : axi'.alarm_mask \subseteq axi.alarm_mask \cup {AlarmOf(c)}
         /\ LatchedTo(sysmon.on, Disabled(axi'.alarm_mask),
                      (sysmon.ier \cap {EOS}) \cup {ToAxi(a) : a \in axi'.alarm_mask},
                      sysmon.isr, FALSE)
<1>1. PICK c \in EventChannels, on \in BOOLEAN :
        LET mask == IF on THEN axi.alarm_mask \cup {AlarmOf(c)} ELSE axi.alarm_mask \ {AlarmOf(c)}
            ier  == (sysmon.ier \cap {EOS}) \cup {ToAxi(a) : a \in mask}
        IN /\ axi' = [axi EXCEPT !.alarm_mask = mask]
           /\ Latched([sysmon EXCEPT !.ier = ier, !.dis = Disabled(mask)],
                      [Counted EXCEPT !.ec = FALSE])
  BY DEF WriteEventConfigAxi
<1> DEFINE mask == IF on THEN axi.alarm_mask \cup {AlarmOf(c)} ELSE axi.alarm_mask \ {AlarmOf(c)}
           ier  == (sysmon.ier \cap {EOS}) \cup {ToAxi(a) : a \in mask}
           dis  == Disabled(mask)
           new  == [sysmon EXCEPT !.ier = ier, !.dis = dis]
           hist1 == [Counted EXCEPT !.ec = FALSE]
<1>2. mask \subseteq axi.alarm_mask \cup {AlarmOf(c)}
  OBVIOUS
<1>3. axi' = [axi EXCEPT !.alarm_mask = mask] /\ Latched(new, hist1)
  BY <1>1
<1> HIDE DEF mask
<1>4. /\ axi'.alarm_mask = mask /\ UNCHANGED <<axi.trigger, axi.data, axi.scans>>
      /\ axi' = [alarm_mask |-> axi'.alarm_mask, trigger |-> axi'.trigger, data |-> axi'.data,
                 scans |-> axi'.scans]
  BY <1>3 DEF Shaped
<1>6. /\ Core(new) /\ Seqs(new) = Seqs(sysmon) /\ new.div = sysmon.div
      /\ new.on = sysmon.on /\ new.dis = dis /\ new.ier = ier /\ new.isr = sysmon.isr
  <2> HIDE DEF ier, dis
  <2> DEFINE rec(d, e) == [on |-> sysmon.on, mode |-> sysmon.mode, dis |-> d, pd |-> sysmon.pd,
                           div |-> sysmon.div, seq0 |-> sysmon.seq0, seq1 |-> sysmon.seq1,
                           isr |-> sysmon.isr, ier |-> e]
  <2>1. [sysmon EXCEPT !.ier = ier] = rec(sysmon.dis, ier)
    BY DEF Shaped
  <2>2. [rec(sysmon.dis, ier) EXCEPT !.dis = dis] = rec(dis, ier)
    OBVIOUS
  <2>3. new = rec(dis, ier)
    BY <2>1, <2>2
  <2>4. QED  BY <2>3 DEF Core, Seqs
<1> HIDE DEF new
<1>23. Counted = [ops |-> ahist.ops + 1, seen |-> ahist.seen, ec |-> ahist.ec]
  BY DEF Shaped, Counted
<1>24. hist1 = [ops |-> Counted.ops, seen |-> Counted.seen, ec |-> FALSE]
  <2>1. Counted = [ops |-> Counted.ops, seen |-> Counted.seen, ec |-> Counted.ec]
    BY <1>23
  <2>2. QED  BY ONLY <2>1, HistWith
<1>7. hist1 = [ops |-> hist1.ops, seen |-> ahist.seen, ec |-> hist1.ec] /\ hist1.ec = FALSE
  BY <1>23, <1>24
<1> HIDE DEF hist1
<1>8. /\ Core(sysmon') /\ ahist' = [ops |-> ahist'.ops, seen |-> ahist'.seen, ec |-> ahist'.ec]
      /\ LatchedTo(new.on, new.dis, new.ier, new.isr, hist1.ec) /\ Seqs(sysmon') = Seqs(sysmon) /\ sysmon'.div = sysmon.div
  BY <1>3, <1>6, <1>7, Latches
<1>9. UNCHANGED <<buf, airq, thread>>
  BY DEF WriteEventConfigAxi
<1>10. Shaped'
  BY <1>4, <1>8, <1>9 DEF Shaped, Core
<1>11. QED  BY <1>2, <1>4, <1>6, <1>7, <1>8, <1>9, <1>10

LEMMA SetTriggerDoes ==
  ASSUME Shaped, NEW t, SetTrigger(t), UNCHANGED <<airq, thread>>,
         buf' = [pc |-> buf'.pc, todo |-> buf'.todo, scan |-> buf'.scan]
  PROVE  /\ Shaped' /\ UNCHANGED <<sysmon.div, axi.alarm_mask, axi.data, axi.scans>>
         /\ axi'.trigger = t /\ Seqs(sysmon') = Seqs(sysmon)
         /\ LatchedTo(sysmon.on, IF t = "convst" THEN sysmon.dis \cup {EC} ELSE sysmon.dis \ {EC},
                      sysmon.ier \cup {EOS}, sysmon.isr \ (sysmon.ier \cap {EOS}), TRUE)
<1> DEFINE new == [sysmon EXCEPT !.dis = IF t = "convst" THEN @ \cup {EC} ELSE @ \ {EC},
                                 !.ier = @ \cup {EOS}, !.isr = @ \ (sysmon.ier \cap {EOS})]
           dis == IF t = "convst" THEN sysmon.dis \cup {EC} ELSE sysmon.dis \ {EC}
           ier == sysmon.ier \cup {EOS}
           isr == sysmon.isr \ (sysmon.ier \cap {EOS})
           hist1 == [ahist EXCEPT !.ec = TRUE]
<1>1. axi' = [axi EXCEPT !.trigger = t] /\ Latched(new, hist1)
  BY DEF SetTrigger
<1>2. /\ Core(new) /\ Seqs(new) = Seqs(sysmon) /\ new.div = sysmon.div
      /\ new.on = sysmon.on /\ new.dis = dis /\ new.ier = ier /\ new.isr = isr
  <2> HIDE DEF dis, ier, isr
  <2> DEFINE rec(d, i, e) == [on |-> sysmon.on, mode |-> sysmon.mode, dis |-> d, pd |-> sysmon.pd,
                              div |-> sysmon.div, seq0 |-> sysmon.seq0, seq1 |-> sysmon.seq1,
                              isr |-> i, ier |-> e]
  <2>1. [sysmon EXCEPT !.dis = dis] = rec(dis, sysmon.isr, sysmon.ier)
    BY DEF Shaped
  <2>2. [rec(dis, sysmon.isr, sysmon.ier) EXCEPT !.ier = ier] = rec(dis, sysmon.isr, ier)
    OBVIOUS
  <2>3. [rec(dis, sysmon.isr, ier) EXCEPT !.isr = isr] = rec(dis, isr, ier)
    OBVIOUS
  <2>4. [sysmon EXCEPT !.dis = dis, !.ier = ier, !.isr = isr] = rec(dis, isr, ier)
    BY <2>1, <2>2, <2>3
  <2>5. [sysmon EXCEPT !.dis = dis, !.ier = ier, !.isr = isr] = new
    BY DEF Shaped, dis, ier, isr
  <2> HIDE DEF new
  <2>6. QED  BY <2>4, <2>5 DEF Core, Seqs
<1>23. hist1 = [ops |-> ahist.ops, seen |-> ahist.seen, ec |-> TRUE]
  <2>1. ahist = [ops |-> ahist.ops, seen |-> ahist.seen, ec |-> ahist.ec]
    BY DEF Shaped
  <2>2. QED  BY ONLY <2>1, HistWith
<1>3. hist1 = [ops |-> hist1.ops, seen |-> ahist.seen, ec |-> hist1.ec] /\ hist1.ec = TRUE
  BY <1>23
<1> HIDE DEF hist1, new
<1>4. /\ Core(sysmon') /\ ahist' = [ops |-> ahist'.ops, seen |-> ahist'.seen, ec |-> ahist'.ec]
      /\ LatchedTo(new.on, new.dis, new.ier, new.isr, TRUE) /\ Seqs(sysmon') = Seqs(sysmon) /\ sysmon'.div = sysmon.div
  BY <1>1, <1>2, <1>3, Latches
<1>5. /\ axi'.trigger = t /\ UNCHANGED <<axi.alarm_mask, axi.data, axi.scans>>
      /\ axi' = [alarm_mask |-> axi'.alarm_mask, trigger |-> axi'.trigger, data |-> axi'.data,
                 scans |-> axi'.scans]
  BY <1>1 DEF Shaped
<1>6. Shaped'
  BY <1>4, <1>5 DEF Shaped, Core
<1>7. QED  BY <1>2, <1>4, <1>5, <1>6

LEMMA ClearTriggerDoes ==
  ASSUME Shaped, ClearTrigger, UNCHANGED <<airq, thread, ahist>>,
         buf' = [pc |-> buf'.pc, todo |-> buf'.todo, scan |-> buf'.scan]
  PROVE  /\ Shaped' /\ UNCHANGED <<sysmon.on, sysmon.dis, sysmon.div>>
         /\ UNCHANGED <<axi.alarm_mask, axi.data, axi.scans>>
         /\ axi'.trigger = "none" /\ Seqs(sysmon') = Seqs(sysmon)
         /\ sysmon'.ier = sysmon.ier \ {EOS} /\ sysmon'.isr \subseteq sysmon.isr
<1>1. /\ axi' = [axi EXCEPT !.trigger = "none"]
      /\ sysmon' = [sysmon EXCEPT !.ier = @ \ {EOS}, !.isr = @ \ (sysmon.ier \cap {EOS})]
  BY DEF ClearTrigger
<1>2. QED  BY <1>1 DEF Shaped, Seqs

LEMMA BufferStepDoes ==
  ASSUME Shaped, BufferStep
  PROVE  /\ Shaped' /\ UNCHANGED <<axi, airq, thread, sysmon.div, buf.pc, buf.scan>>
         /\ buf.todo # <<>> /\ buf'.todo = Tail(buf.todo)
         /\ Seqs(sysmon') = Seqs(Apply(Head(buf.todo)))
         /\ LatchedTo(sysmon.on, sysmon.dis, sysmon.ier, sysmon.isr, ahist.ec)
<1> DEFINE u == Head(buf.todo)
           new == Apply(u)
<1>1. Latched(new, ahist) /\ buf' = [buf EXCEPT !.todo = Tail(@)] /\ buf.todo # <<>>
      /\ UNCHANGED <<axi, airq, thread>>
  BY DEF BufferStep
<1> HIDE DEF u
<1>2. /\ Core(new) /\ new.div = sysmon.div /\ new.on = sysmon.on /\ new.dis = sysmon.dis
      /\ new.ier = sysmon.ier /\ new.isr = sysmon.isr
  BY DEF Apply, Shaped, Core
<1> HIDE DEF new
<1>3. ahist = [ops |-> ahist.ops, seen |-> ahist.seen, ec |-> ahist.ec]
  BY DEF Shaped
<1>4. /\ Core(sysmon') /\ ahist' = [ops |-> ahist'.ops, seen |-> ahist'.seen, ec |-> ahist'.ec]
      /\ LatchedTo(new.on, new.dis, new.ier, new.isr, ahist.ec) /\ Seqs(sysmon') = Seqs(new) /\ sysmon'.div = new.div
  BY <1>1, <1>2, <1>3, Latches
<1>5. LatchedTo(sysmon.on, sysmon.dis, sysmon.ier, sysmon.isr, ahist.ec)
  BY <1>2, <1>4 DEF LatchedTo
<1>6. Shaped' /\ UNCHANGED <<buf.pc, buf.scan>> /\ buf'.todo = Tail(buf.todo)
  BY <1>1, <1>4 DEF Shaped, Core
<1>7. QED  BY <1>1, <1>2, <1>4, <1>5, <1>6 DEF new, u

LEMMA SmallDo ==
  ASSUME Shaped, EndOfSequence \/ WriteRate \/ AxiIrqAck
  PROVE  /\ Shaped' /\ UNCHANGED <<axi, buf, thread, ahist.seen, ahist.ec>>
         /\ UNCHANGED <<sysmon.on, sysmon.dis, sysmon.ier>> /\ Seqs(sysmon') = Seqs(sysmon)
         /\ sysmon'.isr \subseteq sysmon.isr \cup {EOS}
         /\ airq'.status \subseteq airq.status
         /\ sysmon'.div = sysmon.div \/ \E r \in Rates : sysmon'.div = Divider(r)
<1>1. CASE EndOfSequence
  <2>1. /\ sysmon' = [sysmon EXCEPT !.isr = @ \cup {EOS}] /\ UNCHANGED <<axi, buf, airq, thread, ahist>>
    BY <1>1 DEF EndOfSequence
  <2>2. QED  BY <2>1 DEF Shaped, Seqs
<1>2. CASE WriteRate
  <2>1. PICK r \in Rates : sysmon' = [sysmon EXCEPT !.div = Divider(r)]
    BY <1>2 DEF WriteRate
  <2>2. ahist' = [ahist EXCEPT !.ops = @ + 1] /\ UNCHANGED <<axi, buf, airq, thread>>
    BY <1>2 DEF WriteRate, Counted
  <2>3. QED  BY <2>1, <2>2 DEF Shaped, Seqs
<1>3. CASE AxiIrqAck
  <2>1. /\ airq' = [pc |-> "idle", status |-> {}] /\ sysmon' = [sysmon EXCEPT !.isr = @ \ airq.status]
        /\ UNCHANGED <<axi, buf, thread, ahist>>
    BY <1>3 DEF AxiIrqAck
  <2>2. QED  BY <2>1 DEF Shaped, Seqs
<1>4. QED  BY <1>1, <1>2, <1>3

LEMMA BufferMovesDo ==
  ASSUME Shaped, Enable \/ Detached \/ Off
  PROVE  /\ Shaped' /\ UNCHANGED <<sysmon, airq, thread, ahist>>
         /\ UNCHANGED <<axi.alarm_mask, axi.trigger, axi.scans>>
         /\ \/ /\ buf.pc = "off" /\ buf'.pc = "pre" /\ buf'.todo = Preenable(buf'.scan)
               /\ buf'.scan \in ScanMasks /\ buf'.scan \subseteq axi.scans
               /\ axi'.data = Cardinality(buf'.scan)
            \/ /\ buf.pc = "detach" /\ thread.pc = "idle" /\ buf'.pc = "post"
               /\ buf'.todo = Postdisable /\ UNCHANGED <<buf.scan, axi.data>>
            \/ /\ buf.pc = "post" /\ buf.todo = <<>> /\ buf'.pc = "off" /\ buf'.todo = <<>>
               /\ buf'.scan = {} /\ UNCHANGED axi.data
<1>1. CASE Enable
  <2>1. PICK scan \in ScanMasks :
          /\ scan \subseteq axi.scans
          /\ buf' = [pc |-> "pre", todo |-> Preenable(scan), scan |-> scan]
          /\ axi' = [axi EXCEPT !.data = Cardinality(scan)]
    BY <1>1 DEF Enable
  <2> DEFINE n == Cardinality(scan)
             todo == Preenable(scan)
  <2>2. UNCHANGED <<sysmon, airq, thread, ahist>> /\ buf.pc = "off"
    BY <1>1 DEF Enable
  <2> HIDE DEF n, todo
  <2>3. buf' = [pc |-> "pre", todo |-> todo, scan |-> scan]
    BY <2>1 DEF todo
  <2>4. axi' = [alarm_mask |-> axi.alarm_mask, trigger |-> axi.trigger, data |-> n, scans |-> axi.scans]
    BY <2>1 DEF Shaped, n
  <2>5. Shaped'
    BY <2>2, <2>3, <2>4 DEF Shaped
  <2>6. QED  BY <2>1, <2>2, <2>3, <2>4, <2>5 DEF n, todo
<1>2. CASE Detached
  <2> DEFINE todo == Postdisable
  <2>1. /\ UNCHANGED <<sysmon, axi, airq, thread, ahist>> /\ buf.pc = "detach" /\ thread.pc = "idle"
        /\ buf' = [buf EXCEPT !.pc = "post", !.todo = todo]
    BY <1>2 DEF Detached
  <2> HIDE DEF todo
  <2>2. buf' = [pc |-> "post", todo |-> todo, scan |-> buf.scan]
    BY <2>1 DEF Shaped
  <2>3. Shaped'
    BY <2>1, <2>2 DEF Shaped
  <2>4. QED  BY <2>1, <2>2, <2>3 DEF todo
<1>3. CASE Off
  <2>1. /\ UNCHANGED <<sysmon, axi, airq, thread, ahist>> /\ buf.pc = "post" /\ buf.todo = <<>>
        /\ buf' = [buf EXCEPT !.pc = "off", !.scan = {}]
    BY <1>3 DEF Off
  <2>2. buf' = [pc |-> "off", todo |-> <<>>, scan |-> {}]
    BY <2>1 DEF Shaped
  <2>3. Shaped'
    BY <2>1, <2>2 DEF Shaped
  <2>4. QED  BY <2>1, <2>2, <2>3
<1>4. QED  BY <1>1, <1>2, <1>3

LEMMA AttachDoes ==
  ASSUME Shaped, Attach
  PROVE  /\ Shaped' /\ UNCHANGED <<airq, thread, buf.scan>> /\ buf.pc = "pre" /\ buf.todo = <<>>
         /\ \/ /\ buf'.pc = "on" /\ buf'.todo = <<>> /\ \E t \in Triggers : SetTrigger(t)
            \/ /\ buf'.pc = "post" /\ buf'.todo = Postdisable /\ UNCHANGED <<sysmon, axi, ahist>>
<1>1. UNCHANGED <<airq, thread>> /\ buf.pc = "pre" /\ buf.todo = <<>>
  BY DEF Attach
<1>2. CASE axi.trigger = "none"
  <2>1. PICK t \in Triggers : SetTrigger(t) /\ buf' = [buf EXCEPT !.pc = "on"]
    BY <1>2 DEF Attach
  <2>2. buf' = [pc |-> "on", todo |-> <<>>, scan |-> buf.scan]
    BY <1>1, <2>1 DEF Shaped
  <2>3. buf' = [pc |-> buf'.pc, todo |-> buf'.todo, scan |-> buf'.scan]
    BY <2>2
  <2>4. Shaped'
    BY <1>1, <2>1, <2>3, SetTriggerDoes
  <2>5. QED  BY <1>1, <2>1, <2>2, <2>4
<1>3. CASE axi.trigger # "none"
  <2> DEFINE todo == Postdisable
  <2>1. UNCHANGED <<sysmon, axi, ahist>> /\ buf' = [buf EXCEPT !.pc = "post", !.todo = todo]
    BY <1>3 DEF Attach
  <2> HIDE DEF todo
  <2>2. buf' = [pc |-> "post", todo |-> todo, scan |-> buf.scan]
    BY <2>1 DEF Shaped
  <2>3. Shaped'
    BY <1>1, <2>1, <2>2 DEF Shaped
  <2>4. QED  BY <1>1, <2>1, <2>2, <2>3 DEF todo
<1>4. QED  BY <1>2, <1>3

LEMMA DetachDoes ==
  ASSUME Shaped, Detach
  PROVE  /\ UNCHANGED <<airq, thread, ahist, buf.todo, buf.scan>> /\ buf.pc = "on" /\ buf'.pc = "detach"
         /\ buf' = [pc |-> buf'.pc, todo |-> buf'.todo, scan |-> buf'.scan]
         /\ ClearTrigger
BY DEF Shaped, Detach

LEMMA HandlersDo ==
  ASSUME Shaped, AxiIrqStatus \/ AxiIrqServe
  PROVE  /\ Shaped' /\ UNCHANGED <<sysmon, axi, buf, ahist>>
         /\ airq'.status = airq.status \/ airq'.status = sysmon.isr \cap sysmon.ier
         /\ \/ UNCHANGED thread
            \/ /\ thread.pc = "idle" /\ buf.pc = "on" /\ thread'.pc = "run"
               /\ thread'.left = buf.scan /\ thread'.data = <<>>
<1>1. CASE AxiIrqStatus
  <2>1. /\ airq' = [pc |-> "serve", status |-> sysmon.isr \cap sysmon.ier]
        /\ UNCHANGED <<sysmon, axi, buf, thread, ahist>>
    BY <1>1 DEF AxiIrqStatus
  <2>2. QED  BY <2>1 DEF Shaped
<1>2. CASE AxiIrqServe
  <2>1. /\ airq' = [airq EXCEPT !.pc = "ack"] /\ UNCHANGED <<sysmon, axi, buf, ahist>>
        /\ \/ UNCHANGED thread
           \/ /\ thread.pc = "idle" /\ buf.pc = "on"
              /\ thread' = [pc |-> "run", left |-> buf.scan, data |-> <<>>]
    BY <1>2 DEF AxiIrqServe
  <2>2. airq' = [pc |-> "ack", status |-> airq.status]
    BY <2>1 DEF Shaped
  <2>3. Shaped' /\ airq'.status = airq.status
    BY <2>1, <2>2 DEF Shaped
  <2>4. QED  BY <2>1, <2>3
<1>3. QED  BY <1>1, <1>2

LEMMA ThreadDoes ==
  ASSUME Shaped, ThreadRead \/ ThreadPush
  PROVE  /\ Shaped' /\ UNCHANGED <<sysmon, axi, buf, airq, ahist>> /\ thread.pc = "run"
         /\ \/ /\ thread'.pc = "run" /\ thread.left # {}
               /\ thread'.left = thread.left \ {Min(thread.left)}
               /\ thread'.data = Append(thread.data, ScanChannel(Min(thread.left)))
            \/ thread'.pc = "idle" /\ thread'.left = {} /\ thread'.data = <<>>
<1>1. CASE ThreadRead
  <2> DEFINE left == thread.left \ {Min(thread.left)}
             data == Append(thread.data, ScanChannel(Min(thread.left)))
  <2>1. /\ thread' = [thread EXCEPT !.left = left, !.data = data]
        /\ thread.pc = "run" /\ thread.left # {} /\ UNCHANGED <<sysmon, axi, buf, airq, ahist>>
    BY <1>1 DEF ThreadRead, Shaped
  <2> HIDE DEF left, data
  <2>2. thread' = [pc |-> "run", left |-> left, data |-> data]
    BY <2>1 DEF Shaped
  <2>3. Shaped'
    BY <2>1, <2>2 DEF Shaped
  <2>4. QED  BY <2>1, <2>2, <2>3 DEF left, data
<1>2. CASE ThreadPush
  <2>1. /\ thread' = [pc |-> "idle", left |-> {}, data |-> <<>>]
        /\ thread.pc = "run" /\ UNCHANGED <<sysmon, axi, buf, airq, ahist>>
    BY <1>2 DEF ThreadPush
  <2>2. QED  BY <2>1 DEF Shaped
<1>3. QED  BY <1>1, <1>2

-----------------------------------------------------------------------------
(* An alarm of the core belongs to one of the numbers the driver knows.    *)
LEMMA UsedBits == Used \subseteq Bit \ {0}
  BY Numberings, AxiAssumption DEF Used

LEMMA TruthKept ==
  ASSUME Shaped, Truth, AxiNext
  PROVE  Truth'
<1>1. CASE ToggleAxi
  <2>1. PICK c \in EventChannels :
          \E on \in SUBSET (sysmon.on \cup {AlarmOf(c)}) :
            LatchedTo(on, sysmon.dis, sysmon.ier, sysmon.isr, ahist.ec)
    BY <1>1, ToggleDoes
  <2>6. PICK on \in SUBSET (sysmon.on \cup {AlarmOf(c)}) :
          LatchedTo(on, sysmon.dis, sysmon.ier, sysmon.isr, ahist.ec)
    BY <2>1
  <2>2. PICK rise \in SUBSET on :
          /\ sysmon'.on = on /\ sysmon'.isr = sysmon.isr \cup {ToAxi(a) : a \in rise}
          /\ ahist'.seen = ahist.seen \cup rise
    BY <2>6 DEF LatchedTo
  <2>3. UNCHANGED <<axi, airq>>
    BY <1>1, ToggleDoes
  <2>4. on \subseteq Used
    BY <2>6 DEF Truth, Used
  <2>5. QED  BY <2>2, <2>3, <2>4 DEF Truth, Served
<1>2. CASE WriteEventConfigAxi
  <2>1. PICK c \in EventChannels : axi'.alarm_mask \subseteq axi.alarm_mask \cup {AlarmOf(c)}
    BY <1>2, EventConfigDoes
  <2>2. PICK rise \in SUBSET sysmon.on :
          /\ sysmon'.on = sysmon.on /\ sysmon'.isr = sysmon.isr \cup {ToAxi(a) : a \in rise}
          /\ ahist'.seen = ahist.seen \cup rise
    BY <1>2, EventConfigDoes DEF LatchedTo
  <2>3. UNCHANGED airq
    BY <1>2, EventConfigDoes
  <2>4. axi'.alarm_mask \subseteq Used
    BY <2>1 DEF Truth, Used
  <2>5. QED  BY <2>2, <2>3, <2>4 DEF Truth, Served
<1>3. ASSUME NEW t \in Triggers, SetTrigger(t), UNCHANGED <<airq, thread>>,
             buf' = [pc |-> buf'.pc, todo |-> buf'.todo, scan |-> buf'.scan]
      PROVE  Truth'
  <2>1. PICK rise \in SUBSET sysmon.on :
          /\ sysmon'.on = sysmon.on
          /\ sysmon'.isr = (sysmon.isr \ (sysmon.ier \cap {EOS})) \cup {ToAxi(a) : a \in rise}
          /\ ahist'.seen = ahist.seen \cup rise
    BY <1>3, SetTriggerDoes DEF LatchedTo
  <2>2. UNCHANGED <<airq, axi.alarm_mask>>
    BY <1>3, SetTriggerDoes
  <2>3. QED  BY <2>1, <2>2 DEF Truth, Served
<1>4. ASSUME ClearTrigger, UNCHANGED <<airq, thread, ahist>>,
             buf' = [pc |-> buf'.pc, todo |-> buf'.todo, scan |-> buf'.scan]
      PROVE  Truth'
  BY <1>4, ClearTriggerDoes DEF Truth, Served
<1>5. CASE OtherOn
  BY <1>3, <1>5 DEF OtherOn, Shaped
<1>6. CASE OtherOff
  BY <1>4, <1>6 DEF OtherOff, Shaped
<1>7. CASE BufferStep
  <2>1. PICK rise \in SUBSET sysmon.on :
          /\ sysmon'.on = sysmon.on /\ sysmon'.isr = sysmon.isr \cup {ToAxi(a) : a \in rise}
          /\ ahist'.seen = ahist.seen \cup rise
    BY <1>7, BufferStepDoes DEF LatchedTo
  <2>2. UNCHANGED <<airq, axi>>
    BY <1>7, BufferStepDoes
  <2>3. QED  BY <2>1, <2>2 DEF Truth, Served
<1>8. CASE Attach
  <2>1. CASE \E t \in Triggers : SetTrigger(t)
    BY <1>3, <1>8, <2>1, AttachDoes DEF Shaped
  <2>2. CASE UNCHANGED <<sysmon, axi, ahist>>
    BY <1>8, <2>2, AttachDoes DEF Truth, Served
  <2>3. QED  BY <1>8, <2>1, <2>2, AttachDoes
<1>9. CASE Detach
  BY <1>4, <1>9, DetachDoes
<1>10. CASE Enable \/ Detached \/ Off
  BY <1>10, BufferMovesDo DEF Truth, Served
<1>11. CASE EndOfSequence \/ WriteRate \/ AxiIrqAck
  BY <1>11, SmallDo DEF Truth, Served
<1>12. CASE AxiIrqStatus \/ AxiIrqServe
  BY <1>12, HandlersDo DEF Truth, Served
<1>13. CASE ThreadRead \/ ThreadPush
  BY <1>13, ThreadDoes DEF Truth, Served
<1>14. QED
  BY <1>1, <1>2, <1>5, <1>6, <1>7, <1>8, <1>9, <1>10, <1>11, <1>12, <1>13 DEF AxiNext

LEMMA TogetherKept ==
  ASSUME Shaped, Truth, Together, AxiNext
  PROVE  Together'
<1> DEFINE EOSFor(t) == IF t = "none" THEN {} ELSE {EOS}
<1>1. CASE UNCHANGED <<axi.alarm_mask, axi.trigger, sysmon.ier, sysmon.dis, ahist.ec>>
  BY <1>1 DEF Together
<1>2. CASE WriteEventConfigAxi
  <2> DEFINE mask == axi'.alarm_mask
  <2>1. /\ axi'.trigger = axi.trigger
        /\ sysmon'.dis = Disabled(mask) /\ ahist'.ec = FALSE
        /\ sysmon'.ier = (sysmon.ier \cap {EOS}) \cup {ToAxi(a) : a \in mask}
    BY <1>2, EventConfigDoes DEF LatchedTo
  <2>2. sysmon.ier \cap {EOS} = EOSFor(axi.trigger)
    <3>1. \A a \in axi.alarm_mask : ToAxi(a) # EOS
      BY UsedBits, Numberings DEF Truth
    <3>2. QED  BY <3>1 DEF Together
  <2>3. sysmon'.ier = {ToAxi(a) : a \in mask} \cup EOSFor(axi'.trigger)
    BY <2>1, <2>2
  <2>4. \A a \in Bit : Disable(a) \in sysmon'.dis <=> a \notin mask
    BY <2>1, Numberings DEF Disabled
  <2>5. QED  BY <2>1, <2>3, <2>4 DEF Together
<1>3. ASSUME NEW t \in Triggers, SetTrigger(t), UNCHANGED <<airq, thread>>, axi.trigger = "none",
             buf' = [pc |-> buf'.pc, todo |-> buf'.todo, scan |-> buf'.scan]
      PROVE  Together'
  <2>1. /\ axi'.trigger = t /\ UNCHANGED axi.alarm_mask /\ ahist'.ec = TRUE
        /\ sysmon'.ier = sysmon.ier \cup {EOS}
        /\ sysmon'.dis = IF t = "convst" THEN sysmon.dis \cup {EC} ELSE sysmon.dis \ {EC}
    BY <1>3, SetTriggerDoes DEF LatchedTo
  <2>2. t # "none" /\ t \in Triggers
    BY DEF Triggers
  <2>3. sysmon'.ier = {ToAxi(a) : a \in axi'.alarm_mask} \cup EOSFor(axi'.trigger)
    BY <1>3, <2>1, <2>2 DEF Together
  <2>4. \A a \in Bit : Disable(a) = EC \/ (Disable(a) \in sysmon'.dis <=> a \notin axi'.alarm_mask)
    BY <2>1 DEF Together
  <2>5. QED  BY <2>1, <2>2, <2>3, <2>4 DEF Together
<1>4. ASSUME ClearTrigger, UNCHANGED <<airq, thread, ahist>>,
             buf' = [pc |-> buf'.pc, todo |-> buf'.todo, scan |-> buf'.scan]
      PROVE  Together'
  <2>1. /\ axi'.trigger = "none" /\ UNCHANGED <<axi.alarm_mask, ahist.ec, sysmon.dis>>
        /\ sysmon'.ier = sysmon.ier \ {EOS}
    BY <1>4, ClearTriggerDoes
  <2>2. \A a \in axi.alarm_mask : ToAxi(a) # EOS
    BY UsedBits, Numberings DEF Truth
  <2>3. sysmon'.ier = {ToAxi(a) : a \in axi'.alarm_mask} \cup EOSFor(axi'.trigger)
    BY <2>1, <2>2 DEF Together
  <2>4. QED  BY <2>1, <2>3 DEF Together
<1>5. CASE ToggleAxi
  BY <1>1, <1>5, ToggleDoes DEF LatchedTo
<1>6. CASE OtherOn
  BY <1>3, <1>6 DEF OtherOn, Shaped
<1>7. CASE OtherOff
  BY <1>4, <1>7 DEF OtherOff, Shaped
<1>8. CASE BufferStep
  BY <1>1, <1>8, BufferStepDoes DEF LatchedTo
<1>9. CASE Attach
  <2>1. CASE UNCHANGED <<sysmon, axi, ahist>>
    BY <1>1, <2>1
  <2>2. CASE axi.trigger = "none"
    BY <1>3, <1>9, <2>2, AttachDoes DEF Attach, Shaped
  <2>3. QED  BY <1>9, <2>1, <2>2 DEF Attach
<1>10. CASE Detach
  BY <1>4, <1>10, DetachDoes
<1>11. CASE Enable \/ Detached \/ Off
  BY <1>1, <1>11, BufferMovesDo
<1>12. CASE EndOfSequence \/ WriteRate \/ AxiIrqAck
  BY <1>1, <1>12, SmallDo
<1>13. CASE AxiIrqStatus \/ AxiIrqServe
  BY <1>1, <1>13, HandlersDo
<1>14. CASE ThreadRead \/ ThreadPush
  BY <1>1, <1>14, ThreadDoes
<1>15. QED
  BY <1>2, <1>5, <1>6, <1>7, <1>8, <1>9, <1>10, <1>11, <1>12, <1>13, <1>14 DEF AxiNext

-----------------------------------------------------------------------------
(* The sequencer between the calls of a buffer: what is left to do, and    *)
(* what is done.                                                           *)
Low(scan)  == scan \cap 0 .. 15
High(scan) == scan \cap 16 .. 31
All        == {0} \cup axi.scans

Taking(c, todo, scan) ==
  LET mode == SeqMode(scan)
      s0   == Update("seq0", Low(scan))
      s1   == Update("seq1", High(scan))
      pd   == Update("pd", PowerDown(mode))
      m    == Update("mode", mode)
      in0  == c.seq0 = Low(scan)
      in1  == c.seq1 = High(scan)
  IN \/ todo = <<Update("mode", "default"), s0, s1, pd, m>>
     \/ todo = <<s0, s1, pd, m>>
     \/ todo = <<s1, pd, m>> /\ in0
     \/ todo = <<pd, m>> /\ in0 /\ in1
     \/ todo = <<m>> /\ in0 /\ in1 /\ c.pd = PowerDown(mode)
     \/ todo = <<>> /\ in0 /\ in1 /\ c.pd = PowerDown(mode) /\ c.mode = mode

Leaving(c, todo, all) ==
  LET s0  == Update("seq0", Low(all))
      s1  == Update("seq1", High(all))
      m   == Update("mode", "continuous")
      pd  == Update("pd", PowerDown("continuous"))
      in0 == c.seq0 = Low(all)
      in1 == c.seq1 = High(all)
  IN \/ todo = <<s0, s1, m, pd>>
     \/ todo = <<s1, m, pd>> /\ in0
     \/ todo = <<m, pd>> /\ in0 /\ in1
     \/ todo = <<pd>> /\ in0 /\ in1 /\ c.mode = "continuous"
     \/ todo = <<>> /\ in0 /\ in1 /\ c.mode = "continuous" /\ c.pd = PowerDown("continuous")

Stages ==
  /\ buf.pc \in {"off", "pre", "on", "detach", "post"}
  /\ buf.pc \in {"off", "on", "detach"} => buf.todo = <<>>
  /\ buf.pc \in {"pre", "on"} => Taking(sysmon, buf.todo, buf.scan)
  /\ buf.pc \in {"off", "post"} => Leaving(sysmon, buf.todo, All)
  /\ axi.scans \subseteq 0 .. 31 /\ buf.scan \subseteq 5 .. 31

(* One field changes at a time.                                            *)
LEMMA Applied ==
  ASSUME Core(sysmon), NEW v
  PROVE  /\ Seqs(Apply(Update("mode", v))) = <<v, sysmon.seq0, sysmon.seq1, sysmon.pd>>
         /\ Seqs(Apply(Update("seq0", v))) = <<sysmon.mode, v, sysmon.seq1, sysmon.pd>>
         /\ Seqs(Apply(Update("seq1", v))) = <<sysmon.mode, sysmon.seq0, v, sysmon.pd>>
         /\ Seqs(Apply(Update("pd", v))) = <<sysmon.mode, sysmon.seq0, sysmon.seq1, v>>
<1>1. Seqs(Apply(Update("mode", v))) = <<v, sysmon.seq0, sysmon.seq1, sysmon.pd>>
  <2>1. Apply(Update("mode", v)) = [sysmon EXCEPT !.mode = v]
    BY DEF Apply, Update
  <2>2. QED  BY <2>1 DEF Core, Seqs
<1>2. Seqs(Apply(Update("seq0", v))) = <<sysmon.mode, v, sysmon.seq1, sysmon.pd>>
  <2>1. Apply(Update("seq0", v)) = [sysmon EXCEPT !.seq0 = v]
    BY DEF Apply, Update
  <2>2. QED  BY <2>1 DEF Core, Seqs
<1>3. Seqs(Apply(Update("seq1", v))) = <<sysmon.mode, sysmon.seq0, v, sysmon.pd>>
  <2>1. Apply(Update("seq1", v)) = [sysmon EXCEPT !.seq1 = v]
    BY DEF Apply, Update
  <2>2. QED  BY <2>1 DEF Core, Seqs
<1>4. Seqs(Apply(Update("pd", v))) = <<sysmon.mode, sysmon.seq0, sysmon.seq1, v>>
  <2>1. Apply(Update("pd", v)) = [sysmon EXCEPT !.pd = v]
    BY DEF Apply, Update
  <2>2. QED  BY <2>1 DEF Core, Seqs
<1>5. QED  BY <1>1, <1>2, <1>3, <1>4

(* A stage depends on the fields of the sequencer only.                    *)
LEMMA StageFields ==
  ASSUME NEW c, NEW d, NEW todo, NEW set, Seqs(c) = Seqs(d)
  PROVE  (Taking(c, todo, set) <=> Taking(d, todo, set)) /\ (Leaving(c, todo, set) <=> Leaving(d, todo, set))
<1>1. c.mode = d.mode /\ c.seq0 = d.seq0 /\ c.seq1 = d.seq1 /\ c.pd = d.pd
  BY DEF Seqs
<1>2. QED  BY <1>1 DEF Taking, Leaving

LEMMA Tails ==
  ASSUME NEW a, NEW b, NEW c, NEW d, NEW e
  PROVE  /\ Head(<<a>>) = a /\ Tail(<<a>>) = <<>>
         /\ Head(<<a, b>>) = a /\ Tail(<<a, b>>) = <<b>>
         /\ Head(<<a, b, c>>) = a /\ Tail(<<a, b, c>>) = <<b, c>>
         /\ Head(<<a, b, c, d>>) = a /\ Tail(<<a, b, c, d>>) = <<b, c, d>>
         /\ Head(<<a, b, c, d, e>>) = a /\ Tail(<<a, b, c, d, e>>) = <<b, c, d, e>>
OBVIOUS

LEMMA StepTaken ==
  ASSUME Core(sysmon), NEW set, NEW todo, todo # <<>>, NEW c, Seqs(c) = Seqs(Apply(Head(todo)))
  PROVE  /\ Taking(sysmon, todo, set) => Taking(c, Tail(todo), set)
         /\ Leaving(sysmon, todo, set) => Leaving(c, Tail(todo), set)
<1>1. ASSUME Taking(sysmon, todo, set)  PROVE Taking(c, Tail(todo), set)
  <2> DEFINE mode == SeqMode(set)
             v0   == Low(set)
             v1   == High(set)
             down == PowerDown(mode)
             s0   == Update("seq0", v0)
             s1   == Update("seq1", v1)
             pd   == Update("pd", down)
             m    == Update("mode", mode)
             d    == Update("mode", "default")
             f(mo, a, b, p) == c.mode = mo /\ c.seq0 = a /\ c.seq1 = b /\ c.pd = p
  <2>1. /\ Head(todo) = d => f("default", sysmon.seq0, sysmon.seq1, sysmon.pd)
        /\ Head(todo) = s0 => f(sysmon.mode, v0, sysmon.seq1, sysmon.pd)
        /\ Head(todo) = s1 => f(sysmon.mode, sysmon.seq0, v1, sysmon.pd)
        /\ Head(todo) = pd => f(sysmon.mode, sysmon.seq0, sysmon.seq1, down)
        /\ Head(todo) = m => f(mode, sysmon.seq0, sysmon.seq1, sysmon.pd)
    <3> HIDE DEF v0, v1, down, mode
    <3>1. QED  BY Applied DEF Seqs
  <2>2. \/ todo = <<d, s0, s1, pd, m>>
        \/ todo = <<s0, s1, pd, m>>
        \/ todo = <<s1, pd, m>> /\ sysmon.seq0 = v0
        \/ todo = <<pd, m>> /\ sysmon.seq0 = v0 /\ sysmon.seq1 = v1
        \/ todo = <<m>> /\ sysmon.seq0 = v0 /\ sysmon.seq1 = v1 /\ sysmon.pd = down
    BY <1>1 DEF Taking
  <2> HIDE DEF d, s0, s1, pd, m
  <2>3. \/ Tail(todo) = <<s0, s1, pd, m>>
        \/ Tail(todo) = <<s1, pd, m>> /\ c.seq0 = v0
        \/ Tail(todo) = <<pd, m>> /\ c.seq0 = v0 /\ c.seq1 = v1
        \/ Tail(todo) = <<m>> /\ c.seq0 = v0 /\ c.seq1 = v1 /\ c.pd = down
        \/ Tail(todo) = <<>> /\ c.seq0 = v0 /\ c.seq1 = v1 /\ c.pd = down /\ c.mode = mode
    <3> HIDE DEF v0, v1, down, mode, f
    <3>1. CASE todo = <<d, s0, s1, pd, m>>
      BY <3>1, Tails
    <3>2. CASE todo = <<s0, s1, pd, m>>
      <4>1. Head(todo) = s0 /\ Tail(todo) = <<s1, pd, m>>
        BY <3>2, Tails
      <4>2. QED  BY <2>1, <4>1 DEF f
    <3>3. CASE todo = <<s1, pd, m>> /\ sysmon.seq0 = v0
      <4>1. Head(todo) = s1 /\ Tail(todo) = <<pd, m>>
        BY <3>3, Tails
      <4>2. QED  BY <2>1, <3>3, <4>1 DEF f
    <3>4. CASE todo = <<pd, m>> /\ sysmon.seq0 = v0 /\ sysmon.seq1 = v1
      <4>1. Head(todo) = pd /\ Tail(todo) = <<m>>
        BY <3>4, Tails
      <4>2. QED  BY <2>1, <3>4, <4>1 DEF f
    <3>5. CASE todo = <<m>> /\ sysmon.seq0 = v0 /\ sysmon.seq1 = v1 /\ sysmon.pd = down
      <4>1. Head(todo) = m /\ Tail(todo) = <<>>
        BY <3>5, Tails
      <4>2. QED  BY <2>1, <3>5, <4>1 DEF f
    <3>6. QED  BY <2>2, <3>1, <3>2, <3>3, <3>4, <3>5
  <2>4. QED  BY <2>3 DEF Taking, d, s0, s1, pd, m
<1>2. ASSUME Leaving(sysmon, todo, set)  PROVE Leaving(c, Tail(todo), set)
  <2> DEFINE v0   == Low(set)
             v1   == High(set)
             down == PowerDown("continuous")
             s0   == Update("seq0", v0)
             s1   == Update("seq1", v1)
             pd   == Update("pd", down)
             m    == Update("mode", "continuous")
             f(mo, a, b, p) == c.mode = mo /\ c.seq0 = a /\ c.seq1 = b /\ c.pd = p
  <2>1. /\ Head(todo) = s0 => f(sysmon.mode, v0, sysmon.seq1, sysmon.pd)
        /\ Head(todo) = s1 => f(sysmon.mode, sysmon.seq0, v1, sysmon.pd)
        /\ Head(todo) = pd => f(sysmon.mode, sysmon.seq0, sysmon.seq1, down)
        /\ Head(todo) = m => f("continuous", sysmon.seq0, sysmon.seq1, sysmon.pd)
    <3> HIDE DEF v0, v1, down
    <3>1. QED  BY Applied DEF Seqs
  <2>2. \/ todo = <<s0, s1, m, pd>>
        \/ todo = <<s1, m, pd>> /\ sysmon.seq0 = v0
        \/ todo = <<m, pd>> /\ sysmon.seq0 = v0 /\ sysmon.seq1 = v1
        \/ todo = <<pd>> /\ sysmon.seq0 = v0 /\ sysmon.seq1 = v1 /\ sysmon.mode = "continuous"
    BY <1>2 DEF Leaving
  <2> HIDE DEF s0, s1, pd, m
  <2>3. \/ Tail(todo) = <<s1, m, pd>> /\ c.seq0 = v0
        \/ Tail(todo) = <<m, pd>> /\ c.seq0 = v0 /\ c.seq1 = v1
        \/ Tail(todo) = <<pd>> /\ c.seq0 = v0 /\ c.seq1 = v1 /\ c.mode = "continuous"
        \/ Tail(todo) = <<>> /\ c.seq0 = v0 /\ c.seq1 = v1 /\ c.pd = down /\ c.mode = "continuous"
    <3> HIDE DEF v0, v1, down, f
    <3>1. CASE todo = <<s0, s1, m, pd>>
      <4>1. Head(todo) = s0 /\ Tail(todo) = <<s1, m, pd>>
        BY <3>1, Tails
      <4>2. QED  BY <2>1, <4>1 DEF f
    <3>2. CASE todo = <<s1, m, pd>> /\ sysmon.seq0 = v0
      <4>1. Head(todo) = s1 /\ Tail(todo) = <<m, pd>>
        BY <3>2, Tails
      <4>2. QED  BY <2>1, <3>2, <4>1 DEF f
    <3>3. CASE todo = <<m, pd>> /\ sysmon.seq0 = v0 /\ sysmon.seq1 = v1
      <4>1. Head(todo) = m /\ Tail(todo) = <<pd>>
        BY <3>3, Tails
      <4>2. QED  BY <2>1, <3>3, <4>1 DEF f
    <3>4. CASE todo = <<pd>> /\ sysmon.seq0 = v0 /\ sysmon.seq1 = v1 /\ sysmon.mode = "continuous"
      <4>1. Head(todo) = pd /\ Tail(todo) = <<>>
        BY <3>4, Tails
      <4>2. QED  BY <2>1, <3>4, <4>1 DEF f
    <3>5. QED  BY <2>2, <3>1, <3>2, <3>3, <3>4
  <2>4. QED  BY <2>3 DEF Leaving, s0, s1, pd, m
<1>3. QED  BY <1>1, <1>2

LEMMA StagesKept ==
  ASSUME Shaped, Stages, AxiNext
  PROVE  Stages'
<1>1. Core(sysmon)
  BY DEF Shaped, Core
<1>2. CASE UNCHANGED <<buf.pc, buf.todo, buf.scan, axi.scans>> /\ Seqs(sysmon') = Seqs(sysmon)
  <2>1. /\ Taking(sysmon', buf.todo, buf.scan) <=> Taking(sysmon, buf.todo, buf.scan)
        /\ Leaving(sysmon', buf.todo, All) <=> Leaving(sysmon, buf.todo, All)
    BY <1>2, StageFields
  <2>2. All' = All
    BY <1>2 DEF All
  <2>3. QED  BY <1>2, <2>1, <2>2 DEF Stages
<1>3. CASE BufferStep
  <2>1. /\ UNCHANGED <<axi, buf.pc, buf.scan>> /\ buf.todo # <<>> /\ buf'.todo = Tail(buf.todo)
        /\ Seqs(sysmon') = Seqs(Apply(Head(buf.todo)))
    BY <1>3, BufferStepDoes
  <2>2. /\ Taking(sysmon, buf.todo, buf.scan) => Taking(sysmon', Tail(buf.todo), buf.scan)
        /\ Leaving(sysmon, buf.todo, All) => Leaving(sysmon', Tail(buf.todo), All)
    BY <1>1, <2>1, StepTaken
  <2>3. All' = All
    BY <2>1 DEF All
  <2>4. QED  BY <2>1, <2>2, <2>3 DEF Stages
<1>4. CASE Attach
  <2>1. CASE buf'.pc = "on" /\ buf'.todo = <<>> /\ \E t \in Triggers : SetTrigger(t)
    <3>1. /\ UNCHANGED <<airq, thread, buf.scan>> /\ buf.pc = "pre" /\ buf.todo = <<>>
          /\ buf' = [pc |-> buf'.pc, todo |-> buf'.todo, scan |-> buf'.scan]
      BY <1>4, AttachDoes DEF Shaped
    <3>2. Seqs(sysmon') = Seqs(sysmon) /\ UNCHANGED axi.scans
      BY <2>1, <3>1, SetTriggerDoes
    <3>3. Taking(sysmon', <<>>, buf.scan)
      BY <3>1, <3>2, StageFields DEF Stages
    <3>4. QED  BY <2>1, <3>1, <3>2, <3>3 DEF Stages
  <2>2. CASE buf'.pc = "post" /\ buf'.todo = Postdisable /\ UNCHANGED <<sysmon, axi, ahist>>
    <3>1. Postdisable = <<Update("seq0", Low(All)), Update("seq1", High(All)),
                          Update("mode", "continuous"), Update("pd", PowerDown("continuous"))>>
      BY DEF Postdisable, Low, High, All
    <3>2. Leaving(sysmon', buf'.todo, All')
      BY <2>2, <3>1 DEF Leaving, All
    <3>3. QED  BY <1>4, <2>2, <3>2, AttachDoes DEF Stages
  <2>3. QED  BY <1>4, <2>1, <2>2, AttachDoes
<1>5. CASE Detach
  <2>1. /\ UNCHANGED <<airq, thread, ahist, buf.todo, buf.scan>> /\ buf.pc = "on" /\ buf'.pc = "detach"
        /\ UNCHANGED axi.scans
    BY <1>5, DetachDoes, ClearTriggerDoes
  <2>2. QED  BY <2>1 DEF Stages
<1>6. CASE Enable \/ Detached \/ Off
  <2>1. /\ UNCHANGED <<sysmon, axi.scans>> /\ All' = All
        /\ \/ /\ buf'.pc = "pre" /\ buf'.todo = Preenable(buf'.scan) /\ buf'.scan \in ScanMasks
           \/ buf'.pc = "post" /\ buf'.todo = Postdisable /\ UNCHANGED buf.scan
           \/ /\ buf.pc = "post" /\ buf.todo = <<>> /\ buf'.pc = "off" /\ buf'.todo = <<>>
              /\ buf'.scan = {}
    BY <1>6, BufferMovesDo DEF All
  <2>2. CASE buf'.pc = "pre" /\ buf'.todo = Preenable(buf'.scan) /\ buf'.scan \in ScanMasks
    <3>1. Taking(sysmon', buf'.todo, buf'.scan)
      BY <2>2 DEF Taking, Preenable, Low, High
    <3>2. QED  BY <2>1, <2>2, <3>1, AxiAssumption DEF Stages
  <2>3. CASE buf'.pc = "post" /\ buf'.todo = Postdisable /\ UNCHANGED buf.scan
    <3>1. Leaving(sysmon', buf'.todo, All')
      BY <2>1, <2>3 DEF Leaving, Postdisable, Low, High, All
    <3>2. QED  BY <2>1, <2>3, <3>1 DEF Stages
  <2>4. CASE /\ buf.pc = "post" /\ buf.todo = <<>> /\ buf'.pc = "off" /\ buf'.todo = <<>>
             /\ buf'.scan = {}
    BY <2>1, <2>4 DEF Stages
  <2>5. QED  BY <2>1, <2>2, <2>3, <2>4
<1>7. CASE ToggleAxi
  BY <1>2, <1>7, ToggleDoes
<1>8. CASE WriteEventConfigAxi
  BY <1>2, <1>8, EventConfigDoes
<1>9. CASE OtherOn
  <2>1. PICK t \in Triggers : SetTrigger(t) /\ UNCHANGED <<buf, airq, thread>>
    BY <1>9 DEF OtherOn
  <2>2. QED  BY <1>2, <2>1, SetTriggerDoes DEF Shaped
<1>10. CASE OtherOff
  <2>1. ClearTrigger /\ UNCHANGED <<buf, airq, thread, ahist>>
    BY <1>10 DEF OtherOff
  <2>2. QED  BY <1>2, <2>1, ClearTriggerDoes DEF Shaped
<1>11. CASE EndOfSequence \/ WriteRate \/ AxiIrqAck
  BY <1>2, <1>11, SmallDo
<1>12. CASE AxiIrqStatus \/ AxiIrqServe
  BY <1>2, <1>12, HandlersDo
<1>13. CASE ThreadRead \/ ThreadPush
  BY <1>2, <1>13, ThreadDoes
<1>14. QED
  BY <1>3, <1>4, <1>5, <1>6, <1>7, <1>8, <1>9, <1>10, <1>11, <1>12, <1>13 DEF AxiNext

-----------------------------------------------------------------------------
(* The trigger handler's place: the channels it has read are the lowest of *)
(* the scan, each in its place.                                            *)
Placed(scan, data) ==
  \A i \in DOMAIN data :
    \E s \in scan : data[i] = Address(s) /\ Cardinality({t \in scan : t < s}) = i - 1

Scanning ==
  /\ thread.pc \in {"idle", "run"} /\ axi.data \in Nat
  /\ buf.pc \in {"pre", "on", "detach"} => axi.data = Cardinality(buf.scan)
  /\ thread.pc = "idle" => thread.data = <<>>
  /\ thread.pc = "run" =>
       /\ buf.pc \in {"on", "detach"} /\ thread.left \subseteq buf.scan
       /\ \A x \in buf.scan \ thread.left, y \in thread.left : x < y
       /\ thread.data \in Seq(Nat) /\ Len(thread.data) = Cardinality(buf.scan \ thread.left)
       /\ Placed(buf.scan, thread.data)

LEMMA Least ==
  ASSUME NEW S, S \subseteq Nat, S # {}
  PROVE  Min(S) \in S /\ \A x \in S : Min(S) <= x
<1> DEFINE R == OpToRel(<, Nat)
<1>1. \A x, y \in Nat : <<y, x>> \in R <=> y < x
  BY DEF OpToRel
<1>2. PICK m \in S : \A x \in S : ~ (<<x, m>> \in R)
  <2>1. IsWellFoundedOn(R, Nat)
    BY NatLessThanWellFounded, Zenon
  <2> HIDE DEF R
  <2>2. QED  BY <2>1, WFMin
<1> HIDE DEF R
<1>3. \A x \in S : m <= x
  <2> SUFFICES ASSUME NEW x \in S PROVE m <= x
    OBVIOUS
  <2>1. x \in Nat /\ m \in Nat
    OBVIOUS
  <2>2. ~ (x < m)
    BY <1>1, <1>2, <2>1, Zenon
  <2>3. QED  BY <2>1, <2>2
<1>4. QED  BY <1>3 DEF Min

LEMMA Numbered == \A s \in 5 .. 31 : ScanChannel(s) = Address(s) /\ Address(s) \in Nat
  BY DEF ScanChannel, Address

LEMMA Finite ==
  ASSUME NEW scan, scan \subseteq 5 .. 31, NEW T, T \subseteq scan
  PROVE  IsFiniteSet(T) /\ Cardinality(T) \in Nat /\ Cardinality(T) <= Cardinality(scan)
<1>1. IsFiniteSet(5 .. 31)
  <2>1. 5 \in Int /\ 31 \in Int
    OBVIOUS
  <2>2. QED  BY <2>1, FS_Interval
<1>2. IsFiniteSet(scan)
  BY <1>1, FS_Subset
<1>3. QED  BY <1>2, FS_Subset, FS_CardinalityType

LEMMA ReadPlaced ==
  ASSUME Stages, Scanning, thread.pc = "run", thread.left # {}
  PROVE  LET s    == Min(thread.left)
             left == thread.left \ {s}
             data == Append(thread.data, ScanChannel(s))
         IN /\ \A x \in buf.scan \ left, y \in left : x < y
            /\ data \in Seq(Nat) /\ Len(data) = Cardinality(buf.scan \ left)
            /\ Placed(buf.scan, data)
<1> DEFINE s    == Min(thread.left)
           left == thread.left \ {s}
           done == buf.scan \ thread.left
           data == Append(thread.data, ScanChannel(s))
<1>1. /\ buf.scan \subseteq 5 .. 31 /\ thread.left \subseteq buf.scan
      /\ \A x \in done, y \in thread.left : x < y
      /\ thread.data \in Seq(Nat) /\ Len(thread.data) = Cardinality(done)
      /\ Placed(buf.scan, thread.data)
  BY DEF Stages, Scanning
<1>11. 5 .. 31 \subseteq Nat
  OBVIOUS
<1>9. buf.scan \subseteq Nat
  BY <1>1, <1>11, Zenon
<1>2. s \in thread.left /\ \A x \in thread.left : s <= x
  BY <1>1, <1>9, Least
<1> HIDE DEF s
<1>10. s \in Nat /\ s \in buf.scan /\ s \in 5 .. 31
  BY <1>1, <1>2, <1>9, Zenon
<1>3. \A x \in buf.scan \ left, y \in left : x < y
  <2> SUFFICES ASSUME NEW x \in buf.scan \ left, NEW y \in left  PROVE x < y
    OBVIOUS
  <2>1. x \in Nat /\ y \in Nat /\ y \in thread.left /\ y # s
    BY <1>1, <1>9
  <2>2. CASE x = s
    BY <1>2, <1>10, <2>1, <2>2
  <2>3. CASE x # s
    BY <1>1, <2>1, <2>3
  <2>4. QED  BY <2>2, <2>3
<1>4. data \in Seq(Nat) /\ Len(data) = Len(thread.data) + 1 /\ data[Len(data)] = Address(s)
      /\ \A i \in DOMAIN thread.data : data[i] = thread.data[i]
  <2>1. ScanChannel(s) = Address(s) /\ ScanChannel(s) \in Nat
    BY <1>10, Numbered
  <2> DEFINE a == ScanChannel(s)
             old == thread.data
  <2>2. old \in Seq(Nat) /\ a \in Nat
    BY <1>1, <2>1
  <2> HIDE DEF a, old
  <2>3. /\ Append(old, a) \in Seq(Nat) /\ Len(Append(old, a)) = Len(old) + 1
        /\ Append(old, a)[Len(old) + 1] = a /\ \A i \in DOMAIN old : Append(old, a)[i] = old[i]
    BY <2>2
  <2>4. QED  BY <2>1, <2>3 DEF a, old
<1>5. Len(data) = Cardinality(buf.scan \ left)
  <2>1. buf.scan \ left = done \cup {s} /\ s \notin done
    BY <1>1, <1>2
  <2>2. IsFiniteSet(done)
    BY <1>1, Finite
  <2>3. Cardinality(done \cup {s}) = Cardinality(done) + 1
    BY ONLY <2>1, <2>2, FS_AddElement
  <2>4. Len(thread.data) = Cardinality(done)
    BY <1>1
  <2>5. QED  BY ONLY <1>4, <2>1, <2>3, <2>4
<1>6. {t \in buf.scan : t < s} = done
  <2> SUFFICES ASSUME NEW t \in buf.scan  PROVE t < s <=> t \notin thread.left
    OBVIOUS
  <2>1. t \in Nat
    BY <1>9
  <2>2. CASE t \in thread.left
    BY <1>2, <1>10, <2>1, <2>2
  <2>3. CASE t \notin thread.left
    BY <1>1, <1>2, <2>3
  <2>4. QED  BY <2>2, <2>3
<1>7. Placed(buf.scan, data)
  <2> SUFFICES ASSUME NEW i \in DOMAIN data
      PROVE \E r \in buf.scan : data[i] = Address(r) /\ Cardinality({t \in buf.scan : t < r}) = i - 1
    BY DEF Placed
  <2>1. CASE i \in DOMAIN thread.data
    BY <1>1, <1>4, <2>1 DEF Placed
  <2>2. CASE i \notin DOMAIN thread.data
    <3>1. i = Len(thread.data) + 1 /\ Len(thread.data) \in Nat
      <4> DEFINE old == thread.data
      <4>1. old \in Seq(Nat) /\ data \in Seq(Nat) /\ Len(data) = Len(old) + 1 /\ i \notin DOMAIN old
        BY <1>1, <1>4, <2>2
      <4> HIDE DEF data, old
      <4>2. QED  BY <4>1 DEF old
    <3>2. data[i] = Address(s)
      BY <1>4, <3>1
    <3>5. Cardinality({t \in buf.scan : t < s}) = i - 1
      <4>1. Cardinality(done) = i - 1
        BY <1>1, <3>1
      <4>2. QED  BY <1>6, <4>1, Zenon
    <3>3. s \in buf.scan
      BY <1>1, <1>2
    <3>4. QED  BY <3>2, <3>3, <3>5
  <2>3. QED  BY <2>1, <2>2
<1>8. QED  BY <1>3, <1>4, <1>5, <1>7 DEF s

LEMMA ScanningKept ==
  ASSUME Shaped, Stages, Scanning, AxiNext
  PROVE  Scanning'
<1>1. CASE UNCHANGED <<thread, buf.pc, buf.scan, axi.data>>
  BY <1>1 DEF Scanning, Placed
<1>2. CASE ThreadRead \/ ThreadPush
  <2>1. /\ UNCHANGED <<axi, buf>> /\ thread.pc = "run"
        /\ \/ /\ thread'.pc = "run" /\ thread.left # {}
              /\ thread'.left = thread.left \ {Min(thread.left)}
              /\ thread'.data = Append(thread.data, ScanChannel(Min(thread.left)))
           \/ thread'.pc = "idle" /\ thread'.left = {} /\ thread'.data = <<>>
    BY <1>2, ThreadDoes
  <2>2. CASE thread'.pc = "idle"
    BY <2>1, <2>2 DEF Scanning
  <2>3. CASE /\ thread'.pc = "run" /\ thread.left # {}
             /\ thread'.left = thread.left \ {Min(thread.left)}
             /\ thread'.data = Append(thread.data, ScanChannel(Min(thread.left)))
    <3>1. /\ \A x \in buf.scan \ thread'.left, y \in thread'.left : x < y
          /\ thread'.data \in Seq(Nat) /\ Len(thread'.data) = Cardinality(buf.scan \ thread'.left)
          /\ Placed(buf.scan, thread'.data)
      BY <2>1, <2>3, ReadPlaced
    <3>2. thread'.left \subseteq buf.scan
      BY <2>1, <2>3 DEF Scanning
    <3>3. Placed(buf.scan, thread'.data) <=> Placed(buf.scan, thread.data)'
      BY <2>1 DEF Placed
    <3>4. QED  BY <2>1, <2>3, <3>1, <3>2, <3>3 DEF Scanning
  <2>4. QED  BY <2>1, <2>2, <2>3
<1>3. CASE AxiIrqStatus \/ AxiIrqServe
  <2>1. /\ UNCHANGED <<axi, buf>>
        /\ \/ UNCHANGED thread
           \/ /\ thread.pc = "idle" /\ buf.pc = "on" /\ thread'.pc = "run"
              /\ thread'.left = buf.scan /\ thread'.data = <<>>
    BY <1>3, HandlersDo
  <2>2. CASE UNCHANGED thread
    BY <1>1, <2>1, <2>2
  <2>3. CASE /\ buf.pc = "on" /\ thread'.pc = "run" /\ thread'.left = buf.scan /\ thread'.data = <<>>
    <3>1. buf.scan \ buf.scan = {}
      OBVIOUS
    <3>2. Placed(buf.scan, thread.data)'
      BY <2>3 DEF Placed
    <3>3. Cardinality(buf.scan' \ thread'.left) = 0
      BY <2>1, <2>3, <3>1, FS_EmptySet, Zenon
    <3>4. thread'.data \in Seq(Nat) /\ Len(thread'.data) = 0
      BY <2>3
    <3>5. \A x \in buf'.scan \ thread'.left, y \in thread'.left : x < y
      BY <2>1, <2>3
    <3>6. UNCHANGED <<buf.pc, buf.scan, axi.data>>
      BY <2>1
    <3>7. QED  BY <2>3, <3>2, <3>3, <3>4, <3>5, <3>6 DEF Scanning
  <2>4. QED  BY <2>1, <2>2, <2>3
<1>4. CASE Enable \/ Detached \/ Off
  <2>1. /\ UNCHANGED thread
        /\ \/ /\ buf.pc = "off" /\ buf'.pc = "pre" /\ buf'.scan \in ScanMasks
              /\ axi'.data = Cardinality(buf'.scan)
           \/ /\ buf.pc = "detach" /\ thread.pc = "idle" /\ buf'.pc = "post"
              /\ UNCHANGED <<buf.scan, axi.data>>
           \/ buf.pc = "post" /\ buf'.pc = "off" /\ UNCHANGED axi.data
    BY <1>4, BufferMovesDo
  <2>2. thread.pc = "idle"
    BY <2>1 DEF Scanning
  <2>3. \A scan \in ScanMasks : Cardinality(scan) \in Nat
    BY Finite, AxiAssumption
  <2>4. QED  BY <2>1, <2>2, <2>3 DEF Scanning
<1>5. CASE Attach
  <2>1. /\ UNCHANGED <<thread, buf.scan>> /\ buf.pc = "pre" /\ buf'.pc \in {"on", "post"} /\ UNCHANGED airq
        /\ buf' = [pc |-> buf'.pc, todo |-> buf'.todo, scan |-> buf'.scan]
        /\ UNCHANGED axi \/ \E t \in Triggers : SetTrigger(t)
    BY <1>5, AttachDoes DEF Shaped
  <2>2. UNCHANGED axi.data
    BY <2>1, SetTriggerDoes
  <2>3. thread.pc = "idle"
    BY <2>1 DEF Scanning
  <2>4. QED  BY <2>1, <2>2, <2>3 DEF Scanning
<1>6. CASE Detach
  <2>1. /\ UNCHANGED <<airq, thread, ahist, buf.todo, buf.scan>> /\ buf.pc = "on" /\ buf'.pc = "detach"
        /\ UNCHANGED axi.data
    BY <1>6, DetachDoes, ClearTriggerDoes
  <2>2. QED  BY <2>1 DEF Scanning, Placed
<1>7. CASE ToggleAxi
  BY <1>1, <1>7, ToggleDoes
<1>8. CASE WriteEventConfigAxi
  BY <1>1, <1>8, EventConfigDoes
<1>9. CASE OtherOn
  <2>1. PICK t \in Triggers : SetTrigger(t) /\ UNCHANGED <<buf, airq, thread>>
    BY <1>9 DEF OtherOn
  <2>2. QED  BY <1>1, <2>1, SetTriggerDoes DEF Shaped
<1>10. CASE OtherOff
  <2>1. ClearTrigger /\ UNCHANGED <<buf, airq, thread, ahist>>
    BY <1>10 DEF OtherOff
  <2>2. QED  BY <1>1, <2>1, ClearTriggerDoes DEF Shaped
<1>11. CASE BufferStep
  BY <1>1, <1>11, BufferStepDoes
<1>12. CASE EndOfSequence \/ WriteRate \/ AxiIrqAck
  BY <1>1, <1>12, SmallDo
<1>13. QED
  BY <1>2, <1>3, <1>4, <1>5, <1>6, <1>7, <1>8, <1>9, <1>10, <1>11, <1>12 DEF AxiNext

-----------------------------------------------------------------------------
(* The divider reaches 150 kSPS, and is not computed with a rate above the *)
(* clock's: for the clocks the core is specified for.                      *)
ClockInReach == 26 * 150000 <= Clock /\ Clock <= 255 * (26 * 150000)

Rated == sysmon.div \in 2 .. 255 /\ SampleRate <= 150000

LEMMA Pairs ==
  ASSUME NEW a \in Nat, NEW b \in Nat
  PROVE  /\ Min({a, b}) = IF a <= b THEN a ELSE b
         /\ Max({a, b}) = IF a >= b THEN a ELSE b
<1>1. Min({a, b}) = IF a <= b THEN a ELSE b
  <2>1. PICK m : m = IF a <= b THEN a ELSE b
    OBVIOUS
  <2>2. m \in {a, b} /\ (\A y \in {a, b} : m =< y) /\ \A x \in {a, b} : (\A y \in {a, b} : x =< y) => x = m
    BY <2>1
  <2>3. QED  BY <2>1, <2>2 DEF Min
<1>2. Max({a, b}) = IF a >= b THEN a ELSE b
  <2>1. PICK m : m = IF a >= b THEN a ELSE b
    OBVIOUS
  <2>2. m \in {a, b} /\ (\A y \in {a, b} : m >= y) /\ \A x \in {a, b} : (\A y \in {a, b} : x >= y) => x = m
    BY <2>1
  <2>3. QED  BY <2>1, <2>2 DEF Max
<1>3. QED  BY <1>1, <1>2

LEMMA Quotient ==
  ASSUME NEW a \in Nat, NEW b \in Nat \ {0}
  PROVE  a \div b \in Nat /\ b * (a \div b) <= a /\ a < b * (a \div b) + b
<1>1. a \div b \in Nat /\ a % b \in 0 .. b - 1 /\ a = b * (a \div b) + (a % b)
  OBVIOUS
<1>2. QED  BY <1>1

(* A rate of k takes a divider of Clock \div (26 * k), or one more.         *)
LEMMA Cancelled ==
  ASSUME NEW d \in Nat \ {0}, NEW q \in Nat, NEW m \in Nat, d * q < d * m
  PROVE  q < m
<1>1. ASSUME q >= m PROVE FALSE
  <2>1. d * q >= d * m
    BY ONLY <1>1, d \in Nat \ {0}, q \in Nat, m \in Nat
  <2>2. d * q \in Nat /\ d * m \in Nat
    OBVIOUS
  <2>3. QED  BY <2>1, <2>2
<1>2. QED  BY <1>1

LEMMA RateOf ==
  ASSUME NEW c \in Nat, NEW d \in Nat \ {0}, NEW k \in Nat, c < d * (26 * k + 1)
  PROVE  (c \div d) \div 26 <= k
<1> DEFINE q == c \div d
           m == 26 * k + 1
<1>1. q \in Nat /\ d * q <= c
  BY Quotient
<1>2. m \in Nat /\ c < d * m
  OBVIOUS
<1> HIDE DEF q, m
<1>3. d * q < d * m
  BY <1>1, <1>2
<1>4. q < m
  BY <1>1, <1>2, <1>3, Cancelled
<1>5. q < 26 * k + 1
  BY <1>4 DEF m
<1>6. QED  BY <1>1, <1>5 DEF q

Reaching(c, k, least, rate) ==
  LET val == Max({Min({rate, k}) * 26, least})
      div == c \div val
      up  == IF (c \div div) \div 26 > k THEN div + 1 ELSE div
  IN Max({2, Min({up, 255})})

LEMMA DividerBounds ==
  ASSUME NEW c \in Nat, NEW k \in Nat \ {0}, NEW least \in Nat \ {0}, least <= 26 * k,
         26 * k <= c, c <= 255 * (26 * k), NEW r \in Nat
  PROVE  /\ Reaching(c, k, least, r) \in 2 .. 255
         /\ (c \div Reaching(c, k, least, r)) \div 26 <= k
<1> DEFINE top == Min({r, k})
           val == Max({top * 26, least})
           div == c \div val
           up  == IF (c \div div) \div 26 > k THEN div + 1 ELSE div
           d   == Max({2, Min({up, 255})})
<1>2. top \in Nat /\ top <= k
  BY Pairs
<1> HIDE DEF top
<1>3. val \in Nat \ {0} /\ val <= 26 * k
  <2> DEFINE t == top * 26
  <2>1. t \in Nat /\ t <= 26 * k
    BY <1>2
  <2> HIDE DEF t
  <2>2. Max({t, least}) = IF t >= least THEN t ELSE least
    BY <2>1, Pairs
  <2>3. Max({t, least}) \in Nat \ {0} /\ Max({t, least}) <= 26 * k
    BY <2>1, <2>2
  <2>4. QED  BY <2>3 DEF t, val
<1> HIDE DEF val
<1>4. div \in Nat \ {0} /\ c < val * (div + 1)
  <2>1. div \in Nat /\ c < val * div + val
    BY <1>3, Quotient
  <2> HIDE DEF div
  <2>2. val * div + val = val * (div + 1)
    BY <1>3, <2>1
  <2>3. div # 0
    BY <1>3, <2>1
  <2>4. QED  BY <2>1, <2>2, <2>3
<1> HIDE DEF div
<1>5. up \in Nat \ {0} /\ (c \div up) \div 26 <= k
  <2>1. CASE (c \div div) \div 26 > k
    <3> DEFINE n == div + 1
    <3>1. up = n /\ n \in Nat \ {0} /\ c < val * n
      BY <1>4, <2>1
    <3> HIDE DEF n, up
    <3>2. val * n <= (26 * k + 1) * n
      BY ONLY <1>3, <3>1, k \in Nat \ {0}
    <3>3. (26 * k + 1) * n = n * (26 * k + 1)
      BY ONLY <3>1, k \in Nat \ {0}
    <3>4. c < n * (26 * k + 1)
      <4> DEFINE x == val * n
                 y == n * (26 * k + 1)
      <4>1. x \in Nat /\ y \in Nat /\ c < x /\ x <= y
        BY <1>3, <3>1, <3>2, <3>3
      <4> HIDE DEF x, y
      <4>2. c < y
        BY <4>1
      <4>3. QED  BY <4>2 DEF y
    <3>5. QED  BY <3>1, <3>4, RateOf
  <2>2. CASE ~ ((c \div div) \div 26 > k)
    <3>1. c \div div \in Nat
      BY <1>4, Quotient
    <3>2. QED  BY <1>4, <2>2, <3>1
  <2>3. QED  BY <2>1, <2>2
<1> HIDE DEF up
<1>6. d \in 2 .. 255 /\ (d = 255 \/ d = up \/ (d = 2 /\ up = 1))
  <2> DEFINE n == Min({up, 255})
  <2>1. n = IF up <= 255 THEN up ELSE 255
    BY <1>5, Pairs
  <2>2. n \in Nat
    BY <1>5, <2>1
  <2> HIDE DEF n
  <2>3. Max({2, n}) = IF 2 >= n THEN 2 ELSE n
    BY <2>2, Pairs
  <2>4. d = Max({2, n})
    BY DEF n
  <2> HIDE DEF d
  <2>5. QED  BY <1>5, <2>1, <2>3, <2>4
<1> HIDE DEF d
<1>7. (c \div d) \div 26 <= k
  <2>1. CASE d = 255
    <3>1. c < 255 * (26 * k + 1)
      OBVIOUS
    <3>2. QED  BY <2>1, <3>1, RateOf
  <2>2. CASE d = up
    BY <1>5, <2>2
  <2>3. CASE d = 2 /\ up = 1
    <3>1. c \div 1 = c
      OBVIOUS
    <3>2. c \div 2 \in Nat /\ c \div 2 <= c
      OBVIOUS
    <3>3. (c \div 2) \div 26 <= c \div 26
      BY <3>2
    <3>4. QED  BY <1>5, <2>3, <3>1, <3>2, <3>3
  <2>4. QED  BY <1>6, <2>1, <2>2, <2>3
<1>8. QED  BY <1>6, <1>7 DEF d, up, div, val, top, Reaching

LEMMA DividerInReach ==
  ASSUME ClockInReach, NEW r \in Rates
  PROVE  Divider(r) \in 2 .. 255 /\ (Clock \div Divider(r)) \div 26 <= 150000
<1> DEFINE k     == 150000
           least == 1000000
<1>1. /\ k \in Nat \ {0} /\ least \in Nat \ {0} /\ least <= 26 * k
      /\ Clock \in Nat /\ 26 * k <= Clock /\ Clock <= 255 * (26 * k) /\ r \in Nat
  <2>1. Clock \in Nat /\ r \in Nat
    BY AxiAssumption
  <2>2. 26 * k <= Clock /\ Clock <= 255 * (26 * k)
    BY SMT, <2>1 DEF ClockInReach
  <2>3. k \in Nat \ {0} /\ least \in Nat \ {0} /\ least <= 26 * k
    BY SMT
  <2>4. QED  BY SMT, <2>1, <2>2, <2>3
<1>2. Divider(r) = Reaching(Clock, k, least, r)
  BY SMT DEF Divider, Reaching
<1> HIDE DEF k, least
<1>3. /\ Reaching(Clock, k, least, r) \in 2 .. 255
      /\ (Clock \div Reaching(Clock, k, least, r)) \div 26 <= k
  BY <1>1, DividerBounds
<1>4. QED  BY SMT, <1>2, <1>3 DEF k

LEMMA ShapedKept ==
  ASSUME Shaped, AxiNext
  PROVE  Shaped'
<1>1. CASE OtherOn
  <2>1. PICK t \in Triggers : SetTrigger(t) /\ UNCHANGED <<buf, airq, thread>>
    BY <1>1 DEF OtherOn
  <2>2. QED  BY <2>1, SetTriggerDoes DEF Shaped
<1>2. CASE OtherOff
  <2>1. ClearTrigger /\ UNCHANGED <<buf, airq, thread, ahist>>
    BY <1>2 DEF OtherOff
  <2>2. QED  BY <2>1, ClearTriggerDoes DEF Shaped
<1>3. CASE Detach
  BY <1>3, DetachDoes, ClearTriggerDoes
<1>4. QED
  BY <1>1, <1>2, <1>3, ToggleDoes, EventConfigDoes, BufferStepDoes, SmallDo, BufferMovesDo, AttachDoes,
     HandlersDo, ThreadDoes DEF AxiNext

LEMMA RatedKept ==
  ASSUME ClockInReach, Shaped, Rated, AxiNext
  PROVE  Rated'
<1>1. CASE UNCHANGED sysmon.div
  BY SMT, <1>1 DEF Rated, SampleRate
<1>2. CASE EndOfSequence \/ WriteRate \/ AxiIrqAck
  <2>1. sysmon'.div = sysmon.div \/ \E r \in Rates : sysmon'.div = Divider(r)
    BY <1>2, SmallDo
  <2>2. CASE \E r \in Rates : sysmon'.div = Divider(r)
    BY SMT, <2>2, DividerInReach DEF Rated, SampleRate
  <2>3. QED  BY <1>1, <2>1, <2>2
<1>3. CASE ToggleAxi
  BY <1>1, <1>3, ToggleDoes
<1>4. CASE WriteEventConfigAxi
  BY <1>1, <1>4, EventConfigDoes
<1>5. CASE OtherOn
  <2>1. PICK t \in Triggers : SetTrigger(t) /\ UNCHANGED <<buf, airq, thread>>
    BY <1>5 DEF OtherOn
  <2>2. QED  BY <1>1, <2>1, SetTriggerDoes DEF Shaped
<1>6. CASE OtherOff
  <2>1. ClearTrigger /\ UNCHANGED <<buf, airq, thread, ahist>>
    BY <1>6 DEF OtherOff
  <2>2. QED  BY <1>1, <2>1, ClearTriggerDoes DEF Shaped
<1>7. CASE BufferStep
  BY <1>1, <1>7, BufferStepDoes
<1>8. CASE Attach
  <2>1. /\ buf' = [pc |-> buf'.pc, todo |-> buf'.todo, scan |-> buf'.scan] /\ UNCHANGED <<airq, thread>>
        /\ UNCHANGED sysmon \/ \E t \in Triggers : SetTrigger(t)
    BY <1>8, AttachDoes DEF Shaped
  <2>2. QED  BY <1>1, <2>1, SetTriggerDoes
<1>9. CASE Detach
  BY <1>1, <1>9, DetachDoes, ClearTriggerDoes
<1>10. CASE Enable \/ Detached \/ Off
  BY <1>1, <1>10, BufferMovesDo
<1>11. CASE AxiIrqStatus \/ AxiIrqServe
  BY <1>1, <1>11, HandlersDo
<1>12. CASE ThreadRead \/ ThreadPush
  BY <1>1, <1>12, ThreadDoes
<1>13. QED
  BY <1>2, <1>3, <1>4, <1>5, <1>6, <1>7, <1>8, <1>9, <1>10, <1>11, <1>12 DEF AxiNext

-----------------------------------------------------------------------------
AxiInv == Shaped /\ Truth /\ Together /\ Stages /\ Scanning

LEMMA ParsedIn ==
  ASSUME NEW g \in Garbage
  PROVE  Parsed(g) \subseteq 0 .. 31
<1> DEFINE entry(i) == IF i = 1 THEN g ELSE Kids[i - 1]
<1>1. \A i \in DOMAIN Kids : entry(i) \in 0 .. 16
  <2>1. Kids \in Seq(0 .. 16) /\ g \in 0 .. 16
    BY AxiAssumption
  <2>2. \A i \in DOMAIN Kids : i # 1 => i - 1 \in DOMAIN Kids
    BY ONLY <2>1
  <2>3. \A i \in DOMAIN Kids : Kids[i] \in 0 .. 16
    BY ONLY <2>1
  <2>4. QED  BY ONLY <2>1, <2>2, <2>3
<1>2. \A r \in 0 .. 16 : ScanOf(r) \in 0 .. 31
  BY DEF ScanOf
<1> HIDE DEF entry
<1>3. {ScanOf(entry(i)) : i \in DOMAIN Kids} \subseteq 0 .. 31
  BY <1>1, <1>2
<1>4. {Fixed[i] : i \in DOMAIN Fixed} \subseteq 0 .. 31
  <2>1. \A i \in DOMAIN Fixed : i \in 1 .. 9 /\ Fixed[i] \in 0 .. 31
    BY DEF Fixed
  <2>2. QED  BY <2>1
<1>5. Parsed(g) = {Fixed[i] : i \in DOMAIN Fixed} \cup {ScanOf(entry(i)) : i \in DOMAIN Kids}
  BY Zenon DEF Parsed, entry
<1>6. QED  BY <1>3, <1>4, <1>5

LEMMA AxiStarts ==
  ASSUME AxiInit
  PROVE  AxiInv /\ sysmon.div = 255
<1>1. PICK g \in Garbage :
        /\ sysmon = [on |-> {}, mode |-> "continuous", dis |-> Disabled({}), pd |-> FALSE, div |-> 255,
                     seq0 |-> ({0} \cup Parsed(g)) \cap 0 .. 15,
                     seq1 |-> ({0} \cup Parsed(g)) \cap 16 .. 31, isr |-> {}, ier |-> {}]
        /\ axi = [alarm_mask |-> {}, trigger |-> "none", data |-> 0, scans |-> Parsed(g)]
        /\ buf = [pc |-> "off", todo |-> <<>>, scan |-> {}]
        /\ airq = [pc |-> "idle", status |-> {}]
        /\ thread = [pc |-> "idle", left |-> {}, data |-> <<>>]
        /\ ahist = [ops |-> 0, seen |-> {}, ec |-> FALSE]
  BY Zenon DEF AxiInit
<1> DEFINE scans == Parsed(g)
           dis   == Disabled({})
           down  == FALSE
           no    == FALSE
<1>2. PowerDown("continuous") = down
  BY DEF PowerDown
<1>3. scans \subseteq 0 .. 31
  BY ParsedIn
<1>4. \A a \in Bit : Disable(a) \in dis
  BY DEF Disabled
<1>5. /\ sysmon = [on |-> {}, mode |-> "continuous", dis |-> dis, pd |-> down, div |-> 255,
                  seq0 |-> ({0} \cup scans) \cap 0 .. 15,
                  seq1 |-> ({0} \cup scans) \cap 16 .. 31, isr |-> {}, ier |-> {}]
      /\ axi = [alarm_mask |-> {}, trigger |-> "none", data |-> 0, scans |-> scans]
      /\ ahist = [ops |-> 0, seen |-> {}, ec |-> no]
  BY <1>1
<1> HIDE DEF scans, dis, down, no
<1>6. Shaped
  BY <1>1, <1>5 DEF Shaped
<1>7. Truth
  BY <1>1, <1>5 DEF Truth, Served
<1>8. Together
  BY <1>4, <1>5 DEF Together
<1>9. Stages
  <2>1. /\ sysmon.seq0 = Low(All) /\ sysmon.seq1 = High(All) /\ sysmon.mode = "continuous"
        /\ sysmon.pd = PowerDown("continuous")
    BY <1>2, <1>5 DEF Low, High, All
  <2>2. Leaving(sysmon, <<>>, All)
    BY <2>1 DEF Leaving
  <2>3. buf.pc = "off" /\ buf.todo = <<>> /\ buf.scan = {} /\ axi.scans = scans
    BY <1>1, <1>5
  <2>4. QED  BY <1>3, <2>2, <2>3 DEF Stages
<1>10. Scanning
  BY <1>1, <1>5 DEF Scanning
<1>11. QED  BY <1>5, <1>6, <1>7, <1>8, <1>9, <1>10 DEF AxiInv

LEMMA AxiSteps ==
  ASSUME AxiInv, [Next]_vars
  PROVE  AxiInv'
<1>1. CASE AxiNext
  BY <1>1, ShapedKept, TruthKept, TogetherKept, StagesKept, ScanningKept DEF AxiInv
<1>2. CASE UNCHANGED axiVars
  <2>1. UNCHANGED <<sysmon, axi, buf, airq, thread, ahist>>
    BY <1>2 DEF axiVars
  <2>2. QED
    BY <2>1 DEF AxiInv, Shaped, Truth, Served, Together, Stages, Taking, Leaving, All, Scanning, Placed
<1>3. QED  BY <1>1, <1>2 DEF Next, vars

(* The trigger handler stays in its memory and each channel of the scan is *)
(* pushed in its place (xadc_trigger_handler, xadc_update_scan_mode).      *)
THEOREM ScanInPlace == Spec => []ScanPushed
<1>1. Init => AxiInv
  BY AxiStarts DEF Init
<1>2. AxiInv /\ [Next]_vars => AxiInv'
  BY AxiSteps
<1>3. AxiInv => ScanPushed
  <2> SUFFICES ASSUME AxiInv PROVE ScanPushed
    OBVIOUS
  <2>1. CASE thread.pc = "idle"
    <3>1. thread.data = <<>> /\ axi.data \in Nat
      BY <2>1 DEF AxiInv, Scanning
    <3>2. Len(thread.data) = 0
      BY <3>1
    <3>3. QED  BY <2>1, <3>1, <3>2 DEF ScanPushed
  <2>2. CASE thread.pc = "run"
    <3>1. /\ buf.scan \subseteq 5 .. 31 /\ axi.data = Cardinality(buf.scan)
          /\ Len(thread.data) = Cardinality(buf.scan \ thread.left) /\ Placed(buf.scan, thread.data)
      BY <2>2 DEF AxiInv, Stages, Scanning
    <3>2. Cardinality(buf.scan \ thread.left) <= Cardinality(buf.scan)
      BY <3>1, Finite
    <3>3. QED  BY <3>1, <3>2 DEF ScanPushed, Placed
  <2>3. QED  BY <2>1, <2>2 DEF AxiInv, Scanning
<1>4. QED  BY <1>1, <1>2, <1>3, PTL DEF Spec

(* Alarm, sequencer, power-down and clock fields agree with what each of   *)
(* their writers has set. The clock: the driver's divider field is eight   *)
(* bits wide (xadc_write_samplerate), so 150 kSPS is within its reach and  *)
(* not below its smallest divider.                                         *)
THEOREM RegistersAgree ==
  ASSUME ClockInReach
  PROVE  Spec => []AxiConfig
<1> DEFINE Inv == AxiInv /\ Rated
<1>1. Init => Inv
  <2> SUFFICES ASSUME Init PROVE Rated
    BY AxiStarts DEF Init
  <2>1. sysmon.div = 255
    BY AxiStarts DEF Init
  <2> DEFINE k == 150000
  <2>2. Clock \in Nat /\ k \in Nat
    BY SMT, AxiAssumption
  <2>3. Clock <= 255 * (26 * k)
    BY SMT DEF ClockInReach
  <2> HIDE DEF k
  <2>4. Clock < 255 * (26 * k + 1)
    BY <2>2, <2>3
  <2>5. (Clock \div 255) \div 26 <= k
    BY <2>2, <2>4, RateOf
  <2>6. QED  BY SMT, <2>1, <2>5 DEF Rated, SampleRate, k
<1>2. Inv /\ [Next]_vars => Inv'
  <2> SUFFICES ASSUME Inv, [Next]_vars PROVE Inv'
    OBVIOUS
  <2>1. CASE AxiNext
    BY <2>1, AxiSteps, RatedKept DEF AxiInv
  <2>2. CASE UNCHANGED axiVars
    <3>1. UNCHANGED sysmon
      BY <2>2 DEF axiVars
    <3>2. Rated'
      BY SMT, <3>1 DEF Rated, SampleRate
    <3>3. QED  BY <3>2, AxiSteps
  <2>3. QED  BY <2>1, <2>2 DEF Next, vars
<1>3. Inv => AxiConfig
  <2> SUFFICES ASSUME Inv PROVE AxiConfig
    OBVIOUS
  <2>1. SampleRate <= 150000
    BY SMT DEF Rated
  <2>2. buf.pc = "on" => /\ sysmon.seq0 \cup sysmon.seq1 = buf.scan /\ sysmon.mode = SeqMode(buf.scan)
                         /\ sysmon.pd = PowerDown(sysmon.mode)
    <3> SUFFICES ASSUME buf.pc = "on"
                 PROVE /\ sysmon.seq0 \cup sysmon.seq1 = buf.scan /\ sysmon.mode = SeqMode(buf.scan)
                       /\ sysmon.pd = PowerDown(sysmon.mode)
      OBVIOUS
    <3>1. buf.todo = <<>> /\ Taking(sysmon, <<>>, buf.scan) /\ buf.scan \subseteq 5 .. 31
      BY DEF AxiInv, Stages
    <3>2. /\ sysmon.seq0 = Low(buf.scan) /\ sysmon.seq1 = High(buf.scan)
          /\ sysmon.pd = PowerDown(SeqMode(buf.scan)) /\ sysmon.mode = SeqMode(buf.scan)
      BY <3>1 DEF Taking
    <3>3. Low(buf.scan) \cup High(buf.scan) = buf.scan
      BY <3>1 DEF Low, High
    <3>4. QED  BY <3>2, <3>3
  <2>3. buf.pc = "off" => /\ sysmon.seq0 \cup sysmon.seq1 = axi.scans \cup {0}
                          /\ sysmon.mode = "continuous" /\ ~ sysmon.pd
    <3> SUFFICES ASSUME buf.pc = "off"
                 PROVE /\ sysmon.seq0 \cup sysmon.seq1 = axi.scans \cup {0}
                       /\ sysmon.mode = "continuous" /\ ~ sysmon.pd
      OBVIOUS
    <3>1. buf.todo = <<>> /\ Leaving(sysmon, <<>>, All) /\ axi.scans \subseteq 0 .. 31
      BY DEF AxiInv, Stages
    <3>2. /\ sysmon.seq0 = Low(All) /\ sysmon.seq1 = High(All)
          /\ sysmon.pd = PowerDown("continuous") /\ sysmon.mode = "continuous"
      BY <3>1 DEF Leaving
    <3>3. Low(All) \cup High(All) = axi.scans \cup {0}
      <4>1. All \subseteq 0 .. 31
        <5>1. 0 \in 0 .. 31
          OBVIOUS
        <5>2. QED  BY <3>1, <5>1, Zenon DEF All
      <4>2. \A x \in 0 .. 31 : x \in 0 .. 15 \/ x \in 16 .. 31
        OBVIOUS
      <4>3. Low(All) \cup High(All) = All
        BY <4>1, <4>2, Zenon DEF Low, High
      <4>4. QED  BY <4>3 DEF All
    <3>4. PowerDown("continuous") = FALSE
      BY DEF PowerDown
    <3>5. ~ sysmon.pd
      BY <3>2, <3>4, Zenon
    <3>6. QED  BY <3>2, <3>3, <3>5
  <2>4. Together
    BY DEF AxiInv
  <2>5. QED  BY SMT, <2>1, <2>2, <2>3, <2>4 DEF Together, AxiConfig
<1>4. QED  BY <1>1, <1>2, <1>3, PTL DEF Spec

-----------------------------------------------------------------------------
(* The Zynq: events.                                                       *)

ZShaped ==
  /\ core = [on |-> core.on, conf |-> core.conf, thr |-> core.thr, cfifo |-> core.cfifo,
             dfifo |-> core.dfifo, latch |-> core.latch, dfifoth |-> core.dfifoth, sts |-> core.sts]
  /\ xadc = [intmask |-> xadc.intmask, masked |-> xadc.masked, alarm_mask |-> xadc.alarm_mask,
             threshold |-> xadc.threshold, hyst |-> xadc.hyst, done |-> xadc.done]
  /\ call = [pc |-> call.pc, todo |-> call.todo, val |-> call.val]
  /\ irq = [pc |-> irq.pc, status |-> irq.status]
  /\ work = [queued |-> work.queued, pc |-> work.pc, misc |-> work.misc]
  /\ hist = [calls |-> hist.calls, spoiled |-> hist.spoiled, bad |-> hist.bad, due |-> hist.due]

Rose == {a \in Alarms : ToZynq(a) \in Active(core') \ (Active(core) \cup xadc.intmask)}

LEMMA LatchDoes ==
  ASSUME NEW c, NEW on, NEW conf, NEW thr, NEW cf, NEW df, NEW la, NEW th, NEW sts,
         c = [on |-> on, conf |-> conf, thr |-> thr, cfifo |-> cf, dfifo |-> df, latch |-> la,
              dfifoth |-> th, sts |-> sts]
  PROVE  /\ Latch(c) = [on |-> on, conf |-> conf, thr |-> thr, cfifo |-> cf, dfifo |-> df, latch |-> la,
                        dfifoth |-> th, sts |-> sts \cup Active(Latch(c))]
         /\ Active(Latch(c)) = Active(c)
<1> DEFINE act == Active(c)
<1>1. Latch(c) = [c EXCEPT !.sts = @ \cup act]
  BY DEF Latch
<1> HIDE DEF act
<1>2. Latch(c) = [on |-> on, conf |-> conf, thr |-> thr, cfifo |-> cf, dfifo |-> df, latch |-> la,
                  dfifoth |-> th, sts |-> sts \cup act]
  BY <1>1
<1>3. Active(Latch(c)) = {ToZynq(a) : a \in on \ conf.dis}
  BY <1>2 DEF Active
<1>4. act = {ToZynq(a) : a \in on \ conf.dis}
  BY DEF act, Active
<1>5. QED  BY <1>2, <1>3, <1>4 DEF act

(* Clearing status bits leaves those that are active.                      *)
LEMMA ClearDoes ==
  ASSUME ZShaped, NEW old, core' = Latch([core EXCEPT !.sts = old])
  PROVE  core' = [on |-> core.on, conf |-> core.conf, thr |-> core.thr, cfifo |-> core.cfifo,
                  dfifo |-> core.dfifo, latch |-> core.latch, dfifoth |-> core.dfifoth,
                  sts |-> old \cup Active(core)]
<1> DEFINE new == [core EXCEPT !.sts = old]
<1>1. new = [on |-> core.on, conf |-> core.conf, thr |-> core.thr, cfifo |-> core.cfifo,
             dfifo |-> core.dfifo, latch |-> core.latch, dfifoth |-> core.dfifoth, sts |-> old]
  BY DEF ZShaped
<1>2. core' = Latch(new)
  OBVIOUS
<1> HIDE DEF new
<1>3. Active(new) = Active(core)
  BY <1>1 DEF Active
<1> DEFINE act == Active(new)
<1>4. core' = [new EXCEPT !.sts = @ \cup act]
  BY <1>2 DEF Latch
<1> HIDE DEF act
<1>5. core' = [on |-> core.on, conf |-> core.conf, thr |-> core.thr, cfifo |-> core.cfifo,
               dfifo |-> core.dfifo, latch |-> core.latch, dfifoth |-> core.dfifoth, sts |-> old \cup act]
  BY <1>1, <1>4
<1>6. act = Active(core)
  BY <1>3 DEF act
<1>7. QED  BY <1>5, <1>6

(* What a change of core and the alarms it brings about do.                *)
Changed(new) == core' = Latch(new) /\ hist' = [hist EXCEPT !.due = @ \cup Risen(new)]

LEMMA ChangedDoes ==
  ASSUME ZShaped, UNCHANGED <<xadc, call, irq, work>>,
         NEW on, NEW conf, NEW thr, NEW cf, NEW df, NEW la,
         Changed([on |-> on, conf |-> conf, thr |-> thr, cfifo |-> cf, dfifo |-> df, latch |-> la,
                  dfifoth |-> core.dfifoth, sts |-> core.sts])
  PROVE  /\ ZShaped' /\ UNCHANGED <<hist.calls, hist.spoiled, hist.bad, core.dfifoth>>
         /\ core'.on = on /\ core'.conf = conf /\ core'.thr = thr /\ core'.cfifo = cf
         /\ core'.dfifo = df /\ core'.latch = la
         /\ core'.sts = core.sts \cup Active(core') /\ hist'.due = hist.due \cup Rose
<1> DEFINE new == [on |-> on, conf |-> conf, thr |-> thr, cfifo |-> cf, dfifo |-> df, latch |-> la,
                   dfifoth |-> core.dfifoth, sts |-> core.sts]
           act == Active(core')
<1>1. core' = Latch(new) /\ hist' = [hist EXCEPT !.due = @ \cup Risen(new)]
  BY DEF Changed
<1>2. /\ Latch(new) = [on |-> on, conf |-> conf, thr |-> thr, cfifo |-> cf, dfifo |-> df, latch |-> la,
                       dfifoth |-> core.dfifoth, sts |-> core.sts \cup Active(Latch(new))]
      /\ Active(Latch(new)) = Active(new)
  BY LatchDoes
<1>3. Risen(new) = Rose
  BY <1>1, <1>2 DEF Risen, Rose
<1> HIDE DEF new
<1>4. core' = [on |-> on, conf |-> conf, thr |-> thr, cfifo |-> cf, dfifo |-> df, latch |-> la,
               dfifoth |-> core.dfifoth, sts |-> core.sts \cup act]
  BY <1>1, <1>2 DEF act
<1> DEFINE rose == Rose
<1> HIDE DEF act, rose
<1>5. hist' = [calls |-> hist.calls, spoiled |-> hist.spoiled, bad |-> hist.bad, due |-> hist.due \cup rose]
  BY <1>1, <1>3 DEF ZShaped, rose
<1>6. ZShaped'
  BY <1>4, <1>5 DEF ZShaped
<1>7. QED  BY <1>4, <1>5, <1>6 DEF act, rose

LEMMA ToggleZDoes ==
  ASSUME ZShaped, Toggle
  PROVE  /\ ZShaped' /\ UNCHANGED <<xadc, call, irq, work>>
         /\ UNCHANGED <<hist.calls, hist.spoiled, hist.bad, core.dfifoth>>
         /\ UNCHANGED <<core.conf, core.thr, core.cfifo, core.dfifo, core.latch>>
         /\ \E a \in Alarms : core'.on \subseteq core.on \cup {a}
         /\ core'.sts = core.sts \cup Active(core') /\ hist'.due = hist.due \cup Rose
<1>1. PICK a \in Alarms : Changed([core EXCEPT !.on = IF a \in @ THEN @ \ {a} ELSE @ \cup {a}])
  BY DEF Toggle, Changed
<1> DEFINE on == IF a \in core.on THEN core.on \ {a} ELSE core.on \cup {a}
<1>2. on \subseteq core.on \cup {a}
  OBVIOUS
<1>3. [core EXCEPT !.on = IF a \in @ THEN @ \ {a} ELSE @ \cup {a}] = [core EXCEPT !.on = on]
  BY DEF ZShaped
<1> HIDE DEF on
<1>4. [core EXCEPT !.on = on]
        = [on |-> on, conf |-> core.conf, thr |-> core.thr, cfifo |-> core.cfifo, dfifo |-> core.dfifo,
           latch |-> core.latch, dfifoth |-> core.dfifoth, sts |-> core.sts]
  BY DEF ZShaped
<1>5. UNCHANGED <<xadc, call, irq, work>>
  BY DEF Toggle
<1>6. Changed([on |-> on, conf |-> core.conf, thr |-> core.thr, cfifo |-> core.cfifo,
               dfifo |-> core.dfifo, latch |-> core.latch, dfifoth |-> core.dfifoth, sts |-> core.sts])
  BY <1>1, <1>3, <1>4
<1>7. QED  BY <1>2, <1>5, <1>6, ChangedDoes

Executed(c) ==
  /\ core'.cfifo = Tail(core.cfifo) /\ core'.dfifo = Append(core.dfifo, core.latch)
  /\ core'.latch = IF c.op = "READ" THEN Fetched(c.reg) ELSE None
  /\ core'.conf = IF c.op = "WRITE" /\ c.reg = CONF1 THEN c.data.conf ELSE core.conf
  /\ core'.thr = IF c.op = "WRITE" /\ c.reg # CONF1
                 THEN [core.thr EXCEPT ![c.reg - Threshold(0)] = c.data.val] ELSE core.thr

LEMMA ExecuteDoes ==
  ASSUME ZShaped, Execute
  PROVE  /\ ZShaped' /\ UNCHANGED <<xadc, call, irq, work>>
         /\ UNCHANGED <<hist.calls, hist.spoiled, hist.bad, core.dfifoth, core.on>>
         /\ core.cfifo # <<>> /\ Executed(Head(core.cfifo))
         /\ core'.sts = core.sts \cup Active(core') /\ hist'.due = hist.due \cup Rose
<1> DEFINE c  == Head(core.cfifo)
           cf == Tail(core.cfifo)
           df == Append(core.dfifo, core.latch)
           la == IF c.op = "READ" THEN Fetched(c.reg) ELSE None
           val == c.data.val
           x  == c.data.conf
           i  == c.reg - Threshold(0)
           done == [core EXCEPT !.cfifo = cf, !.dfifo = df, !.latch = la]
           rec(co, th, f, d, l) ==
              [on |-> core.on, conf |-> co, thr |-> th, cfifo |-> f, dfifo |-> d, latch |-> l,
               dfifoth |-> core.dfifoth, sts |-> core.sts]
<1>1. /\ core.cfifo # <<>> /\ UNCHANGED <<xadc, call, irq, work>>
      /\ Changed(IF c.op # "WRITE" THEN done
                 ELSE IF c.reg = CONF1 THEN [done EXCEPT !.conf = x]
                 ELSE [done EXCEPT !.thr[i] = val])
  <2>1. [core EXCEPT !.cfifo = Tail(@), !.dfifo = Append(@, core.latch), !.latch = la] = done
    BY DEF ZShaped
  <2>2. QED  BY <2>1 DEF Execute, Changed
<1>2. done = rec(core.conf, core.thr, cf, df, la)
  <2> HIDE DEF cf, df, la
  <2>1. [core EXCEPT !.cfifo = cf] = rec(core.conf, core.thr, cf, core.dfifo, core.latch)
    BY DEF ZShaped
  <2>2. [rec(core.conf, core.thr, cf, core.dfifo, core.latch) EXCEPT !.dfifo = df]
          = rec(core.conf, core.thr, cf, df, core.latch)
    OBVIOUS
  <2>3. [rec(core.conf, core.thr, cf, df, core.latch) EXCEPT !.latch = la]
          = rec(core.conf, core.thr, cf, df, la)
    OBVIOUS
  <2>4. QED  BY <2>1, <2>2, <2>3
<1> HIDE DEF cf, df, la, done, x, val, i
<1>3. [done EXCEPT !.conf = x] = rec(x, core.thr, cf, df, la)
  BY <1>2
<1>4. [done EXCEPT !.thr[i] = val] = rec(core.conf, [core.thr EXCEPT ![i] = val], cf, df, la)
  BY <1>2
<1> DEFINE conf1 == IF c.op = "WRITE" /\ c.reg = CONF1 THEN x ELSE core.conf
           thr1  == IF c.op = "WRITE" /\ c.reg # CONF1 THEN [core.thr EXCEPT ![i] = val] ELSE core.thr
<1>5. Changed(rec(conf1, thr1, cf, df, la))
  <2>1. CASE c.op # "WRITE"
    BY <1>1, <1>2, <2>1
  <2>2. CASE c.op = "WRITE" /\ c.reg = CONF1
    BY <1>1, <1>3, <2>2
  <2>3. CASE c.op = "WRITE" /\ c.reg # CONF1
    BY <1>1, <1>4, <2>3
  <2>4. QED  BY <2>1, <2>2, <2>3
<1> HIDE DEF conf1, thr1
<1>6. /\ ZShaped' /\ UNCHANGED <<hist.calls, hist.spoiled, hist.bad, core.dfifoth>>
      /\ core'.on = core.on /\ core'.conf = conf1 /\ core'.thr = thr1 /\ core'.cfifo = cf
      /\ core'.dfifo = df /\ core'.latch = la
      /\ core'.sts = core.sts \cup Active(core') /\ hist'.due = hist.due \cup Rose
  BY <1>1, <1>5, ChangedDoes
<1>7. Executed(c)
  BY <1>6 DEF Executed, conf1, thr1, x, val, i, cf, df, la
<1>8. QED  BY <1>1, <1>6, <1>7

-----------------------------------------------------------------------------
(* Whether an access is spoiled is a truth value; records hold it as it is.*)
LEMMA IssueDoes ==
  ASSUME ZShaped, ReadIssue \/ WriteIssue
  PROVE  /\ ZShaped' /\ UNCHANGED <<irq, work, core.on, core.conf, core.thr, core.latch, core.sts>>
         /\ UNCHANGED <<xadc.masked, xadc.alarm_mask, xadc.threshold, xadc.hyst>>
         /\ UNCHANGED <<call.todo, call.val, hist.calls, hist.due>>
         /\ call.pc = "issue" /\ call'.pc = "wait" /\ xadc'.intmask = xadc.intmask \ {GTH}
         /\ ~ xadc'.done
         /\ \/ /\ Head(call.todo).op = "READ" /\ core'.cfifo = core.cfifo \o <<Head(call.todo), Nop>>
               /\ core'.dfifo = <<>> /\ core'.dfifoth = 1 /\ hist'.bad = hist.bad
               /\ hist'.spoiled <=> (hist.spoiled \/ Straddled) /\ ~ (core.cfifo = <<>> /\ irq.pc = "idle")
            \/ /\ Head(call.todo).op = "WRITE" /\ core'.cfifo = core.cfifo \o <<Head(call.todo)>>
               /\ core'.dfifo = core.dfifo /\ core'.dfifoth = 0
               /\ hist'.bad = hist.bad \ {Head(call.todo).reg}
               /\ hist'.spoiled <=> hist.spoiled \/ Straddled
<1> DEFINE c    == Head(call.todo)
           mask == xadc.intmask \ {GTH}
           no   == FALSE
<1>1. ASSUME NEW cmds, NEW th, NEW old, Issued(cmds, th, old)
      PROVE  /\ core' = [on |-> core.on, conf |-> core.conf, thr |-> core.thr, cfifo |-> core.cfifo \o cmds,
                         dfifo |-> old, latch |-> core.latch, dfifoth |-> th, sts |-> core.sts]
             /\ xadc' = [intmask |-> mask, masked |-> xadc.masked, alarm_mask |-> xadc.alarm_mask,
                         threshold |-> xadc.threshold, hyst |-> xadc.hyst, done |-> no]
  <2> DEFINE cf == core.cfifo \o cmds
             rec(f, d, t) == [on |-> core.on, conf |-> core.conf, thr |-> core.thr, cfifo |-> f,
                              dfifo |-> d, latch |-> core.latch, dfifoth |-> t, sts |-> core.sts]
             xrec(i, d) == [intmask |-> i, masked |-> xadc.masked, alarm_mask |-> xadc.alarm_mask,
                            threshold |-> xadc.threshold, hyst |-> xadc.hyst, done |-> d]
  <2>1. /\ core' = [core EXCEPT !.cfifo = cf, !.dfifo = old, !.dfifoth = th]
        /\ xadc' = [xadc EXCEPT !.done = no, !.intmask = mask]
    BY <1>1 DEF Issued, ZShaped
  <2> HIDE DEF cf, mask, no
  <2>2. [core EXCEPT !.cfifo = cf] = rec(cf, core.dfifo, core.dfifoth)
    BY DEF ZShaped
  <2>3. [rec(cf, core.dfifo, core.dfifoth) EXCEPT !.dfifo = old] = rec(cf, old, core.dfifoth)
    OBVIOUS
  <2>4. [rec(cf, old, core.dfifoth) EXCEPT !.dfifoth = th] = rec(cf, old, th)
    OBVIOUS
  <2>5. [xadc EXCEPT !.done = no] = xrec(xadc.intmask, no)
    BY DEF ZShaped
  <2>6. [xrec(xadc.intmask, no) EXCEPT !.intmask = mask] = xrec(mask, no)
    OBVIOUS
  <2>7. core' = rec(cf, old, th)
    BY <2>1, <2>2, <2>3, <2>4
  <2>8. xadc' = xrec(mask, no)
    BY <2>1, <2>5, <2>6
  <2>9. QED  BY <2>7, <2>8 DEF cf
<1>2. call.pc = "issue" /\ UNCHANGED <<irq, work>> /\ call' = [call EXCEPT !.pc = "wait"]
  BY DEF ReadIssue, WriteIssue
<1>3. call' = [pc |-> "wait", todo |-> call.todo, val |-> call.val]
  BY <1>2 DEF ZShaped
<1>4. CASE ReadIssue
  <2> DEFINE sp == (hist.spoiled \/ Straddled) /\ ~ (core.cfifo = <<>> /\ irq.pc = "idle")
  <2>1. Issued(<<c, Nop>>, 1, <<>>) /\ c.op = "READ"
    BY <1>4 DEF ReadIssue
  <2>2. hist' = [hist EXCEPT !.spoiled = sp]
    BY <1>4 DEF ReadIssue, ZShaped
  <2> HIDE DEF sp
  <2>3. hist' = [calls |-> hist.calls, spoiled |-> sp, bad |-> hist.bad, due |-> hist.due]
    BY <2>2 DEF ZShaped
  <2> HIDE DEF c, mask, no
  <2>4. /\ core' = [on |-> core.on, conf |-> core.conf, thr |-> core.thr, cfifo |-> core.cfifo \o <<c, Nop>>,
                    dfifo |-> <<>>, latch |-> core.latch, dfifoth |-> 1, sts |-> core.sts]
        /\ xadc' = [intmask |-> mask, masked |-> xadc.masked, alarm_mask |-> xadc.alarm_mask,
                    threshold |-> xadc.threshold, hyst |-> xadc.hyst, done |-> no]
    BY <1>1, <2>1
  <2>5. ZShaped'
    BY <1>2, <1>3, <2>3, <2>4 DEF ZShaped
  <2>6. hist'.spoiled = sp /\ xadc'.done = no
    BY <2>3, <2>4
  <2>7. (hist'.spoiled <=> (hist.spoiled \/ Straddled) /\ ~ (core.cfifo = <<>> /\ irq.pc = "idle"))
        /\ ~ xadc'.done
    BY <2>6, Zenon DEF sp, no
  <2>8. QED  BY <1>2, <1>3, <2>1, <2>3, <2>4, <2>5, <2>7 DEF c, mask
<1>5. CASE WriteIssue
  <2> DEFINE sp == hist.spoiled \/ Straddled
             bad == hist.bad \ {c.reg}
  <2>1. Issued(<<c>>, 0, core.dfifo) /\ c.op = "WRITE"
    BY <1>5 DEF WriteIssue
  <2>2. hist' = [hist EXCEPT !.spoiled = sp, !.bad = bad]
    BY <1>5 DEF WriteIssue, ZShaped
  <2> HIDE DEF sp, bad
  <2>3. hist' = [calls |-> hist.calls, spoiled |-> sp, bad |-> bad, due |-> hist.due]
    BY <2>2 DEF ZShaped
  <2> HIDE DEF c, mask, no
  <2>4. /\ core' = [on |-> core.on, conf |-> core.conf, thr |-> core.thr, cfifo |-> core.cfifo \o <<c>>,
                    dfifo |-> core.dfifo, latch |-> core.latch, dfifoth |-> 0, sts |-> core.sts]
        /\ xadc' = [intmask |-> mask, masked |-> xadc.masked, alarm_mask |-> xadc.alarm_mask,
                    threshold |-> xadc.threshold, hyst |-> xadc.hyst, done |-> no]
    BY <1>1, <2>1
  <2>5. ZShaped'
    BY <1>2, <1>3, <2>3, <2>4 DEF ZShaped
  <2>6. hist'.spoiled = sp /\ xadc'.done = no
    BY <2>3, <2>4
  <2>7. (hist'.spoiled <=> hist.spoiled \/ Straddled) /\ ~ xadc'.done
    BY <2>6, Zenon DEF sp, no
  <2>8. QED  BY <1>2, <1>3, <2>1, <2>3, <2>4, <2>5, <2>7 DEF c, mask, bad
<1>6. QED  BY <1>4, <1>5

(* What the end of an access does to the call.                             *)
Rested ==
  /\ call'.val = call.val
  /\ IF Len(call.todo) = 1 THEN call'.pc = "idle" /\ call'.todo = <<>>
     ELSE call'.pc = "issue" /\ call'.todo = Tail(call.todo)

LEMMA RestDoes ==
  ASSUME ZShaped, call' = Rest(call)
  PROVE  Rested /\ call' = [pc |-> call'.pc, todo |-> call'.todo, val |-> call'.val]
<1> DEFINE t == Tail(call.todo)
<1>1. CASE Len(call.todo) = 1
  <2>1. call' = [pc |-> "idle", todo |-> <<>>, val |-> call.val]
    BY <1>1 DEF Rest, Idle, ZShaped
  <2>2. QED  BY <1>1, <2>1 DEF Rested
<1>2. CASE Len(call.todo) # 1
  <2>1. call' = [call EXCEPT !.pc = "issue", !.todo = t]
    BY <1>2 DEF Rest, ZShaped
  <2> HIDE DEF t
  <2>2. call' = [pc |-> "issue", todo |-> t, val |-> call.val]
    BY <2>1 DEF ZShaped
  <2>3. QED  BY <1>2, <2>2 DEF Rested, t
<1>3. QED  BY <1>1, <1>2

LEMMA IdleDoes ==
  ASSUME ZShaped, call' = Idle(call)
  PROVE  call' = [pc |-> "idle", todo |-> <<>>, val |-> call.val]
  BY DEF Idle, ZShaped

(* The data FIFO alone.                                                    *)
Drained(old) ==
  core' = [on |-> core.on, conf |-> core.conf, thr |-> core.thr, cfifo |-> core.cfifo, dfifo |-> old,
           latch |-> core.latch, dfifoth |-> core.dfifoth, sts |-> core.sts]

LEMMA DoneDoes ==
  ASSUME ZShaped, ReadDone \/ WriteDone
  PROVE  /\ ZShaped' /\ UNCHANGED <<irq, work, hist>>
         /\ UNCHANGED <<core.on, core.conf, core.thr, core.cfifo, core.latch, core.dfifoth, core.sts>>
         /\ UNCHANGED <<xadc.intmask, xadc.masked, xadc.alarm_mask, xadc.threshold, xadc.hyst>>
         /\ call.pc = "wait" /\ xadc.done /\ ~ xadc'.done
         /\ \/ /\ Head(call.todo).op = "READ" /\ core'.dfifo = PopN(2) /\ UNCHANGED call.todo
               /\ call'.pc = "got" /\ call'.val = Word(2)
            \/ Head(call.todo).op = "WRITE" /\ core'.dfifo = PopN(1) /\ Rested
<1> DEFINE no == FALSE
<1>1. /\ call.pc = "wait" /\ xadc.done /\ UNCHANGED <<irq, work, hist>>
      /\ xadc' = [xadc EXCEPT !.done = no]
  BY DEF ReadDone, WriteDone
<1> HIDE DEF no
<1>2. xadc' = [intmask |-> xadc.intmask, masked |-> xadc.masked, alarm_mask |-> xadc.alarm_mask,
               threshold |-> xadc.threshold, hyst |-> xadc.hyst, done |-> no]
  BY <1>1 DEF ZShaped
<1>3. xadc'.done = no
  BY <1>2
<1>4. ~ xadc'.done
  BY <1>3, Zenon DEF no
<1>5. CASE ReadDone
  <2> DEFINE df == PopN(2)
             w  == Word(2)
  <2>1. /\ core' = [core EXCEPT !.dfifo = df] /\ call' = [call EXCEPT !.pc = "got", !.val = w]
        /\ Head(call.todo).op = "READ"
    BY <1>5 DEF ReadDone
  <2> HIDE DEF df, w
  <2>2. Drained(df) /\ call' = [pc |-> "got", todo |-> call.todo, val |-> w]
    BY <2>1 DEF ZShaped, Drained
  <2>3. ZShaped'
    BY <1>1, <1>2, <2>2 DEF ZShaped, Drained
  <2>4. QED  BY <1>1, <1>2, <1>4, <2>1, <2>2, <2>3 DEF Drained, df, w
<1>6. CASE WriteDone
  <2> DEFINE df == PopN(1)
  <2>1. core' = [core EXCEPT !.dfifo = df] /\ call' = Rest(call) /\ Head(call.todo).op = "WRITE"
    BY <1>6 DEF WriteDone
  <2> HIDE DEF df
  <2>2. Drained(df)
    BY <2>1 DEF ZShaped, Drained
  <2>3. Rested /\ call' = [pc |-> call'.pc, todo |-> call'.todo, val |-> call'.val]
    BY <2>1, RestDoes
  <2>4. ZShaped'
    BY <1>1, <1>2, <2>2, <2>3 DEF ZShaped, Drained
  <2>5. QED  BY <1>1, <1>2, <1>4, <2>1, <2>2, <2>3, <2>4 DEF Drained, df
<1>7. QED  BY <1>5, <1>6

LEMMA GivenUpDoes ==
  ASSUME ZShaped, Timeout \/ Signal
  PROVE  /\ ZShaped' /\ UNCHANGED <<xadc, irq, work, hist.calls, hist.due, call.val>>
         /\ UNCHANGED <<core.on, core.conf, core.thr, core.cfifo, core.latch, core.dfifoth, core.sts>>
         /\ call.pc = "wait" /\ hist'.spoiled
         /\ \/ /\ call'.pc = "idle" /\ call'.todo = <<>> /\ hist'.bad = hist.bad \cup Unwritten
               /\ core'.dfifo = IF Head(call.todo).op = "WRITE" THEN PopN(1) ELSE core.dfifo
            \/ /\ Head(call.todo).op = "WRITE" /\ Rested /\ hist'.bad = hist.bad /\ core'.dfifo = PopN(1)
<1> DEFINE yes == TRUE
           un  == Unwritten
           df  == IF Head(call.todo).op = "WRITE" THEN PopN(1) ELSE core.dfifo
<1>1. call.pc = "wait" /\ UNCHANGED <<xadc, irq, work>>
  BY DEF Timeout, Signal
<1>2. \/ /\ call' = Idle(call) /\ hist' = [hist EXCEPT !.spoiled = yes, !.bad = @ \cup un]
         /\ core' = [core EXCEPT !.dfifo = df]
      \/ /\ call' = Rest(call) /\ hist' = [hist EXCEPT !.spoiled = yes]
         /\ core' = [core EXCEPT !.dfifo = df] /\ Head(call.todo).op = "WRITE"
  <2>1. core = [core EXCEPT !.dfifo = core.dfifo]
    BY DEF ZShaped
  <2>2. CASE Timeout
    BY <2>1, <2>2 DEF Timeout
  <2>3. CASE Signal
    BY <2>1, <2>3 DEF Signal
  <2>4. QED  BY <2>2, <2>3
<1> HIDE DEF yes, un, df
<1>3. Drained(df)
  BY <1>2 DEF ZShaped, Drained
<1>4. CASE call' = Idle(call) /\ hist' = [hist EXCEPT !.spoiled = yes, !.bad = @ \cup un]
  <2>1. hist' = [calls |-> hist.calls, spoiled |-> yes, bad |-> hist.bad \cup un, due |-> hist.due]
    BY <1>4 DEF ZShaped
  <2>2. call' = [pc |-> "idle", todo |-> <<>>, val |-> call.val]
    BY <1>4, IdleDoes
  <2>3. ZShaped'
    BY <1>1, <1>3, <2>1, <2>2 DEF ZShaped, Drained
  <2>4. hist'.spoiled
    <3>1. hist'.spoiled = yes
      BY <2>1
    <3>2. QED  BY <3>1, Zenon DEF yes
  <2>5. QED  BY <1>1, <1>3, <2>1, <2>2, <2>3, <2>4 DEF Drained, un, df
<1>5. CASE call' = Rest(call) /\ hist' = [hist EXCEPT !.spoiled = yes] /\ Head(call.todo).op = "WRITE"
  <2>1. hist' = [calls |-> hist.calls, spoiled |-> yes, bad |-> hist.bad, due |-> hist.due]
    BY <1>5 DEF ZShaped
  <2>2. Rested /\ call' = [pc |-> call'.pc, todo |-> call'.todo, val |-> call'.val]
    BY <1>5, RestDoes
  <2>3. ZShaped'
    BY <1>1, <1>3, <2>1, <2>2 DEF ZShaped, Drained
  <2>4. hist'.spoiled
    <3>1. hist'.spoiled = yes
      BY <2>1
    <3>2. QED  BY <3>1, Zenon DEF yes
  <2>5. UNCHANGED call.val
    BY <2>2 DEF Rested
  <2>6. QED  BY <1>1, <1>3, <1>5, <2>1, <2>2, <2>3, <2>4, <2>5 DEF Drained, df
<1>6. QED  BY <1>2, <1>4, <1>5

-----------------------------------------------------------------------------
(* Calls.                                                                  *)
LEMMA BeginDoes ==
  ASSUME ZShaped, NEW todo, Begin(todo)
  PROVE  call.pc = "idle" /\ call' = [pc |-> "issue", todo |-> todo, val |-> call.val]
<1>1. call.pc = "idle" /\ call' = [call EXCEPT !.pc = "issue", !.todo = todo]
  BY DEF Begin
<1>2. QED  BY <1>1 DEF ZShaped

LEMMA ReadsDo ==
  ASSUME ZShaped, ReadRaw \/ ReadValue
  PROVE  /\ ZShaped' /\ UNCHANGED <<core, xadc, irq, work, hist.spoiled, hist.bad, hist.due, call.val>>
         /\ \/ /\ call.pc = "idle" /\ call'.pc = "issue" /\ call'.todo = <<Cmd("READ", ADC, None)>>
            \/ call.pc = "got" /\ call'.pc = "idle" /\ call'.todo = <<>>
<1>1. CASE ReadRaw
  <2> DEFINE todo == <<Cmd("READ", ADC, None)>>
  <2>1. Begin(todo) /\ hist' = [hist EXCEPT !.calls = @ + 1] /\ UNCHANGED <<core, xadc, irq, work>>
    BY <1>1 DEF ReadRaw
  <2> HIDE DEF todo
  <2>2. call.pc = "idle" /\ call' = [pc |-> "issue", todo |-> todo, val |-> call.val]
    BY <2>1, BeginDoes
  <2>3. hist' = [calls |-> hist.calls + 1, spoiled |-> hist.spoiled, bad |-> hist.bad, due |-> hist.due]
    BY <2>1 DEF ZShaped
  <2>4. ZShaped'
    BY <2>1, <2>2, <2>3 DEF ZShaped
  <2>5. QED  BY <2>1, <2>2, <2>3, <2>4 DEF todo
<1>2. CASE ReadValue
  <2>1. call.pc = "got" /\ call' = Idle(call) /\ UNCHANGED <<core, xadc, irq, work, hist>>
    BY <1>2 DEF ReadValue
  <2>2. call' = [pc |-> "idle", todo |-> <<>>, val |-> call.val]
    BY <2>1, IdleDoes
  <2>3. QED  BY <2>1, <2>2 DEF ZShaped
<1>3. QED  BY <1>1, <1>2

Opened(mask) == {ToZynq(a) : a \in mask}

LEMMA WriteEventConfigDoes ==
  ASSUME ZShaped, WriteEventConfig
  PROVE  /\ ZShaped' /\ UNCHANGED <<irq, work, hist.bad, call.val>>
         /\ UNCHANGED <<core.on, core.conf, core.thr, core.cfifo, core.dfifo, core.latch, core.dfifoth>>
         /\ UNCHANGED <<xadc.masked, xadc.threshold, xadc.hyst, xadc.done>>
         /\ call.pc = "idle" /\ call'.pc = "issue" /\ call'.todo = <<Cmd("READ", CONF1, None)>>
         /\ \E c \in Channels : xadc'.alarm_mask \subseteq xadc.alarm_mask \cup {AlarmOf(c)}
         /\ xadc'.intmask = (Ints \ (Opened(xadc'.alarm_mask) \cup {GTH})) \cup (xadc.intmask \cap {GTH})
         /\ core'.sts = (core.sts \ Opened(xadc'.alarm_mask)) \cup Active(core)
         /\ hist'.spoiled <=> hist.spoiled \/ irq.pc # "idle"
         /\ hist'.due = (hist.due \ xadc'.alarm_mask)
                           \cup {a \in xadc'.alarm_mask : ToZynq(a) \in Active(core)}
<1> DEFINE todo == <<Cmd("READ", CONF1, None)>>
           sp   == hist.spoiled \/ irq.pc # "idle"
           int(m) == (Ints \ (Opened(m) \cup {GTH})) \cup (xadc.intmask \cap {GTH})
           due(m) == (hist.due \ m) \cup {a \in m : ToZynq(a) \in Active(core)}
<1>1. PICK c \in Channels, on \in BOOLEAN :
        LET mask == IF on THEN xadc.alarm_mask \cup {AlarmOf(c)} ELSE xadc.alarm_mask \ {AlarmOf(c)}
        IN /\ Begin(todo)
           /\ xadc' = [xadc EXCEPT !.alarm_mask = mask, !.intmask = int(mask)]
           /\ core' = Latch([core EXCEPT !.sts = @ \ Opened(mask)])
           /\ hist' = [hist EXCEPT !.calls = @ + 1, !.spoiled = @ \/ irq.pc # "idle", !.due = due(mask)]
           /\ UNCHANGED <<irq, work>>
  <2> HIDE DEF todo
  <2>1. \E c \in Channels, on \in BOOLEAN :
        LET mask == IF on THEN xadc.alarm_mask \cup {AlarmOf(c)} ELSE xadc.alarm_mask \ {AlarmOf(c)}
        IN /\ Begin(todo)
           /\ xadc' = [xadc EXCEPT !.alarm_mask = mask, !.intmask = int(mask)]
           /\ core' = Latch([core EXCEPT !.sts = @ \ Opened(mask)])
           /\ hist' = [hist EXCEPT !.calls = @ + 1, !.spoiled = @ \/ irq.pc # "idle",
                                   !.due = (@ \ mask) \cup {a \in mask : ToZynq(a) \in Active(core)}]
           /\ UNCHANGED <<irq, work>>
    BY Zenon DEF WriteEventConfig, Opened, todo
  <2>2. hist = [calls |-> hist.calls, spoiled |-> hist.spoiled, bad |-> hist.bad, due |-> hist.due]
    BY DEF ZShaped
  <2>3. ASSUME NEW mask
        PROVE [hist EXCEPT !.calls = @ + 1, !.spoiled = @ \/ irq.pc # "idle",
                           !.due = (@ \ mask) \cup {a \in mask : ToZynq(a) \in Active(core)}]
              = [hist EXCEPT !.calls = @ + 1, !.spoiled = @ \/ irq.pc # "idle", !.due = due(mask)]
    BY <2>2
  <2>4. QED  BY <2>1, <2>3
<1> DEFINE mask == IF on THEN xadc.alarm_mask \cup {AlarmOf(c)} ELSE xadc.alarm_mask \ {AlarmOf(c)}
           newint == int(mask)
           newdue == due(mask)
           old  == core.sts \ Opened(mask)
           act  == Active(core)
<1>2. mask \subseteq xadc.alarm_mask \cup {AlarmOf(c)}
  OBVIOUS
<1>3. /\ Begin(todo) /\ xadc' = [xadc EXCEPT !.alarm_mask = mask, !.intmask = newint]
      /\ core' = Latch([core EXCEPT !.sts = old]) /\ UNCHANGED <<irq, work>>
      /\ hist' = [hist EXCEPT !.calls = hist.calls + 1, !.spoiled = sp, !.due = newdue]
  BY <1>1 DEF ZShaped
<1> HIDE DEF todo, sp, mask, newint, newdue, old, act
<1>4. call.pc = "idle" /\ call' = [pc |-> "issue", todo |-> todo, val |-> call.val]
  BY <1>3, BeginDoes
<1>5. xadc' = [intmask |-> newint, masked |-> xadc.masked, alarm_mask |-> mask,
               threshold |-> xadc.threshold, hyst |-> xadc.hyst, done |-> xadc.done]
  BY <1>3 DEF ZShaped
<1>6. hist' = [calls |-> hist.calls + 1, spoiled |-> sp, bad |-> hist.bad, due |-> newdue]
  <2> DEFINE rec(n, p, d) == [calls |-> n, spoiled |-> p, bad |-> hist.bad, due |-> d]
             n1 == hist.calls + 1
  <2> HIDE DEF n1
  <2>1. [hist EXCEPT !.calls = n1] = rec(n1, hist.spoiled, hist.due)
    BY DEF ZShaped
  <2>2. [rec(n1, hist.spoiled, hist.due) EXCEPT !.spoiled = sp] = rec(n1, sp, hist.due)
    OBVIOUS
  <2>3. [rec(n1, sp, hist.due) EXCEPT !.due = newdue] = rec(n1, sp, newdue)
    OBVIOUS
  <2>4. hist' = [hist EXCEPT !.calls = n1, !.spoiled = sp, !.due = newdue]
    BY <1>3 DEF n1
  <2>5. hist' = rec(n1, sp, newdue)
    BY <2>1, <2>2, <2>3, <2>4
  <2>6. QED  BY <2>5 DEF n1
<1>7. /\ core' = [on |-> core.on, conf |-> core.conf, thr |-> core.thr, cfifo |-> core.cfifo,
                  dfifo |-> core.dfifo, latch |-> core.latch, dfifoth |-> core.dfifoth,
                  sts |-> old \cup act]
  BY <1>3, ClearDoes DEF act
<1>8. ZShaped'
  BY <1>3, <1>4, <1>5, <1>6, <1>7 DEF ZShaped
<1>9. hist'.spoiled <=> hist.spoiled \/ irq.pc # "idle"
  <2>1. hist'.spoiled = sp
    BY <1>6
  <2>2. QED  BY <2>1, Zenon DEF sp
<1>10. /\ UNCHANGED <<irq, work, hist.bad, call.val>>
       /\ UNCHANGED <<core.on, core.conf, core.thr, core.cfifo, core.dfifo, core.latch, core.dfifoth>>
       /\ UNCHANGED <<xadc.masked, xadc.threshold, xadc.hyst, xadc.done>>
       /\ call.pc = "idle" /\ call'.pc = "issue" /\ call'.todo = todo
       /\ xadc'.alarm_mask = mask /\ xadc'.intmask = newint /\ core'.sts = old \cup act
       /\ hist'.due = newdue
  BY <1>3, <1>4, <1>5, <1>6, <1>7
<1>11. QED  BY <1>2, <1>8, <1>9, <1>10 DEF todo, newint, newdue, old, act

OldConf == IF call.val.reg = CONF1 THEN call.val.conf ELSE [dis |-> {}, mode |-> "junk"]
NewConf == [OldConf EXCEPT !.dis = Alarms \ xadc.alarm_mask]

LEMMA WriteConfDoes ==
  ASSUME ZShaped, WriteConf
  PROVE  /\ ZShaped' /\ UNCHANGED <<core, xadc, irq, work, hist.calls, hist.spoiled, hist.due, call.val>>
         /\ call.pc = "got" /\ Head(call.todo).reg = CONF1
         /\ \/ NewConf = OldConf /\ call'.pc = "idle" /\ call'.todo = <<>>
            \/ /\ call'.pc = "issue"
               /\ call'.todo = <<Cmd("WRITE", CONF1, [reg |-> CONF1, conf |-> NewConf])>>
         /\ hist'.bad = IF hist.spoiled THEN hist.bad \cup {CONF1, ADC} ELSE hist.bad \ {CONF1}
<1> DEFINE todo == <<Cmd("WRITE", CONF1, [reg |-> CONF1, conf |-> NewConf])>>
           bad  == IF hist.spoiled THEN hist.bad \cup {CONF1, ADC} ELSE hist.bad \ {CONF1}
<1>1. /\ call.pc = "got" /\ Head(call.todo).reg = CONF1 /\ UNCHANGED <<core, xadc, irq, work>>
      /\ \/ NewConf = OldConf /\ call' = Idle(call)
         \/ call' = [call EXCEPT !.pc = "issue", !.todo = todo]
  BY DEF WriteConf, OldConf, NewConf
<1>2. hist' = [hist EXCEPT !.bad = bad]
  BY DEF WriteConf, ZShaped
<1> HIDE DEF todo, bad
<1>3. hist' = [calls |-> hist.calls, spoiled |-> hist.spoiled, bad |-> bad, due |-> hist.due]
  BY <1>2 DEF ZShaped
<1>4. CASE NewConf = OldConf /\ call' = Idle(call)
  <2>1. call' = [pc |-> "idle", todo |-> <<>>, val |-> call.val]
    BY <1>4, IdleDoes
  <2>2. ZShaped'
    BY <1>1, <1>3, <2>1 DEF ZShaped
  <2>3. QED  BY <1>1, <1>3, <1>4, <2>1, <2>2 DEF bad
<1>5. CASE call' = [call EXCEPT !.pc = "issue", !.todo = todo]
  <2>1. call' = [pc |-> "issue", todo |-> todo, val |-> call.val]
    BY <1>5 DEF ZShaped
  <2>2. ZShaped'
    BY <1>1, <1>3, <2>1 DEF ZShaped
  <2>3. QED  BY <1>1, <1>3, <2>1, <2>2 DEF bad, todo
<1>6. QED  BY <1>1, <1>4, <1>5

(* The thresholds a call sets, and the writes it leaves.                   *)
ValueSet(c, v, falling) ==
  LET o == Offset(c, falling)
      low == Lower(v, xadc.hyst)
  IN IF c = Temp
       THEN /\ call'.todo = <<Write(o + 4, low), Write(o, v)>>
            /\ xadc'.threshold = [[xadc.threshold EXCEPT ![o] = v] EXCEPT ![o + 4] = low]
       ELSE call'.todo = <<Write(o, v)>> /\ xadc'.threshold = [xadc.threshold EXCEPT ![o] = v]

HystSet(v) ==
  LET o == Offset(Temp, FALSE)
      low == Lower(xadc.threshold[o], v)
  IN call'.todo = <<Write(o + 4, low)>> /\ xadc'.threshold = [xadc.threshold EXCEPT ![o + 4] = low]

LEMMA WriteValueDoes ==
  ASSUME ZShaped, WriteEventValue \/ WriteHysteresis
  PROVE  /\ ZShaped' /\ UNCHANGED <<core, irq, work, hist.spoiled, hist.bad, hist.due, call.val>>
         /\ UNCHANGED <<xadc.intmask, xadc.masked, xadc.alarm_mask, xadc.done>>
         /\ call.pc = "idle" /\ call'.pc = "issue"
         /\ \/ \E c \in Channels, v \in Value, falling \in BOOLEAN :
                 (c = Temp => ~ falling) /\ ValueSet(c, v, falling)
            \/ \E v \in Value : HystSet(v)
<1> DEFINE xrec(t, h) == [intmask |-> xadc.intmask, masked |-> xadc.masked, alarm_mask |-> xadc.alarm_mask,
                          threshold |-> t, hyst |-> h, done |-> xadc.done]
<1>6. hist' = [hist EXCEPT !.calls = @ + 1] /\ UNCHANGED <<core, irq, work>>
  BY DEF WriteEventValue, WriteHysteresis
<1>7. hist' = [calls |-> hist.calls + 1, spoiled |-> hist.spoiled, bad |-> hist.bad, due |-> hist.due]
  BY <1>6 DEF ZShaped
<1>1. ASSUME NEW todo, NEW thr, NEW h, Begin(todo), xadc' = xrec(thr, h)
      PROVE  /\ ZShaped' /\ UNCHANGED <<core, irq, work, hist.spoiled, hist.bad, hist.due, call.val>>
             /\ UNCHANGED <<xadc.intmask, xadc.masked, xadc.alarm_mask, xadc.done>>
             /\ call.pc = "idle" /\ call'.pc = "issue" /\ call'.todo = todo /\ xadc'.threshold = thr
  <2>1. call.pc = "idle" /\ call' = [pc |-> "issue", todo |-> todo, val |-> call.val]
    BY <1>1, BeginDoes
  <2>4. ZShaped'
    BY <1>1, <1>6, <1>7, <2>1 DEF ZShaped
  <2>5. QED  BY <1>1, <1>6, <1>7, <2>1, <2>4
<1>3. CASE WriteEventValue
  <2>1. PICK c \in Channels, v \in Value, falling \in BOOLEAN :
          LET o == Offset(c, falling)
              low == Lower(v, xadc.hyst)
          IN /\ c = Temp => ~falling
             /\ IF c = Temp
                  THEN /\ Begin(<<Write(o + 4, low), Write(o, v)>>)
                       /\ xadc' = [xadc EXCEPT !.threshold[o] = v, !.threshold[o + 4] = low]
                  ELSE /\ Begin(<<Write(o, v)>>)
                       /\ xadc' = [xadc EXCEPT !.threshold[o] = v]
             /\ hist' = [hist EXCEPT !.calls = @ + 1]
             /\ UNCHANGED <<core, irq, work>>
    BY <1>3, Zenon DEF WriteEventValue
  <2> DEFINE o   == Offset(c, falling)
             low == Lower(v, xadc.hyst)
             t1  == [xadc.threshold EXCEPT ![o] = v]
             t2  == [t1 EXCEPT ![o + 4] = low]
             o4  == o + 4
  <2>2. CASE c = Temp
    <3>1. /\ Begin(<<Write(o4, low), Write(o, v)>>)
          /\ xadc' = [xadc EXCEPT !.threshold[o] = v, !.threshold[o4] = low]
          /\ hist' = [hist EXCEPT !.calls = @ + 1] /\ UNCHANGED <<core, irq, work>>
      BY <2>1, <2>2
    <3> DEFINE todo == <<Write(o4, low), Write(o, v)>>
    <3> HIDE DEF o4, o, low, todo
    <3>2. [xadc EXCEPT !.threshold[o] = v] = xrec(t1, xadc.hyst)
      BY DEF ZShaped
    <3>3. [xrec(t1, xadc.hyst) EXCEPT !.threshold[o4] = low] = xrec([t1 EXCEPT ![o4] = low], xadc.hyst)
      OBVIOUS
    <3>4. xadc' = xrec([t1 EXCEPT ![o4] = low], xadc.hyst)
      BY <3>1, <3>2, <3>3
    <3> HIDE DEF t1, xrec
    <3>5. Begin(todo)
      BY <3>1 DEF todo
    <3>6. /\ ZShaped' /\ UNCHANGED <<core, irq, work, hist.spoiled, hist.bad, hist.due, call.val>>
          /\ UNCHANGED <<xadc.intmask, xadc.masked, xadc.alarm_mask, xadc.done>>
          /\ call.pc = "idle" /\ call'.pc = "issue" /\ call'.todo = todo
          /\ xadc'.threshold = [t1 EXCEPT ![o4] = low]
      BY <1>1, <3>4, <3>5
    <3>7. ValueSet(c, v, falling)
      BY <2>2, <3>6 DEF ValueSet, todo, t1, o, o4, low
    <3>8. QED  BY <2>1, <3>6, <3>7
  <2>3. CASE c # Temp
    <3>1. /\ Begin(<<Write(o, v)>>) /\ xadc' = [xadc EXCEPT !.threshold[o] = v]
          /\ hist' = [hist EXCEPT !.calls = @ + 1] /\ UNCHANGED <<core, irq, work>>
      BY <2>1, <2>3
    <3> DEFINE todo == <<Write(o, v)>>
    <3> HIDE DEF o, low, todo
    <3>2. [xadc EXCEPT !.threshold[o] = v] = xrec(t1, xadc.hyst)
      BY DEF ZShaped
    <3>4. xadc' = xrec(t1, xadc.hyst)
      BY <3>1, <3>2
    <3> HIDE DEF t1, xrec
    <3>5. Begin(todo)
      BY <3>1 DEF todo
    <3>6. /\ ZShaped' /\ UNCHANGED <<core, irq, work, hist.spoiled, hist.bad, hist.due, call.val>>
          /\ UNCHANGED <<xadc.intmask, xadc.masked, xadc.alarm_mask, xadc.done>>
          /\ call.pc = "idle" /\ call'.pc = "issue" /\ call'.todo = todo /\ xadc'.threshold = t1
      BY <1>1, <3>4, <3>5
    <3>7. ValueSet(c, v, falling)
      BY <2>3, <3>6 DEF ValueSet, todo, t1, o, low
    <3>8. QED  BY <2>1, <3>6, <3>7
  <2>4. QED  BY <2>2, <2>3
<1>4. CASE WriteHysteresis
  <2>1. PICK v \in Value :
          LET o == Offset(Temp, FALSE)
              low == Lower(xadc.threshold[o], v)
          IN /\ Begin(<<Write(o + 4, low)>>)
             /\ xadc' = [xadc EXCEPT !.hyst = v, !.threshold[o + 4] = low]
             /\ hist' = [hist EXCEPT !.calls = @ + 1]
             /\ UNCHANGED <<core, irq, work>>
    BY <1>4, Zenon DEF WriteHysteresis
  <2> DEFINE o   == Offset(Temp, FALSE)
             low == Lower(xadc.threshold[o], v)
             o4  == o + 4
             t1  == [xadc.threshold EXCEPT ![o4] = low]
             todo == <<Write(o4, low)>>
  <2>2. /\ Begin(todo) /\ xadc' = [xadc EXCEPT !.hyst = v, !.threshold[o4] = low]
        /\ hist' = [hist EXCEPT !.calls = @ + 1] /\ UNCHANGED <<core, irq, work>>
    BY <2>1
  <2> HIDE DEF o, o4, low, todo
  <2>3. [xadc EXCEPT !.hyst = v] = xrec(xadc.threshold, v)
    BY DEF ZShaped
  <2>4. [xrec(xadc.threshold, v) EXCEPT !.threshold[o4] = low] = xrec(t1, v)
    OBVIOUS
  <2>5. xadc' = xrec(t1, v)
    BY <2>2, <2>3, <2>4
  <2> HIDE DEF t1, xrec
  <2>6. /\ ZShaped' /\ UNCHANGED <<core, irq, work, hist.spoiled, hist.bad, hist.due, call.val>>
        /\ UNCHANGED <<xadc.intmask, xadc.masked, xadc.alarm_mask, xadc.done>>
        /\ call.pc = "idle" /\ call'.pc = "issue" /\ call'.todo = todo /\ xadc'.threshold = t1
    BY <1>1, <2>2, <2>5
  <2>7. HystSet(v)
    BY <2>6 DEF HystSet, todo, t1, o, o4, low
  <2>8. QED  BY <2>6, <2>7
<1>5. QED  BY <1>3, <1>4

-----------------------------------------------------------------------------
(* The interrupt handler and the work.                                     *)
LEMMA IrqReadsDo ==
  ASSUME ZShaped, IrqStatus \/ IrqMasked
  PROVE  /\ ZShaped' /\ UNCHANGED <<core, xadc, call, work, hist>>
         /\ \/ irq.pc = "idle" /\ irq'.pc = "mask" /\ irq'.status = IntSts
            \/ /\ irq.pc = "mask" /\ irq'.status = irq.status \ Masks
               /\ irq'.pc = IF irq'.status = {} THEN "idle" ELSE "lock"
<1>1. CASE IrqStatus
  <2> DEFINE s == IntSts
  <2>1. /\ irq' = [pc |-> "mask", status |-> s] /\ irq.pc = "idle"
        /\ UNCHANGED <<core, xadc, call, work, hist>>
    BY <1>1 DEF IrqStatus
  <2> HIDE DEF s
  <2>2. ZShaped'
    BY <2>1 DEF ZShaped
  <2>3. QED  BY <2>1, <2>2 DEF s
<1>2. CASE IrqMasked
  <2> DEFINE s  == irq.status \ Masks
             pc == IF s = {} THEN "idle" ELSE "lock"
  <2>1. /\ irq' = [irq EXCEPT !.pc = pc, !.status = s] /\ irq.pc = "mask"
        /\ UNCHANGED <<core, xadc, call, work, hist>>
    BY <1>2 DEF IrqMasked
  <2> HIDE DEF s, pc
  <2>2. irq' = [pc |-> pc, status |-> s]
    BY <2>1 DEF ZShaped
  <2>3. ZShaped'
    BY <2>1, <2>2 DEF ZShaped
  <2>4. QED  BY <2>1, <2>2, <2>3 DEF s, pc
<1>3. QED  BY <1>1, <1>2

LEMMA IrqLockedDoes ==
  ASSUME ZShaped, IrqLocked
  PROVE  /\ ZShaped' /\ UNCHANGED <<call, work.pc, work.misc, hist.calls, hist.spoiled, hist.bad>>
         /\ UNCHANGED <<core.on, core.conf, core.thr, core.cfifo, core.dfifo, core.latch, core.dfifoth>>
         /\ UNCHANGED <<xadc.alarm_mask, xadc.threshold, xadc.hyst>>
         /\ irq.pc = "lock" /\ irq'.pc = "idle" /\ irq'.status = {}
         /\ core'.sts = (core.sts \ irq.status) \cup Active(core)
         /\ xadc'.done <=> xadc.done \/ GTH \in irq.status
         /\ xadc'.intmask = xadc.intmask \cup (irq.status \cap {GTH})
         /\ xadc'.masked = xadc.masked \cup (irq.status \ {GTH})
         /\ hist'.due = hist.due \ {FromZynq(b) : b \in irq.status \ {GTH}}
<1> DEFINE al    == irq.status \ {GTH}
           done  == xadc.done \/ GTH \in irq.status
           int   == xadc.intmask \cup (irq.status \cap {GTH})
           msk   == xadc.masked \cup al
           queue == work.queued \/ al # {}
           due   == hist.due \ {FromZynq(b) : b \in al}
           old   == core.sts \ irq.status
           act   == Active(core)
<1>1. /\ irq.pc = "lock" /\ irq' = [pc |-> "idle", status |-> {}] /\ UNCHANGED call
      /\ core' = Latch([core EXCEPT !.sts = old]) /\ work' = [work EXCEPT !.queued = queue]
      /\ xadc' = [xadc EXCEPT !.done = done, !.intmask = int, !.masked = msk]
      /\ hist' = [hist EXCEPT !.due = due]
  BY DEF IrqLocked, ZShaped
<1> HIDE DEF al, done, int, msk, queue, due, old, act
<1>2. /\ work' = [queued |-> queue, pc |-> work.pc, misc |-> work.misc]
      /\ hist' = [calls |-> hist.calls, spoiled |-> hist.spoiled, bad |-> hist.bad, due |-> due]
  BY <1>1 DEF ZShaped
<1>3. xadc' = [intmask |-> int, masked |-> msk, alarm_mask |-> xadc.alarm_mask,
               threshold |-> xadc.threshold, hyst |-> xadc.hyst, done |-> done]
  <2> DEFINE rec(i, m, d) == [intmask |-> i, masked |-> m, alarm_mask |-> xadc.alarm_mask,
                              threshold |-> xadc.threshold, hyst |-> xadc.hyst, done |-> d]
  <2>1. [xadc EXCEPT !.done = done] = rec(xadc.intmask, xadc.masked, done)
    BY DEF ZShaped
  <2>2. [rec(xadc.intmask, xadc.masked, done) EXCEPT !.intmask = int] = rec(int, xadc.masked, done)
    OBVIOUS
  <2>3. [rec(int, xadc.masked, done) EXCEPT !.masked = msk] = rec(int, msk, done)
    OBVIOUS
  <2>4. QED  BY <1>1, <2>1, <2>2, <2>3
<1>4. core' = [on |-> core.on, conf |-> core.conf, thr |-> core.thr, cfifo |-> core.cfifo,
               dfifo |-> core.dfifo, latch |-> core.latch, dfifoth |-> core.dfifoth, sts |-> old \cup act]
  BY <1>1, ClearDoes DEF act
<1>5. ZShaped'
  BY <1>1, <1>2, <1>3, <1>4 DEF ZShaped
<1>6. xadc'.done <=> xadc.done \/ GTH \in irq.status
  <2>1. xadc'.done = done
    BY <1>3
  <2>2. QED  BY <2>1, Zenon DEF done
<1>7. /\ UNCHANGED <<call, work.pc, work.misc, hist.calls, hist.spoiled, hist.bad>>
      /\ UNCHANGED <<core.on, core.conf, core.thr, core.cfifo, core.dfifo, core.latch, core.dfifoth>>
      /\ UNCHANGED <<xadc.alarm_mask, xadc.threshold, xadc.hyst>>
      /\ irq'.pc = "idle" /\ irq'.status = {} /\ core'.sts = old \cup act
      /\ xadc'.intmask = int /\ xadc'.masked = msk /\ hist'.due = due
  BY <1>1, <1>2, <1>3, <1>4
<1>8. QED  BY <1>1, <1>5, <1>6, <1>7 DEF al, int, msk, due, old, act

LEMMA WorkDoes ==
  ASSUME ZShaped, WorkStatus \/ WorkTest
  PROVE  ZShaped' /\ UNCHANGED <<core, xadc, call, irq, hist>>
<1>1. CASE WorkStatus
  <2> DEFINE act == Active(core)
             no  == FALSE
  <2>1. work' = [queued |-> no, pc |-> "lock", misc |-> act] /\ UNCHANGED <<core, xadc, call, irq, hist>>
    BY <1>1 DEF WorkStatus
  <2> HIDE DEF act, no
  <2>2. QED  BY <2>1 DEF ZShaped
<1>2. CASE WorkTest
  <2> DEFINE queue == work.queued \/ xadc.masked # {}
  <2>1. work' = [work EXCEPT !.pc = "idle", !.queued = queue] /\ UNCHANGED <<core, xadc, call, irq, hist>>
    BY <1>2 DEF WorkTest, ZShaped
  <2> HIDE DEF queue
  <2>2. work' = [queued |-> queue, pc |-> "idle", misc |-> work.misc]
    BY <2>1 DEF ZShaped
  <2>3. QED  BY <2>1, <2>2 DEF ZShaped
<1>3. QED  BY <1>1, <1>2

LEMMA WorkLockedDoes ==
  ASSUME ZShaped, WorkLocked
  PROVE  /\ ZShaped' /\ UNCHANGED <<call, irq, hist.calls, hist.bad>>
         /\ UNCHANGED <<core.on, core.conf, core.thr, core.cfifo, core.dfifo, core.latch, core.dfifoth>>
         /\ UNCHANGED <<xadc.intmask, xadc.alarm_mask, xadc.threshold, xadc.hyst, xadc.done>>
         /\ core'.sts = (core.sts \ (xadc.masked \ work.misc)) \cup Active(core)
         /\ xadc'.masked = (xadc.masked \cap work.misc) \ xadc.intmask
         /\ hist'.spoiled <=> hist.spoiled \/ Straddled
         /\ hist'.due = hist.due \cup Stale
<1> DEFINE msk   == (xadc.masked \cap work.misc) \ xadc.intmask
           sp    == hist.spoiled \/ Straddled
           due   == hist.due \cup Stale
           old   == core.sts \ (xadc.masked \ work.misc)
           act   == Active(core)
<1>1. /\ UNCHANGED <<call, irq>>
      /\ core' = Latch([core EXCEPT !.sts = old]) /\ work' = [work EXCEPT !.pc = "test", !.misc = {}]
      /\ xadc' = [xadc EXCEPT !.masked = msk]
      /\ hist' = [hist EXCEPT !.spoiled = sp, !.due = due]
  BY DEF WorkLocked, ZShaped
<1> HIDE DEF msk, sp, due, old, act
<1>2. /\ work' = [queued |-> work.queued, pc |-> "test", misc |-> {}]
      /\ hist' = [calls |-> hist.calls, spoiled |-> sp, bad |-> hist.bad, due |-> due]
  BY <1>1 DEF ZShaped
<1>3. xadc' = [intmask |-> xadc.intmask, masked |-> msk, alarm_mask |-> xadc.alarm_mask,
               threshold |-> xadc.threshold, hyst |-> xadc.hyst, done |-> xadc.done]
  BY <1>1 DEF ZShaped
<1>4. core' = [on |-> core.on, conf |-> core.conf, thr |-> core.thr, cfifo |-> core.cfifo,
               dfifo |-> core.dfifo, latch |-> core.latch, dfifoth |-> core.dfifoth, sts |-> old \cup act]
  BY <1>1, ClearDoes DEF act
<1>5. ZShaped'
  BY <1>1, <1>2, <1>3, <1>4 DEF ZShaped
<1>6. hist'.spoiled <=> hist.spoiled \/ Straddled
  <2>1. hist'.spoiled = sp
    BY <1>2
  <2>2. QED  BY <2>1, Zenon DEF sp
<1>8. /\ UNCHANGED <<call, irq, hist.calls, hist.bad>>
      /\ UNCHANGED <<core.on, core.conf, core.thr, core.cfifo, core.dfifo, core.latch, core.dfifoth>>
  BY <1>1, <1>2, <1>4
<1>9. UNCHANGED <<xadc.intmask, xadc.alarm_mask, xadc.threshold, xadc.hyst, xadc.done>>
  BY <1>3
<1>10. core'.sts = (core.sts \ (xadc.masked \ work.misc)) \cup Active(core)
  BY ONLY <1>4 DEF old, act
<1>11. xadc'.masked = (xadc.masked \cap work.misc) \ xadc.intmask
  BY ONLY <1>3 DEF msk
<1>12. hist'.due = hist.due \cup Stale
  BY ONLY <1>2 DEF due
<1>7. QED  BY ONLY <1>5, <1>6, <1>8, <1>9, <1>10, <1>11, <1>12

-----------------------------------------------------------------------------
LEMMA ZNumbers ==
  /\ Alarms \subseteq Bit \ {0}
  /\ \A a \in Bit : FromZynq(ToZynq(a)) = a /\ ToZynq(a) # GTH /\ ToZynq(a) \in Bit
<1>1. Alarms \subseteq Bit \ {0}
  BY Numberings, ZynqAssumption DEF Alarms
<1>2. \A a \in Bit : FromZynq(ToZynq(a)) = a /\ ToZynq(a) # GTH /\ ToZynq(a) \in Bit
  BY DEF Bit, ToZynq, FromZynq, GTH
<1>3. QED  BY <1>1, <1>2

(* What is latched and not masked is due; and what the handler holds, where*)
(* nothing has come between its reads.                                     *)
Due(s) == s \subseteq Opened(hist.due)

ZSets ==
  /\ core.on \subseteq Alarms /\ core.sts \subseteq Opened(Alarms)
  /\ hist.due \subseteq Alarms /\ xadc.alarm_mask \subseteq Alarms
  /\ irq.status \subseteq Opened(Alarms) \cup {GTH} /\ irq.pc \in {"idle", "mask", "lock"}

Raised ==
  /\ Active(core) \subseteq core.sts
  /\ Due(core.sts \ Masks)
  /\ irq.pc = "mask" /\ ~ hist.spoiled => Due((irq.status \ {GTH}) \ Masks)
  /\ irq.pc = "lock" /\ ~ hist.spoiled => Due(irq.status \ {GTH})

EventInv == ZShaped /\ ZSets /\ Raised

LEMMA ActiveSame ==
  ASSUME UNCHANGED <<core.on, core.conf>>
  PROVE  Active(core') = Active(core)
  BY DEF Active

LEMMA ActiveIn ==
  ASSUME core.on \subseteq Alarms
  PROVE  Active(core) \subseteq Opened(Alarms)
  BY DEF Active, Opened

LEMMA DueKept ==
  ASSUME EventInv, ZynqNext
  PROVE  EventInv'
<1> USE DEF EventInv
<1>1. ASSUME ZShaped', UNCHANGED <<core.on, core.conf, core.sts, xadc.masked, xadc.alarm_mask, irq, hist.due>>,
             xadc'.intmask \cup {GTH} = xadc.intmask \cup {GTH},
             hist.spoiled => hist'.spoiled \/ irq.pc = "idle"
      PROVE  EventInv'
  <2>1. ZSets'
    BY <1>1 DEF ZSets
  <2>2. Masks' \cup {GTH} = Masks \cup {GTH}
    BY <1>1 DEF Masks
  <2>3. GTH \notin core.sts
    BY ZNumbers DEF ZSets, Opened
  <2>4. core'.sts \ Masks' = core.sts \ Masks
    BY <1>1, <2>2, <2>3
  <2>5. (irq'.status \ {GTH}) \ Masks' = (irq.status \ {GTH}) \ Masks
    BY <1>1, <2>2
  <2>6. \A x : Due(x) <=> x \subseteq Opened(hist'.due)
    BY <1>1 DEF Due
  <2>7. Active(core') = Active(core)
    BY <1>1, ActiveSame
  <2>8. irq.pc = irq'.pc
    BY <1>1
  <2>9. Raised'
    BY <1>1, <2>4, <2>5, <2>6, <2>7, <2>8 DEF Raised, Due
  <2>10. QED  BY <1>1, <2>1, <2>9
(* A change of conditions: what rises is due unless it is masked.          *)
<1>2. ASSUME ZShaped', UNCHANGED <<xadc, irq, hist.spoiled>>, core'.on \subseteq Alarms,
             core'.sts = core.sts \cup Active(core'), hist'.due = hist.due \cup Rose
      PROVE  EventInv'
  <2>1. Active(core') \subseteq Opened(Alarms)
    BY <1>2 DEF Active, Opened
  <2>2. ZSets'
    BY <1>2, <2>1 DEF ZSets, Rose
  <2>3. Opened(hist.due) \subseteq Opened(hist'.due)
    BY <1>2 DEF Opened
  <2>4. UNCHANGED Masks
    BY <1>2 DEF Masks
  <2>5. core'.sts \ Masks \subseteq Opened(hist'.due)
    <3> SUFFICES ASSUME NEW x \in core'.sts, x \notin Masks PROVE x \in Opened(hist'.due)
      OBVIOUS
    <3>1. CASE x \in core.sts
      BY <2>3, <3>1 DEF Raised, Due
    <3>2. CASE x \notin core.sts
      <4>1. x \in Active(core') /\ x \notin Active(core) /\ x \notin xadc.intmask
        BY <1>2, <3>2 DEF Raised, Masks
      <4>2. PICK a \in Alarms : x = ToZynq(a)
        BY <2>1, <4>1 DEF Opened
      <4>3. a \in Rose
        BY <4>1, <4>2 DEF Rose
      <4>4. QED  BY <1>2, <4>2, <4>3 DEF Opened
    <3>3. QED  BY <3>1, <3>2
  <2>6. Raised'
    BY <1>2, <2>3, <2>4, <2>5 DEF Raised, Due
  <2>7. QED  BY <1>2, <2>2, <2>6
<1>3. CASE Execute
  BY <1>2, <1>3, ExecuteDoes DEF ZSets
<1>4. CASE Toggle
  BY <1>2, <1>4, ToggleZDoes DEF ZSets
<1>5. CASE ReadIssue \/ WriteIssue
  <2>1. (* where the handler is between its reads, the access is spoiled   *)
        irq.pc = "mask" => hist'.spoiled
    BY <1>5, IssueDoes DEF Straddled
  <2>2. irq.pc = "lock" /\ hist.spoiled => hist'.spoiled
    BY <1>5, IssueDoes
  <2>3. hist.spoiled => hist'.spoiled \/ irq.pc = "idle"
    BY <2>1, <2>2 DEF ZSets
  <2>4. /\ ZShaped' /\ UNCHANGED <<core.on, core.conf, core.sts, xadc.masked, xadc.alarm_mask, irq, hist.due>>
        /\ xadc'.intmask = xadc.intmask \ {GTH}
    BY <1>5, IssueDoes
  <2>5. xadc'.intmask \cup {GTH} = xadc.intmask \cup {GTH}
    BY <2>4
  <2>6. QED  BY ONLY <1>1, <2>3, <2>4, <2>5
<1>6. CASE ReadDone \/ WriteDone
  BY <1>1, <1>6, DoneDoes
<1>7. CASE Timeout \/ Signal
  BY <1>1, <1>7, GivenUpDoes
<1>8. CASE ReadRaw \/ ReadValue
  BY <1>1, <1>8, ReadsDo
<1>9. CASE WriteConf
  BY <1>1, <1>9, WriteConfDoes
<1>10. CASE WriteEventValue \/ WriteHysteresis
  BY <1>1, <1>10, WriteValueDoes
<1>11. CASE WorkStatus \/ WorkTest
  BY <1>1, <1>11, WorkDoes
<1>12. CASE WriteEventConfig
  <2> DEFINE mask == xadc'.alarm_mask
  <2>1. /\ ZShaped' /\ UNCHANGED <<irq, core.on, core.conf, xadc.masked>>
        /\ core'.sts = (core.sts \ Opened(mask)) \cup Active(core)
        /\ xadc'.intmask = (Ints \ (Opened(mask) \cup {GTH})) \cup (xadc.intmask \cap {GTH})
        /\ hist'.due = (hist.due \ mask) \cup {a \in mask : ToZynq(a) \in Active(core)}
        /\ hist'.spoiled <=> hist.spoiled \/ irq.pc # "idle"
    BY <1>12, WriteEventConfigDoes
  <2>2. mask \subseteq Alarms
    <3>1. PICK c \in Channels : mask \subseteq xadc.alarm_mask \cup {AlarmOf(c)}
      BY <1>12, WriteEventConfigDoes
    <3>2. QED  BY <3>1 DEF ZSets, Alarms
  <2> HIDE DEF mask
  <2>3. Active(core) \subseteq Opened(Alarms) /\ Active(core') = Active(core)
    BY <2>1, ActiveIn, ActiveSame DEF ZSets
  <2>4. ZSets'
    BY <2>1, <2>2, <2>3 DEF ZSets, mask
  <2>5. core'.sts \ Masks' \subseteq Opened(hist'.due)
    <3> SUFFICES ASSUME NEW x \in core'.sts, x \notin Masks' PROVE x \in Opened(hist'.due)
      OBVIOUS
    <3>1. x \in Opened(Alarms) /\ x \notin xadc'.intmask
      BY <2>4 DEF ZSets, Masks
    <3>2. x \in Ints /\ x # GTH
      BY <3>1, ZNumbers DEF Ints, Opened
    <3>3. x \in Opened(mask)
      BY <2>1, <3>1, <3>2
    <3>4. x \in Active(core)
      BY <2>1, <3>3
    <3>5. QED  BY <2>1, <3>3, <3>4 DEF Opened
  <2>6. irq'.pc \in {"mask", "lock"} => hist'.spoiled
    BY <2>1
  <2>7. Raised'
    BY <2>1, <2>3, <2>5, <2>6 DEF Raised, Due
  <2>8. QED  BY <2>1, <2>4, <2>7
<1>13. CASE IrqStatus \/ IrqMasked
  <2>1. /\ ZShaped' /\ UNCHANGED <<core, xadc, call, work, hist>>
        /\ \/ irq.pc = "idle" /\ irq'.pc = "mask" /\ irq'.status = IntSts
           \/ /\ irq.pc = "mask" /\ irq'.status = irq.status \ Masks
              /\ irq'.pc = IF irq'.status = {} THEN "idle" ELSE "lock"
    BY <1>13, IrqReadsDo
  <2>2. IntSts \ {GTH} \subseteq core.sts
    BY DEF IntSts
  <2>3. ZSets'
    BY <2>1, <2>2 DEF ZSets, IntSts
  <2>4. UNCHANGED <<Masks, Active(core)>>
    BY <2>1 DEF Masks, Active
  <2>5. Raised'
    BY <2>1, <2>2, <2>4 DEF Raised, Due
  <2>6. QED  BY <2>1, <2>3, <2>5
<1>14. CASE IrqLocked
  <2> DEFINE al == irq.status \ {GTH}
  <2>1. /\ ZShaped' /\ UNCHANGED <<core.on, core.conf, xadc.alarm_mask>>
        /\ irq'.pc = "idle" /\ irq'.status = {}
        /\ core'.sts = (core.sts \ irq.status) \cup Active(core)
        /\ xadc'.intmask = xadc.intmask \cup (irq.status \cap {GTH})
        /\ xadc'.masked = xadc.masked \cup al
        /\ hist'.due = hist.due \ {FromZynq(b) : b \in al}
    BY <1>14, IrqLockedDoes
  <2>2. al \subseteq Opened(Alarms)
    BY DEF ZSets
  <2> HIDE DEF al
  <2>3. Active(core) \subseteq Opened(Alarms) /\ Active(core') = Active(core)
    BY <2>1, ActiveIn, ActiveSame DEF ZSets
  <2>4. ZSets'
    BY <2>1, <2>3 DEF ZSets
  <2>5. core'.sts \ Masks' \subseteq Opened(hist'.due)
    <3> SUFFICES ASSUME NEW x \in core'.sts, x \notin Masks' PROVE x \in Opened(hist'.due)
      OBVIOUS
    <3>1. x \in core.sts /\ x \notin Masks /\ x \notin al
      BY <2>1 DEF Raised, Masks
    <3>2. PICK a \in hist.due : x = ToZynq(a)
      BY <3>1 DEF Raised, Due, Opened
    <3>3. ASSUME NEW b \in al, a = FromZynq(b) PROVE FALSE
      <4>1. PICK e \in Alarms : b = ToZynq(e)
        BY <2>2 DEF Opened
      <4>2. a = e
        BY <3>3, <4>1, ZNumbers
      <4>3. QED  BY <3>1, <3>2, <4>1, <4>2
    <3>4. a \in hist'.due
      BY <2>1, <3>2, <3>3
    <3>5. QED  BY <3>2, <3>4 DEF Opened
  <2>6. Raised'
    BY <2>1, <2>3, <2>5 DEF Raised, Due
  <2>7. QED  BY <2>1, <2>4, <2>6
<1>15. CASE WorkLocked
  <2>1. /\ ZShaped' /\ UNCHANGED <<irq, core.on, core.conf, xadc.intmask, xadc.alarm_mask>>
        /\ core'.sts = (core.sts \ (xadc.masked \ work.misc)) \cup Active(core)
        /\ xadc'.masked = (xadc.masked \cap work.misc) \ xadc.intmask
        /\ hist'.spoiled <=> hist.spoiled \/ Straddled
        /\ hist'.due = hist.due \cup Stale
    BY <1>15, WorkLockedDoes
  <2>2. Active(core) \subseteq Opened(Alarms) /\ Active(core') = Active(core)
    BY <2>1, ActiveIn, ActiveSame DEF ZSets
  <2>3. ZSets'
    BY <2>1, <2>2 DEF ZSets, Stale
  <2>4. Opened(hist.due) \subseteq Opened(hist'.due)
    BY <2>1 DEF Opened
  <2>5. core'.sts \ Masks' \subseteq Opened(hist'.due)
    <3> SUFFICES ASSUME NEW x \in core'.sts, x \notin Masks' PROVE x \in Opened(hist'.due)
      OBVIOUS
    <3>1. x \notin xadc.intmask /\ x \notin (xadc.masked \cap work.misc) /\ x \in core.sts
      BY <2>1 DEF Masks, Raised
    <3>2. CASE x \notin xadc.masked
      BY <2>4, <3>1, <3>2 DEF Raised, Due, Masks
    <3>3. CASE x \in xadc.masked
      <4>1. x \in Active(core) /\ x \in xadc.masked \ work.misc
        BY <2>1, <3>1, <3>3
      <4>2. PICK a \in Alarms : x = ToZynq(a)
        BY <2>2, <4>1 DEF Opened
      <4>3. a \in Stale
        BY <4>1, <4>2 DEF Stale
      <4>4. QED  BY <2>1, <4>2, <4>3 DEF Opened
    <3>4. QED  BY <3>2, <3>3
  <2>6. irq.pc = "mask" => hist'.spoiled
    BY <2>1 DEF Straddled
  <2>7. irq.pc = "lock" /\ ~ hist'.spoiled => irq'.status \ {GTH} \subseteq Opened(hist'.due)
    BY <2>1, <2>4 DEF Raised, Due
  <2>8. Raised'
    BY <2>1, <2>2, <2>5, <2>6, <2>7 DEF Raised, Due
  <2>9. QED  BY <2>1, <2>3, <2>8
<1>16. QED
  BY <1>3, <1>4, <1>5, <1>6, <1>7, <1>8, <1>9, <1>10, <1>11, <1>12, <1>13, <1>14, <1>15
     DEF ZynqNext, Access, Calls, Irq, Work

(* After the probe.                                                         *)
LEMMA EventStarts ==
  ASSUME ZynqInit
  PROVE  EventInv
<1> DEFINE thr == [o \in Offsets |-> ProbeThreshold(o)]
           no  == FALSE
<1>1. /\ core = [on |-> {}, conf |-> [dis |-> Alarms, mode |-> "continuous"], thr |-> thr,
                 cfifo |-> <<>>, dfifo |-> <<>>, latch |-> None, dfifoth |-> 0, sts |-> {}]
      /\ xadc = [intmask |-> Ints, masked |-> {}, alarm_mask |-> {}, threshold |-> thr,
                 hyst |-> 0, done |-> no]
      /\ call = [pc |-> "idle", todo |-> <<>>, val |-> None]
      /\ irq = [pc |-> "idle", status |-> {}]
      /\ work = [queued |-> no, pc |-> "idle", misc |-> {}]
      /\ hist = [calls |-> 0, spoiled |-> no, bad |-> {}, due |-> {}]
  BY Zenon DEF ZynqInit
<1> HIDE DEF thr, no
<1>2. ZShaped
  BY <1>1 DEF ZShaped
<1>3. ZSets
  BY <1>1 DEF ZSets, Opened
<1>4. Active(core) = {}
  BY <1>1 DEF Active
<1>5. Raised
  BY <1>1, <1>4 DEF Raised, Due
<1>6. QED  BY <1>2, <1>3, <1>5 DEF EventInv

LEMMA EventSteps ==
  ASSUME EventInv, [Next]_vars
  PROVE  EventInv'
<1>1. CASE ZynqNext
  BY <1>1, DueKept
<1>2. CASE UNCHANGED zynqVars
  <2>1. UNCHANGED <<core, xadc, call, irq, work, hist>>
    BY <1>2 DEF zynqVars
  <2>2. QED
    BY <2>1 DEF EventInv, ZShaped, ZSets, Raised, Due, Opened, Active, Masks
<1>3. QED  BY <1>1, <1>2 DEF Next, vars

(* A channel that is reported is one whose alarm is among those given.     *)
LEMMA ChannelReported ==
  ASSUME NEW chans \in SUBSET Channel, NEW alarms, alarms \subseteq {AlarmOf(c) : c \in chans},
         NEW x \in Pushed(alarms)
  PROVE  x \in chans /\ AlarmOf(x) \in alarms
<1>1. PICK e \in alarms \ {0} : x = EventChannel(e)
  BY DEF Pushed
<1>2. PICK c \in chans : e = AlarmOf(c)
  BY <1>1
<1>3. EventChannel(AlarmOf(c)) = c
  BY Numberings
<1>4. QED  BY <1>1, <1>2, <1>3

LEMMA ReportedDue ==
  ASSUME EventInv, irq.pc = "lock", ~ hist.spoiled
  PROVE  Reported \subseteq {c \in Channels : AlarmOf(c) \in hist.due}
<1> DEFINE al == {FromZynq(b) : b \in irq.status \ {GTH}}
<1>1. irq.status \ {GTH} \subseteq Opened(hist.due) /\ hist.due \subseteq Alarms
  BY DEF EventInv, Raised, Due, ZSets
<1>2. ASSUME NEW b \in irq.status \ {GTH} PROVE FromZynq(b) \in hist.due
  <2>1. PICK a \in hist.due : b = ToZynq(a)
    BY <1>1, <1>2 DEF Opened
  <2>2. a \in Bit
    BY <1>1, ZNumbers
  <2>3. QED  BY <2>1, <2>2, ZNumbers
<1>3. al \subseteq hist.due
  BY <1>2
<1>4. al \subseteq {AlarmOf(c) : c \in Channels}
  BY <1>1, <1>3 DEF Alarms
<1>5. Channels \in SUBSET Channel
  BY ZynqAssumption
<1>6. Reported = Pushed(al)
  BY DEF Reported
<1> HIDE DEF al
<1>7. QED  BY <1>3, <1>4, <1>5, <1>6, ChannelReported

LEMMA ReportedSeen ==
  ASSUME AxiInv
  PROVE  AxiReported \subseteq {c \in EventChannels : AlarmOf(c) \in ahist.seen}
<1> DEFINE al == {FromAxi(b) : b \in airq.status \ {EOS}}
<1>1. Served(airq.status) /\ ahist.seen \subseteq Used
  BY DEF AxiInv, Truth
<1>2. ASSUME NEW b \in airq.status \ {EOS} PROVE FromAxi(b) \in ahist.seen
  <2>1. PICK a \in ahist.seen : b = ToAxi(a)
    BY <1>1, <1>2 DEF Served
  <2>2. a \in Bit
    BY <1>1, UsedBits
  <2>3. QED  BY <2>1, <2>2, Numberings
<1>3. al \subseteq ahist.seen
  BY <1>2
<1>4. al \subseteq {AlarmOf(c) : c \in EventChannels}
  BY <1>1, <1>3 DEF Used
<1>5. EventChannels \in SUBSET Channel
  BY AxiAssumption
<1>6. AxiReported = Pushed(al)
  BY DEF AxiReported
<1> HIDE DEF al
<1>7. QED  BY <1>3, <1>4, <1>5, <1>6, ChannelReported

(* An event is reported only for an alarm that has occurred; on a Zynq once *)
(* for an occurrence, since it was enabled, and on its own channel.        *)
THEOREM EventsTrue == Spec => EventTruth
<1> DEFINE Inv == AxiInv /\ EventInv
<1>1. Init => Inv
  BY AxiStarts, EventStarts DEF Init
<1>2. Inv /\ [Next]_vars => Inv'
  BY AxiSteps, EventSteps
<1>3. Inv /\ [Next]_vars =>
        [/\ ZynqEventTrue
         /\ airq.pc = "serve" /\ airq'.pc = "ack"
              => AxiReported \subseteq {c \in EventChannels : AlarmOf(c) \in ahist.seen}]_vars
  BY ReportedDue, ReportedSeen DEF ZynqEventTrue
<1> HIDE DEF Inv
<1>4. QED  BY <1>1, <1>2, <1>3, PTL DEF Spec, EventTruth

-----------------------------------------------------------------------------
(* Accesses to registers.                                                  *)

(* Register accesses: what the call that holds the mutex has left to do.   *)
First     == Head(call.todo)
Registers == {CONF1} \cup {Threshold(o) : o \in Offsets}
Writes(todo) == \E D : todo \in Seq([op : {"WRITE"}, reg : Registers, data : D])

Todo ==
  /\ call.pc \in {"idle", "issue", "wait", "got"}
  /\ \/ call.pc = "idle" /\ call.todo = <<>>
     \/ call.pc # "idle" /\ \E r \in {ADC, CONF1} : call.todo = <<Cmd("READ", r, None)>>
     \/ call.pc \in {"issue", "wait"} /\ call.todo # <<>> /\ Writes(call.todo)

(* Where an access that is waited for is: a read's answer is the second of *)
(* two words, a write is answered by one.                                   *)
ReadGoesOn ==
  /\ First.op = "READ" /\ core.dfifoth = 1
  /\ \/ core.cfifo = <<First, Nop>> /\ core.dfifo = <<>>
     \/ core.cfifo = <<Nop>> /\ core.latch = Fetched(First.reg) /\ \E x : core.dfifo = <<x>>
     \/ core.cfifo = <<>> /\ \E x : core.dfifo = <<x, Fetched(First.reg)>>
WriteGoesOn ==
  /\ First.op = "WRITE" /\ core.dfifoth = 0
  /\ \/ core.cfifo = <<First>> /\ core.dfifo = <<>>
     \/ core.cfifo = <<>> /\ \E x : core.dfifo = <<x>>
Waiting == ReadGoesOn \/ WriteGoesOn

(* Nothing on the way, and DFIFO_GTH masked.                                *)
Quiet == core.cfifo = <<>> /\ core.dfifo = <<>> /\ GTH \in xadc.intmask /\ ~ xadc.done

(* The handler has DFIFO_GTH in hand.                                       *)
Caught ==
  \/ irq.pc = "lock" /\ GTH \in irq.status
  \/ irq.pc = "mask" /\ GTH \in irq.status /\ GTH \notin xadc.intmask

InStep ==
  /\ IF call.pc = "wait" THEN Waiting ELSE Quiet
  /\ call.pc = "got" => call.val = Fetched(First.reg)
  /\ xadc.done => core.cfifo = <<>> /\ GTH \in xadc.intmask
  /\ Caught => call.pc = "wait" /\ core.cfifo = <<>> /\ ~ xadc.done

AccessInv == Todo /\ core.dfifoth \in {0, 1} /\ (~ hist.spoiled => InStep)

LEMMA AccessStarts ==
  ASSUME ZynqInit
  PROVE  AccessInv
<1> DEFINE thr == [o \in Offsets |-> ProbeThreshold(o)]
           no  == FALSE
<1>1. /\ core = [on |-> {}, conf |-> [dis |-> Alarms, mode |-> "continuous"], thr |-> thr,
                 cfifo |-> <<>>, dfifo |-> <<>>, latch |-> None, dfifoth |-> 0, sts |-> {}]
      /\ xadc = [intmask |-> Ints, masked |-> {}, alarm_mask |-> {}, threshold |-> thr,
                 hyst |-> 0, done |-> no]
      /\ call = [pc |-> "idle", todo |-> <<>>, val |-> None]
      /\ irq = [pc |-> "idle", status |-> {}]
  BY Zenon DEF ZynqInit
<1> HIDE DEF thr, no
<1>2. Todo /\ core.dfifoth \in {0, 1}
  BY <1>1 DEF Todo
<1>3. xadc.done = no
  BY <1>1
<1>4. ~ xadc.done
  BY <1>3, Zenon DEF no
<1>5. GTH \in xadc.intmask
  BY <1>1 DEF Ints
<1>6. InStep
  BY <1>1, <1>4, <1>5 DEF InStep, Quiet, Caught
<1>7. QED  BY <1>2, <1>6 DEF AccessInv

(* The end of an access leaves the rest of the call's.                     *)
LEMMA RestTodo ==
  ASSUME Todo, call.pc = "wait", First.op = "WRITE", Rested
  PROVE  Todo' /\ call'.pc \in {"idle", "issue"}
<1>1. call.todo # <<>> /\ Writes(call.todo)
  <2>1. ~ \E r \in {ADC, CONF1} : call.todo = <<Cmd("READ", r, None)>>
    BY DEF First, Cmd
  <2>2. QED  BY <2>1, Zenon DEF Todo
<1>2. PICK D : call.todo \in Seq([op : {"WRITE"}, reg : Registers, data : D])
  BY <1>1 DEF Writes
<1>3. CASE Len(call.todo) = 1
  BY <1>3 DEF Rested, Todo
<1>4. CASE Len(call.todo) # 1
  <2> DEFINE C == [op : {"WRITE"}, reg : Registers, data : D]
  <2>1. call.todo \in Seq(C)
    BY <1>2
  <2> DEFINE t == call.todo
  <2> HIDE DEF C, t
  <2>6. t \in Seq(C) /\ t # <<>> /\ Len(t) # 1
    BY <1>1, <1>4, <2>1 DEF t
  <2>7. Tail(t) \in Seq(C) /\ Len(Tail(t)) = Len(t) - 1 /\ Len(t) \in Nat /\ Len(t) # 0
    BY <2>6
  <2>8. Tail(t) # <<>>
    BY <2>6, <2>7
  <2>2. Tail(call.todo) \in Seq(C) /\ Tail(call.todo) # <<>>
    BY <2>7, <2>8 DEF t
  <2>3. Writes(Tail(call.todo))
    BY <2>2, Zenon DEF Writes, C
  <2>4. call'.pc = "issue" /\ call'.todo = Tail(call.todo)
    BY <1>4 DEF Rested
  <2>5. QED  BY <2>2, <2>3, <2>4 DEF Todo, Writes
<1>5. QED  BY <1>3, <1>4

LEMMA WrittenOnce ==
  ASSUME NEW r \in Registers, NEW d
  PROVE  Writes(<<Cmd("WRITE", r, d)>>) /\ <<Cmd("WRITE", r, d)>> # <<>>
<1> DEFINE C == [op : {"WRITE"}, reg : Registers, data : {d}]
<1>1. Cmd("WRITE", r, d) \in C
  BY DEF Cmd
<1> DEFINE c == Cmd("WRITE", r, d)
<1> HIDE DEF C, c
<1>2. <<c>> \in Seq(C) /\ <<c>> # <<>>
  BY <1>1 DEF c
<1>3. QED  BY <1>2, Zenon DEF Writes, C, c

LEMMA WrittenTwice ==
  ASSUME NEW r \in Registers, NEW d, NEW q \in Registers, NEW e
  PROVE  /\ Writes(<<Cmd("WRITE", r, d), Cmd("WRITE", q, e)>>)
         /\ <<Cmd("WRITE", r, d), Cmd("WRITE", q, e)>> # <<>>
<1> DEFINE C == [op : {"WRITE"}, reg : Registers, data : {d, e}]
<1>1. Cmd("WRITE", r, d) \in C /\ Cmd("WRITE", q, e) \in C
  BY DEF Cmd
<1> DEFINE c == Cmd("WRITE", r, d)
           b == Cmd("WRITE", q, e)
<1> HIDE DEF C, c, b
<1>2. <<c, b>> \in Seq(C) /\ <<c, b>> # <<>>
  BY <1>1 DEF c, b
<1>3. QED  BY <1>2, Zenon DEF Writes, C, c, b

LEMMA Firsts ==
  ASSUME NEW C, NEW s \in Seq(C), s # <<>>
  PROVE  Head(s) \in C
OBVIOUS

LEMMA EachWrites ==
  ASSUME NEW todo, Writes(todo), NEW i \in DOMAIN todo
  PROVE  todo[i].op = "WRITE" /\ todo[i].reg \in Registers
<1>1. PICK D : todo \in Seq([op : {"WRITE"}, reg : Registers, data : D])
  BY DEF Writes
<1> DEFINE C == [op : {"WRITE"}, reg : Registers, data : D]
<1>2. todo \in Seq(C)
  BY <1>1
<1> HIDE DEF C
<1>3. todo[i] \in C
  BY <1>2
<1>4. QED  BY <1>3 DEF C

LEMMA FirstWrites ==
  ASSUME NEW todo, todo # <<>>, Writes(todo)
  PROVE  /\ Head(todo).op = "WRITE" /\ Head(todo).reg \in Registers
         /\ 1 \in DOMAIN todo /\ Head(todo) = todo[1]
<1>1. PICK C : todo \in Seq(C)
  BY DEF Writes
<1>2. 1 \in DOMAIN todo /\ Head(todo) = todo[1]
  BY <1>1
<1>3. QED  BY <1>2, EachWrites

(* The thresholds of the temperature are four registers apart.             *)
LEMMA OffsetsIn ==
  /\ \A c \in Channels, f \in BOOLEAN : Offset(c, f) \in Offsets /\ Offset(c, f) \in Nat
  /\ Offset(Temp, FALSE) + 4 \in Offsets /\ Offsets \subseteq Nat
<1>1. \A c \in Channel, f \in BOOLEAN : Offset(c, f) \in Nat
  BY DEF Channel, Temp, Offset
<1>2. \A c \in Channels, f \in BOOLEAN : Offset(c, f) \in Offsets /\ Offset(c, f) \in Nat
  BY <1>1, ZynqAssumption DEF Offsets
<1>3. Offset(Temp, TRUE) = Offset(Temp, FALSE) + 4
  BY DEF Temp, Offset
<1>4. Offset(Temp, TRUE) \in Offsets
  BY <1>2, ZynqAssumption
<1>5. Offsets \subseteq Nat
  BY <1>2 DEF Offsets
<1>6. QED  BY <1>2, <1>3, <1>4, <1>5

LEMMA ValueTodo ==
  ASSUME \/ \E c \in Channels, v \in Value, falling \in BOOLEAN :
              (c = Temp => ~ falling) /\ ValueSet(c, v, falling)
         \/ \E v \in Value : HystSet(v)
  PROVE  \/ \E o \in Offsets : \E v : call'.todo = <<Write(o, v)>>
         \/ \E o, p \in Offsets : \E v, w : call'.todo = <<Write(o, v), Write(p, w)>>
<1>1. ASSUME NEW c \in Channels, NEW v \in Value, NEW falling \in BOOLEAN, c = Temp => ~ falling,
             ValueSet(c, v, falling)
      PROVE  \/ \E o \in Offsets : \E w : call'.todo = <<Write(o, w)>>
             \/ \E o, p \in Offsets : \E u, w : call'.todo = <<Write(o, u), Write(p, w)>>
  <2>1. CASE c # Temp
    BY <1>1, <2>1, OffsetsIn DEF ValueSet
  <2>2. CASE c = Temp
    <3> DEFINE o   == Offset(c, falling)
               low == Lower(v, xadc.hyst)
    <3>1. falling = FALSE
      BY <1>1, <2>2
    <3>2. o \in Offsets /\ o + 4 \in Offsets
      BY <2>2, <3>1, OffsetsIn
    <3>3. call'.todo = <<Write(o + 4, low), Write(o, v)>>
      BY <1>1, <2>2 DEF ValueSet
    <3> HIDE DEF o, low
    <3>4. QED  BY <3>2, <3>3
  <2>3. QED  BY <2>1, <2>2
<1>2. ASSUME NEW v \in Value, HystSet(v)
      PROVE  \E o \in Offsets : \E w : call'.todo = <<Write(o, w)>>
  BY <1>2, OffsetsIn DEF HystSet
<1>3. QED  BY <1>1, <1>2

LEMMA TodoKept ==
  ASSUME EventInv, Todo, ZynqNext
  PROVE  Todo'
<1>1. ZShaped
  BY DEF EventInv
<1>2. CASE UNCHANGED call
  BY <1>2 DEF Todo, Writes
<1>3. CASE ReadIssue \/ WriteIssue
  <2>1. call.pc = "issue" /\ call'.pc = "wait" /\ UNCHANGED call.todo
    BY <1>1, <1>3, IssueDoes
  <2>2. QED  BY <2>1 DEF Todo, Writes
<1>4. CASE ReadDone \/ WriteDone
  <2>1. /\ call.pc = "wait"
        /\ \/ Head(call.todo).op = "READ" /\ UNCHANGED call.todo /\ call'.pc = "got"
           \/ Head(call.todo).op = "WRITE" /\ Rested
    BY <1>1, <1>4, DoneDoes
  <2>2. CASE Head(call.todo).op = "WRITE" /\ Rested
    BY <2>1, <2>2, RestTodo DEF First
  <2>3. CASE Head(call.todo).op = "READ" /\ UNCHANGED call.todo /\ call'.pc = "got"
    <3>1. ASSUME call.todo # <<>>, Writes(call.todo) PROVE FALSE
      <4>1. Head(call.todo).op = "WRITE"
        BY <3>1, FirstWrites
      <4>2. QED  BY <2>3, <4>1
    <3>2. \E r \in {ADC, CONF1} : call.todo = <<Cmd("READ", r, None)>>
      BY <2>1, <3>1, Zenon DEF Todo
    <3>3. QED  BY <2>3, <3>2 DEF Todo
  <2>4. QED  BY <2>1, <2>2, <2>3
<1>5. CASE Timeout \/ Signal
  <2>1. /\ call.pc = "wait"
        /\ \/ call'.pc = "idle" /\ call'.todo = <<>>
           \/ Head(call.todo).op = "WRITE" /\ Rested
    BY <1>1, <1>5, GivenUpDoes
  <2>2. CASE Head(call.todo).op = "WRITE" /\ Rested
    BY <2>1, <2>2, RestTodo DEF First
  <2>3. CASE call'.pc = "idle" /\ call'.todo = <<>>
    BY <2>3 DEF Todo
  <2>4. QED  BY <2>1, <2>2, <2>3
<1>6. CASE ReadRaw \/ ReadValue
  <2>1. \/ call'.pc = "issue" /\ call'.todo = <<Cmd("READ", ADC, None)>>
        \/ call'.pc = "idle" /\ call'.todo = <<>>
    BY <1>1, <1>6, ReadsDo
  <2>2. QED  BY <2>1 DEF Todo
<1>7. CASE WriteEventConfig
  <2>1. call'.pc = "issue" /\ call'.todo = <<Cmd("READ", CONF1, None)>>
    BY <1>1, <1>7, WriteEventConfigDoes
  <2>2. QED  BY <2>1 DEF Todo
<1>8. CASE WriteConf
  <2> DEFINE d == [reg |-> CONF1, conf |-> NewConf]
  <2>1. \/ call'.pc = "idle" /\ call'.todo = <<>>
        \/ call'.pc = "issue" /\ call'.todo = <<Cmd("WRITE", CONF1, d)>>
    BY <1>1, <1>8, WriteConfDoes
  <2> HIDE DEF d
  <2>2. CONF1 \in Registers
    BY DEF Registers
  <2>3. Writes(<<Cmd("WRITE", CONF1, d)>>) /\ <<Cmd("WRITE", CONF1, d)>> # <<>>
    BY <2>2, WrittenOnce
  <2>4. QED  BY <2>1, <2>3 DEF Todo, Writes
<1>9. CASE WriteEventValue \/ WriteHysteresis
  <2>1. /\ call'.pc = "issue"
        /\ \/ \E c \in Channels, v \in Value, falling \in BOOLEAN :
                 (c = Temp => ~ falling) /\ ValueSet(c, v, falling)
           \/ \E v \in Value : HystSet(v)
    BY <1>1, <1>9, WriteValueDoes
  <2>2. \/ \E o \in Offsets : \E v : call'.todo = <<Write(o, v)>>
        \/ \E o, p \in Offsets : \E v, w : call'.todo = <<Write(o, v), Write(p, w)>>
    BY <2>1, ValueTodo
  <2>3. ASSUME NEW o \in Offsets, NEW v
        PROVE  Threshold(o) \in Registers
    BY DEF Registers
  <2>4. call'.todo # <<>> /\ Writes(call'.todo)
    BY <2>2, <2>3, WrittenOnce, WrittenTwice DEF Write
  <2>5. QED  BY <2>1, <2>4 DEF Todo, Writes
<1>10. CASE Execute \/ Toggle \/ Irq \/ Work
  BY <1>2, <1>10 DEF Execute, Toggle, Irq, Work, IrqStatus, IrqMasked, IrqLocked,
     WorkStatus, WorkLocked, WorkTest
<1>11. QED
  BY <1>3, <1>4, <1>5, <1>6, <1>7, <1>8, <1>9, <1>10 DEF ZynqNext, Access, Calls

(* Only what the access at hand writes moves it on.                        *)
LEMMA Undisturbed ==
  ASSUME InStep, UNCHANGED <<core.cfifo, core.dfifo, core.latch, core.dfifoth, core.conf, xadc.done, irq>>,
         GTH \in xadc'.intmask <=> GTH \in xadc.intmask,
         \/ UNCHANGED call
         \/ call.pc # "wait" /\ call'.pc \notin {"wait", "got"}
  PROVE  InStep'
<1>1. Caught' <=> Caught
  BY DEF Caught
<1>2. Quiet' <=> Quiet
  BY DEF Quiet
<1>3. CASE UNCHANGED call
  <2>1. First' = First /\ \A r : Fetched(r)' = Fetched(r)
    BY <1>3 DEF First, Fetched
  <2>2. Waiting' <=> Waiting
    BY <2>1 DEF Waiting, ReadGoesOn, WriteGoesOn
  <2>3. QED  BY <1>1, <1>2, <1>3, <2>1, <2>2 DEF InStep
<1>4. CASE call.pc # "wait" /\ call'.pc \notin {"wait", "got"}
  BY <1>1, <1>2, <1>4 DEF InStep
<1>5. QED  BY <1>3, <1>4

LEMMA Appended ==
  ASSUME NEW x, NEW y
  PROVE  Append(<<x>>, y) = <<x, y>>
<1>1. <<x>> \in Seq({x, y}) /\ <<x, y>> \in Seq({x, y})
  OBVIOUS
<1>2. Append(<<x>>, y) \in Seq({x, y}) /\ Len(Append(<<x>>, y)) = 2
  BY <1>1
<1>3. Append(<<x>>, y)[1] = x /\ Append(<<x>>, y)[2] = y
  BY <1>1
<1>4. Len(<<x, y>>) = 2 /\ \A i \in 1 .. 2 : Append(<<x>>, y)[i] = <<x, y>>[i]
  BY <1>3
<1>5. QED  BY <1>1, <1>2, <1>4, SeqEqual

LEMMA ExecuteInStep ==
  ASSUME ZShaped, InStep, Execute
  PROVE  InStep'
<1> DEFINE f == Fetched(First.reg)
           c == Head(core.cfifo)
<1>1. /\ UNCHANGED <<xadc, call, irq, core.dfifoth>> /\ core.cfifo # <<>> /\ Executed(c)
  BY ExecuteDoes
<1>2. call.pc = "wait" /\ Waiting /\ ~ xadc.done /\ ~ Caught
  BY <1>1 DEF InStep, Quiet
<1>3. First' = First /\ ~ Caught' /\ ~ xadc'.done
  BY <1>1, <1>2 DEF First, Caught
<1>4. CASE core.cfifo = <<First, Nop>> /\ core.dfifo = <<>> /\ First.op = "READ" /\ core.dfifoth = 1
  <2>1. c = First /\ Tail(core.cfifo) = <<Nop>>
    BY <1>4
  <2>2. core'.cfifo = <<Nop>> /\ core'.latch = f /\ core'.conf = core.conf
    BY <1>1, <1>4, <2>1 DEF Executed
  <2>3. core'.dfifo = <<core.latch>>
    BY <1>1, <1>4 DEF Executed
  <2>4. f = f'
    BY <1>3, <2>2 DEF Fetched
  <2>5. ReadGoesOn'
    BY <1>1, <1>3, <1>4, <2>2, <2>3, <2>4 DEF ReadGoesOn
  <2>6. QED  BY <1>1, <1>2, <1>3, <2>5 DEF InStep, Waiting
<1>5. CASE core.cfifo = <<Nop>> /\ core.latch = f /\ (\E x : core.dfifo = <<x>>)
           /\ First.op = "READ" /\ core.dfifoth = 1
  <2>1. c = Nop /\ Tail(core.cfifo) = <<>>
    BY <1>5
  <2>2. c.op = "NOP"
    BY <2>1 DEF Nop, Cmd
  <2>3. core'.cfifo = <<>> /\ core'.conf = core.conf
    BY <1>1, <2>1, <2>2 DEF Executed
  <2>4. PICK x : core.dfifo = <<x>>
    BY <1>5
  <2> DEFINE la == core.latch
  <2> HIDE DEF la
  <2>10. Append(<<x>>, la) = <<x, la>>
    BY Appended
  <2>5. core'.dfifo = <<x, core.latch>>
    BY <1>1, <2>4, <2>10, Zenon DEF Executed, la
  <2>6. f = f'
    BY <1>3, <2>3 DEF Fetched
  <2>7. core'.dfifo = <<x, f'>>
    BY <1>5, <2>5, <2>6
  <2>8. ReadGoesOn'
    BY <1>1, <1>3, <1>5, <2>3, <2>7 DEF ReadGoesOn
  <2>9. QED  BY <1>1, <1>2, <1>3, <2>8 DEF InStep, Waiting
<1>6. CASE core.cfifo = <<First>> /\ core.dfifo = <<>> /\ First.op = "WRITE" /\ core.dfifoth = 0
  <2>1. core'.cfifo = <<>> /\ core'.dfifo = <<core.latch>>
    BY <1>1, <1>6 DEF Executed
  <2>2. WriteGoesOn'
    BY <1>1, <1>3, <1>6, <2>1 DEF WriteGoesOn
  <2>3. QED  BY <1>1, <1>2, <1>3, <2>2 DEF InStep, Waiting
<1>7. QED  BY <1>1, <1>2, <1>4, <1>5, <1>6 DEF Waiting, ReadGoesOn, WriteGoesOn

LEMMA IssueInStep ==
  ASSUME EventInv, ~ hist.spoiled => InStep, ReadIssue \/ WriteIssue, ~ hist'.spoiled
  PROVE  InStep'
<1>1. /\ UNCHANGED <<irq, call.todo>> /\ call.pc = "issue" /\ call'.pc = "wait" /\ ~ xadc'.done
      /\ xadc'.intmask = xadc.intmask \ {GTH}
      /\ \/ /\ Head(call.todo).op = "READ" /\ core'.cfifo = core.cfifo \o <<Head(call.todo), Nop>>
            /\ core'.dfifo = <<>> /\ core'.dfifoth = 1
            /\ ~ ((hist.spoiled \/ Straddled) /\ ~ (core.cfifo = <<>> /\ irq.pc = "idle"))
         \/ /\ Head(call.todo).op = "WRITE" /\ core'.cfifo = core.cfifo \o <<Head(call.todo)>>
            /\ core'.dfifo = core.dfifo /\ core'.dfifoth = 0 /\ ~ (hist.spoiled \/ Straddled)
  BY IssueDoes DEF EventInv
<1>2. ~ hist.spoiled => /\ core.cfifo = <<>> /\ core.dfifo = <<>>
                        /\ ~ (irq.pc = "lock" /\ GTH \in irq.status)
  BY <1>1 DEF InStep, Quiet, Caught
<1>3. core.cfifo = <<>> /\ ~ Straddled
  BY <1>1, <1>2 DEF Straddled
<1>4. First' = First
  BY <1>1 DEF First
<1>5. Waiting'
  <2> DEFINE c == Head(call.todo)
  <2> HIDE DEF c
  <2>1. c = First /\ <<>> \o <<c, Nop>> = <<c, Nop>> /\ <<>> \o <<c>> = <<c>>
    BY DEF c, First
  <2>2. CASE c.op = "READ" /\ core'.cfifo = <<c, Nop>> /\ core'.dfifo = <<>> /\ core'.dfifoth = 1
    <3>1. ReadGoesOn'
      BY <1>4, <2>1, <2>2 DEF ReadGoesOn
    <3>2. QED  BY <3>1 DEF Waiting
  <2>3. CASE c.op = "WRITE" /\ core'.cfifo = <<c>> /\ core'.dfifo = <<>> /\ core'.dfifoth = 0
    <3>1. WriteGoesOn'
      BY <1>4, <2>1, <2>3 DEF WriteGoesOn
    <3>2. QED  BY <3>1 DEF Waiting
  <2>4. QED  BY <1>1, <1>2, <1>3, <2>1, <2>2, <2>3 DEF c
<1>6. ~ Caught'
  <2>1. CASE irq.pc = "idle"
    BY <1>1, <2>1 DEF Caught
  <2>2. CASE irq.pc # "idle"
    BY <1>1, <1>2, <1>3, <2>2 DEF Caught, Straddled
  <2>3. QED  BY <2>1, <2>2
<1>7. QED  BY <1>1, <1>5, <1>6 DEF InStep

LEMMA DoneInStep ==
  ASSUME ZShaped, InStep, ReadDone \/ WriteDone
  PROVE  InStep'
<1> DEFINE f == Fetched(First.reg)
<1>1. /\ UNCHANGED <<irq, hist, core.cfifo, core.conf, xadc.intmask>>
      /\ call.pc = "wait" /\ xadc.done /\ ~ xadc'.done
      /\ \/ /\ First.op = "READ" /\ core'.dfifo = PopN(2) /\ UNCHANGED call.todo
            /\ call'.pc = "got" /\ call'.val = Word(2)
         \/ First.op = "WRITE" /\ core'.dfifo = PopN(1) /\ call'.pc \in {"idle", "issue"}
  BY DoneDoes DEF Rested, First
<1>2. Waiting /\ core.cfifo = <<>> /\ GTH \in xadc.intmask /\ ~ Caught
  BY <1>1 DEF InStep
<1>3. ~ Caught'
  BY <1>1, <1>2 DEF Caught
<1>4. CASE First.op = "READ"
  <2>1. PICK x : core.dfifo = <<x, f>>
    BY <1>2, <1>4 DEF Waiting, ReadGoesOn, WriteGoesOn
  <2> DEFINE g == f
  <2> HIDE DEF g
  <2>2. core.dfifo = <<x, g>>
    BY <2>1 DEF g
  <2>3. PopN(2) = <<>> /\ Word(2) = g
    BY <2>2 DEF PopN, Word
  <2>4. First' = First /\ f' = f
    BY <1>1, <1>4 DEF First, Fetched
  <2>5. core'.dfifo = <<>> /\ call'.pc = "got" /\ call'.val = f'
    BY <1>1, <1>4, <2>3, <2>4 DEF g
  <2>6. Quiet'
    BY <1>1, <1>2, <2>5 DEF Quiet
  <2>7. QED  BY <1>1, <1>3, <2>5, <2>6 DEF InStep
<1>5. CASE First.op = "WRITE"
  <2>1. PICK x : core.dfifo = <<x>>
    BY <1>2, <1>5 DEF Waiting, ReadGoesOn, WriteGoesOn
  <2>2. PopN(1) = <<>>
    BY <2>1 DEF PopN
  <2>3. core'.dfifo = <<>> /\ call'.pc \in {"idle", "issue"}
    BY <1>1, <1>5, <2>2
  <2>4. Quiet'
    BY <1>1, <1>2, <2>3 DEF Quiet
  <2>5. QED  BY <1>1, <1>3, <2>3, <2>4 DEF InStep
<1>6. QED  BY <1>1, <1>4, <1>5

(* DFIFO_GTH is raised only where an access is at its end.                 *)
LEMMA RaisedAtEnd ==
  ASSUME ZSets, InStep, core.dfifoth \in {0, 1}, GTH \in IntSts
  PROVE  call.pc = "wait" /\ core.cfifo = <<>>
<1>1. GTH \notin core.sts
  BY ZNumbers DEF ZSets, Opened
<1>2. Len(core.dfifo) > core.dfifoth
  BY <1>1 DEF IntSts
<1>3. core.dfifo # <<>>
  BY <1>2
<1>4. call.pc = "wait" /\ Waiting
  BY <1>3 DEF InStep, Quiet
<1>5. CASE ReadGoesOn
  <2>2. core.dfifoth = 1
    BY <1>5 DEF ReadGoesOn
  <2>3. ASSUME NEW x, core.dfifo = <<x>> PROVE FALSE
    <3>1. Len(core.dfifo) = 1
      BY <2>3
    <3>2. Len(core.dfifo) > 1
      BY <1>2, <2>2
    <3>3. QED  BY <3>1, <3>2
  <2>4. QED  BY <1>3, <1>4, <1>5, <2>3, Zenon DEF ReadGoesOn
<1>6. CASE WriteGoesOn
  BY <1>3, <1>4, <1>6 DEF WriteGoesOn
<1>7. QED  BY <1>4, <1>5, <1>6 DEF Waiting

LEMMA IrqInStep ==
  ASSUME ZShaped, ZSets, core.dfifoth \in {0, 1}, InStep, Irq
  PROVE  InStep'
<1>1. CASE IrqStatus \/ IrqMasked
  <2>1. /\ UNCHANGED <<core, xadc, call, hist>>
        /\ \/ irq.pc = "idle" /\ irq'.pc = "mask" /\ irq'.status = IntSts
           \/ irq.pc = "mask" /\ irq'.status = irq.status \ Masks /\ irq'.pc \in {"idle", "lock"}
    BY <1>1, IrqReadsDo
  <2>2. Caught' => call.pc = "wait" /\ core.cfifo = <<>> /\ ~ xadc.done
    <3>1. CASE irq.pc = "idle"
      <4>1. Caught' => GTH \in IntSts /\ GTH \notin xadc.intmask
        BY <2>1, <3>1 DEF Caught
      <4>2. QED  BY <4>1, RaisedAtEnd DEF InStep
    <3>2. CASE irq.pc = "mask"
      <4>1. Caught' => Caught
        BY <2>1, <3>2 DEF Caught, Masks
      <4>2. QED  BY <4>1 DEF InStep
    <3>3. QED  BY <2>1, <3>1, <3>2
  <2>3. First' = First /\ \A r : Fetched(r)' = Fetched(r)
    BY <2>1 DEF First, Fetched
  <2>4. (Waiting' <=> Waiting) /\ (Quiet' <=> Quiet)
    BY <2>1, <2>3 DEF Waiting, ReadGoesOn, WriteGoesOn, Quiet
  <2>5. QED  BY <2>1, <2>2, <2>3, <2>4 DEF InStep
<1>2. CASE IrqLocked
  <2>1. /\ UNCHANGED <<call, core.conf, core.cfifo, core.dfifo, core.latch, core.dfifoth>>
        /\ irq.pc = "lock" /\ irq'.pc = "idle" /\ (xadc'.done <=> xadc.done \/ GTH \in irq.status)
        /\ xadc'.intmask = xadc.intmask \cup (irq.status \cap {GTH})
    BY <1>2, IrqLockedDoes
  <2>2. ~ Caught'
    BY <2>1 DEF Caught
  <2>3. First' = First /\ \A r : Fetched(r)' = Fetched(r)
    BY <2>1 DEF First, Fetched
  <2>4. Waiting' <=> Waiting
    BY <2>1, <2>3 DEF Waiting, ReadGoesOn, WriteGoesOn
  <2>5. GTH \in irq.status => call.pc = "wait" /\ core.cfifo = <<>>
    BY <2>1 DEF InStep, Caught
  <2>6. call.pc # "wait" => Quiet'
    BY <2>1, <2>5 DEF InStep, Quiet
  <2>7. QED  BY <2>1, <2>2, <2>3, <2>4, <2>5, <2>6 DEF InStep
<1>3. QED  BY <1>1, <1>2 DEF Irq

LEMMA AccessKept ==
  ASSUME EventInv, AccessInv, ZynqNext
  PROVE  AccessInv'
<1> SUFFICES core'.dfifoth \in {0, 1} /\ (~ hist'.spoiled => InStep')
  BY TodoKept DEF AccessInv
<1>1. ZShaped /\ ZSets /\ core.dfifoth \in {0, 1} /\ (~ hist.spoiled => InStep)
  BY DEF EventInv, AccessInv
<1>2. ASSUME UNCHANGED <<core.cfifo, core.dfifo, core.latch, core.dfifoth, core.conf, xadc.done, irq>>,
             GTH \in xadc'.intmask <=> GTH \in xadc.intmask, hist.spoiled => hist'.spoiled,
             \/ UNCHANGED call
             \/ call.pc # "wait" /\ call'.pc \notin {"wait", "got"}
      PROVE  core'.dfifoth \in {0, 1} /\ (~ hist'.spoiled => InStep')
  BY <1>1, <1>2, Undisturbed
<1>3. CASE Execute
  <2>1. UNCHANGED <<core.dfifoth, hist.spoiled>>
    BY <1>1, <1>3, ExecuteDoes
  <2>2. QED  BY <1>1, <1>3, <2>1, ExecuteInStep
<1>4. CASE ReadIssue \/ WriteIssue
  <2>1. core'.dfifoth \in {0, 1}
    BY <1>1, <1>4, IssueDoes
  <2>2. QED  BY <1>1, <1>4, <2>1, IssueInStep
<1>5. CASE ReadDone \/ WriteDone
  <2>1. UNCHANGED <<core.dfifoth, hist>>
    BY <1>1, <1>5, DoneDoes
  <2>2. QED  BY <1>1, <1>5, <2>1, DoneInStep
<1>6. CASE Timeout \/ Signal
  BY <1>1, <1>6, GivenUpDoes
<1>7. CASE Irq
  <2>1. UNCHANGED <<core.dfifoth, hist.spoiled>>
    BY <1>1, <1>7, IrqReadsDo, IrqLockedDoes DEF Irq
  <2>2. QED  BY <1>1, <1>7, <2>1, IrqInStep
<1>8. CASE Toggle
  BY <1>1, <1>2, <1>8, ToggleZDoes
<1>9. CASE ReadRaw \/ ReadValue
  BY <1>1, <1>2, <1>9, ReadsDo
<1>10. CASE WriteEventConfig
  <2>1. /\ UNCHANGED <<irq, core.conf, core.cfifo, core.dfifo, core.latch, core.dfifoth, xadc.done>>
        /\ call.pc = "idle" /\ call'.pc = "issue" /\ (hist.spoiled => hist'.spoiled)
        /\ xadc'.intmask = (Ints \ (Opened(xadc'.alarm_mask) \cup {GTH})) \cup (xadc.intmask \cap {GTH})
    BY <1>1, <1>10, WriteEventConfigDoes
  <2>2. GTH \in xadc'.intmask <=> GTH \in xadc.intmask
    BY <2>1
  <2>3. QED  BY <1>2, <2>1, <2>2
<1>11. CASE WriteConf
  BY <1>1, <1>2, <1>11, WriteConfDoes
<1>12. CASE WriteEventValue \/ WriteHysteresis
  BY <1>1, <1>2, <1>12, WriteValueDoes
<1>13. CASE Work
  <2>1. CASE WorkStatus \/ WorkTest
    BY <1>1, <1>2, <2>1, WorkDoes
  <2>2. CASE WorkLocked
    BY <1>1, <1>2, <2>2, WorkLockedDoes
  <2>3. QED  BY <1>13, <2>1, <2>2 DEF Work
<1>14. QED
  BY <1>3, <1>4, <1>5, <1>6, <1>7, <1>8, <1>9, <1>10, <1>11, <1>12, <1>13 DEF ZynqNext, Access, Calls

LEMMA AccessSteps ==
  ASSUME EventInv, AccessInv, [Next]_vars
  PROVE  AccessInv'
<1>1. CASE ZynqNext
  BY <1>1, AccessKept
<1>2. CASE UNCHANGED zynqVars
  <2>1. UNCHANGED <<core, xadc, call, irq, work, hist>>
    BY <1>2 DEF zynqVars
  <2>2. Todo'
    BY <2>1 DEF AccessInv, Todo, Writes
  <2>3. InStep => InStep'
    BY <2>1, Undisturbed
  <2>4. QED  BY <2>1, <2>2, <2>3 DEF AccessInv
<1>3. QED  BY <1>1, <1>2 DEF Next, vars

(* A read that succeeds gets the answer to its own command.                *)
THEOREM ReadsTrue == Spec => []TrueReads
<1> DEFINE Inv == EventInv /\ AccessInv
<1>1. Init => Inv
  BY EventStarts, AccessStarts DEF Init
<1>2. Inv /\ [Next]_vars => Inv'
  BY EventSteps, AccessSteps
<1>3. Inv => TrueReads
  BY DEF AccessInv, InStep, TrueReads, First
<1> HIDE DEF Inv
<1>4. QED  BY <1>1, <1>2, <1>3, PTL DEF Spec

-----------------------------------------------------------------------------
(* The registers the driver keeps a copy of.                               *)

(* The registers the driver keeps a copy of, by what is in them or on its  *)
(* way. A write in the command FIFO may be left over from a call that has   *)
(* given up: the last one for a register decides.                           *)
Confs == [dis : SUBSET Alarms, mode : {"continuous", "junk"}]
Words == {None, [reg |-> ADC]} \cup [reg : {CONF1}, conf : Confs]

Contents ==
  /\ core.conf \in Confs /\ core.latch \in Words /\ call.val \in Words /\ core.dfifo \in Seq(Words)
  /\ core.thr = [o \in Offsets |-> core.thr[o]]
  /\ xadc.threshold = [o \in Offsets |-> xadc.threshold[o]]
  /\ \E C : core.cfifo \in Seq(C)

(* A write of CONF1 that keeps what else is in it.                         *)
Sound(c, bad) ==
  c.op = "WRITE" => /\ c.reg \in Registers
                    /\ c.reg = CONF1 => /\ c.data.conf \in Confs
                                        /\ ADC \notin bad => c.data.conf.mode = "continuous"

(* The driver's value for a register.                                      *)
Good(r, d, x) ==
  IF r = CONF1 THEN d.conf.dis = Alarms \ x.alarm_mask
  ELSE d.val = x.threshold[r - Threshold(0)]

Commands ==
  /\ ADC \notin hist.bad => core.conf.mode = "continuous"
  /\ \A i \in DOMAIN core.cfifo : Sound(core.cfifo[i], hist.bad)
  /\ \A i \in DOMAIN call.todo :
       call.todo[i].op = "WRITE" => Sound(call.todo[i], hist.bad) /\ Good(call.todo[i].reg, call.todo[i].data, xadc)

WritesOf(s, r) == {i \in DOMAIN s : s[i].op = "WRITE" /\ s[i].reg = r}
Ends(s, i, r)  == i \in WritesOf(s, r) /\ \A j \in WritesOf(s, r) : j <= i

(* The writes of r in u are those in s; the last one is c.                  *)
Same(u, s, r)   == WritesOf(u, r) = WritesOf(s, r) /\ \A i \in WritesOf(s, r) : u[i] = s[i]
Newest(u, r, c) == WritesOf(u, r) # {} /\ \A i : Ends(u, i, r) => u[i] = c

(* A register has the driver's value once the command FIFO is empty.       *)
Held(r) == [conf |-> core.conf, val |-> core.thr[r - Threshold(0)]]
Comes(r) ==
  /\ WritesOf(core.cfifo, r) = {} => Good(r, Held(r), xadc)
  /\ \A i : Ends(core.cfifo, i, r) => Good(r, core.cfifo[i].data, xadc)

(* The registers the call has yet to write.                                *)
Pending ==
  IF call.pc = "wait" /\ First.op = "WRITE" THEN {call.todo[i].reg : i \in 2 .. Len(call.todo)}
  ELSE {call.todo[i].reg : i \in DOMAIN call.todo}

Settles == \A r \in Registers : r \notin hist.bad /\ r \notin Pending => Comes(r)

Opens == xadc.intmask \ {GTH} = (Ints \ {GTH}) \ Opened(xadc.alarm_mask)

ConfigInv == Contents /\ Commands /\ Settles /\ Opens

LEMMA RegisterNumbers ==
  /\ ADC # CONF1 /\ None.reg # CONF1 /\ None.reg # ADC
  /\ \A o \in Offsets : Threshold(o) # CONF1 /\ Threshold(o) # ADC /\ Threshold(o) - Threshold(0) = o
  /\ ADC \notin Registers
<1>1. \A o \in Nat : Threshold(o) # CONF1 /\ Threshold(o) # ADC /\ Threshold(o) - Threshold(0) = o
  BY DEF Threshold, CONF1, ADC
<1>2. Offsets \subseteq Nat
  BY OffsetsIn
<1>3. ADC # CONF1 /\ None.reg # CONF1 /\ None.reg # ADC
  BY DEF ADC, CONF1, None
<1>4. QED  BY <1>1, <1>2, <1>3 DEF Registers

(* Commands added behind those in the FIFO.                                *)
LEMMA Joined ==
  ASSUME NEW C, NEW s \in Seq(C), NEW D, NEW t \in Seq(D)
  PROVE  /\ Len(s) \in Nat /\ DOMAIN s = 1 .. Len(s) /\ DOMAIN (s \o t) = 1 .. Len(s) + Len(t)
         /\ \A i \in 1 .. Len(s) : (s \o t)[i] = s[i]
         /\ \A i \in 1 .. Len(t) : (s \o t)[Len(s) + i] = t[i]
         /\ s \o t \in Seq(C \cup D)
<1>1. s \in Seq(C \cup D) /\ t \in Seq(C \cup D)
  OBVIOUS
<1>2. QED  BY <1>1, ConcatProperties

LEMMA ReadsJoined ==
  ASSUME NEW C, NEW s \in Seq(C), NEW a, a.op # "WRITE", NEW b, b.op # "WRITE", NEW r
  PROVE  /\ Same(s \o <<a, b>>, s, r)
         /\ \A i \in DOMAIN (s \o <<a, b>>) :
              \/ i \in DOMAIN s /\ (s \o <<a, b>>)[i] = s[i]
              \/ (s \o <<a, b>>)[i] \in {a, b}
         /\ \E E : s \o <<a, b>> \in Seq(E)
<1> DEFINE t == <<a, b>>
           u == s \o t
<1>1. t \in Seq({a, b}) /\ Len(t) = 2 /\ t[1] = a /\ t[2] = b
  OBVIOUS
<1> HIDE DEF t
<1>2. /\ Len(s) \in Nat /\ DOMAIN s = 1 .. Len(s) /\ DOMAIN u = 1 .. Len(s) + 2
      /\ \A i \in 1 .. Len(s) : u[i] = s[i]
      /\ \A i \in 1 .. 2 : u[Len(s) + i] = t[i]
      /\ \E E : u \in Seq(E)
  <2> DEFINE D == {a, b}
  <2>1. t \in Seq(D)
    BY <1>1
  <2> HIDE DEF D
  <2>2. /\ Len(s) \in Nat /\ DOMAIN s = 1 .. Len(s) /\ DOMAIN u = 1 .. Len(s) + Len(t)
        /\ \A i \in 1 .. Len(s) : u[i] = s[i]
        /\ \A i \in 1 .. Len(t) : u[Len(s) + i] = t[i]
        /\ u \in Seq(C \cup D)
    BY <2>1, Joined
  <2> HIDE DEF u
  <2>3. QED  BY <1>1, <2>2
<1> DEFINE n == Len(s)
<1>3. u[n + 1] = a /\ u[n + 2] = b
  BY <1>1, <1>2
<1> HIDE DEF u, n
<1>4. \A i \in 1 .. n + 2 : i \in 1 .. n \/ i = n + 1 \/ i = n + 2
  BY <1>2 DEF n
<1>5. \A i \in DOMAIN u : (i \in DOMAIN s /\ u[i] = s[i]) \/ u[i] = a \/ u[i] = b
  BY <1>2, <1>3, <1>4 DEF n
<1>6. \A i \in DOMAIN s : i \in DOMAIN u /\ u[i] = s[i]
  BY <1>2 DEF n
<1>7. Same(u, s, r)
  BY <1>5, <1>6 DEF WritesOf, Same
<1>8. QED  BY <1>2, <1>5, <1>7 DEF u, t

LEMMA OneJoined ==
  ASSUME NEW C, NEW s \in Seq(C), NEW c
  PROVE  /\ Len(s) \in Nat /\ DOMAIN s = 1 .. Len(s)
         /\ DOMAIN (s \o <<c>>) = 1 .. Len(s) + 1 /\ (s \o <<c>>)[Len(s) + 1] = c
         /\ \A i \in DOMAIN s : i \in DOMAIN (s \o <<c>>) /\ (s \o <<c>>)[i] = s[i]
         /\ \A i \in DOMAIN (s \o <<c>>) :
              (i \in DOMAIN s /\ (s \o <<c>>)[i] = s[i]) \/ (s \o <<c>>)[i] = c
<1> DEFINE t == <<c>>
           u == s \o t
           n == Len(s)
           D == {c}
<1>1. t \in Seq(D) /\ Len(t) = 1 /\ t[1] = c
  OBVIOUS
<1> HIDE DEF t, D
<1>2. /\ n \in Nat /\ DOMAIN s = 1 .. n /\ DOMAIN u = 1 .. n + Len(t)
      /\ \A i \in 1 .. n : u[i] = s[i]
      /\ \A i \in 1 .. Len(t) : u[n + i] = t[i]
  BY <1>1, Joined
<1> HIDE DEF u, n
<1>3. DOMAIN u = 1 .. n + 1 /\ u[n + 1] = c
  BY <1>1, <1>2
<1>4. \A i \in 1 .. n + 1 : i \in 1 .. n \/ i = n + 1
  BY <1>2
<1>5. \A i \in DOMAIN u : (i \in DOMAIN s /\ u[i] = s[i]) \/ u[i] = c
  BY <1>2, <1>3, <1>4
<1>6. \A i \in DOMAIN s : i \in DOMAIN u /\ u[i] = s[i]
  BY <1>2, <1>3
<1>7. QED  BY <1>2, <1>3, <1>5, <1>6 DEF u, t, n

LEMMA WriteJoined ==
  ASSUME NEW C, NEW s \in Seq(C), NEW c, NEW r
  PROVE  IF c.op = "WRITE" /\ c.reg = r THEN Newest(s \o <<c>>, r, c) ELSE Same(s \o <<c>>, s, r)
<1> DEFINE u == s \o <<c>>
           n == Len(s)
<1>1. /\ n \in Nat /\ DOMAIN s = 1 .. n /\ DOMAIN u = 1 .. n + 1 /\ u[n + 1] = c
      /\ \A i \in DOMAIN s : i \in DOMAIN u /\ u[i] = s[i]
      /\ \A i \in DOMAIN u : (i \in DOMAIN s /\ u[i] = s[i]) \/ u[i] = c
  BY OneJoined
<1> HIDE DEF u, n
<1>2. ASSUME ~ (c.op = "WRITE" /\ c.reg = r)
      PROVE  Same(u, s, r)
  BY <1>1, <1>2 DEF WritesOf, Same
<1>3. ASSUME c.op = "WRITE", c.reg = r
      PROVE  Newest(u, r, c)
  <2>1. n + 1 \in WritesOf(u, r)
    BY <1>1, <1>3 DEF WritesOf
  <2>2. ASSUME NEW i, Ends(u, i, r) PROVE i = n + 1
    <3>1. i \in 1 .. n + 1 /\ n + 1 <= i
      BY <1>1, <2>1, <2>2 DEF Ends, WritesOf
    <3>2. QED  BY <1>1, <3>1
  <2>3. QED  BY <1>1, <2>1, <2>2 DEF Newest
<1>4. QED  BY <1>2, <1>3 DEF u

LEMMA TailWrites ==
  ASSUME NEW C, NEW s \in Seq(C), s # <<>>, NEW r
  PROVE  /\ 1 \in DOMAIN s /\ Head(s) = s[1] /\ Tail(s) \in Seq(C)
         /\ \A i \in DOMAIN Tail(s) : i + 1 \in DOMAIN s /\ Tail(s)[i] = s[i + 1]
         /\ WritesOf(Tail(s), r) = {} => WritesOf(s, r) \subseteq {1}
         /\ \A i : Ends(Tail(s), i, r) => Ends(s, i + 1, r) /\ Tail(s)[i] = s[i + 1]
<1> DEFINE t == Tail(s)
           n == Len(s)
<1>1. /\ n \in Nat \ {0} /\ DOMAIN s = 1 .. n /\ Head(s) = s[1] /\ t \in Seq(C)
      /\ DOMAIN t = 1 .. n - 1 /\ \A i \in 1 .. n - 1 : t[i] = s[i + 1]
  <2>1. Len(s) \in Nat /\ Len(s) # 0
    OBVIOUS
  <2>2. Head(s) = s[1] /\ t \in Seq(C) /\ Len(t) = Len(s) - 1 /\ \A i \in 1 .. Len(t) : t[i] = s[i + 1]
    BY HeadTailProperties
  <2>3. QED  BY <2>1, <2>2
<1> HIDE DEF t, n
<1>2. \A i \in DOMAIN t : i + 1 \in DOMAIN s /\ t[i] = s[i + 1]
  BY <1>1
<1>3. \A i \in DOMAIN s : i = 1 \/ (i - 1 \in DOMAIN t /\ s[i] = t[i - 1])
  <2> SUFFICES ASSUME NEW i \in 1 .. n, i # 1 PROVE i - 1 \in 1 .. n - 1 /\ s[i] = t[i - 1]
    BY <1>1
  <2>1. i - 1 \in 1 .. n - 1 /\ (i - 1) + 1 = i
    BY <1>1
  <2>2. QED  BY <1>1, <2>1
<1>4. \A i \in WritesOf(s, r) : i = 1 \/ i - 1 \in WritesOf(t, r)
  BY <1>3 DEF WritesOf
<1>5. WritesOf(t, r) = {} => WritesOf(s, r) \subseteq {1}
  BY <1>4
<1>6. ASSUME NEW i, Ends(t, i, r) PROVE Ends(s, i + 1, r) /\ t[i] = s[i + 1]
  <2>1. i \in 1 .. n - 1 /\ t[i] = s[i + 1] /\ i + 1 \in WritesOf(s, r)
    BY <1>1, <1>2, <1>6 DEF Ends, WritesOf
  <2>2. ASSUME NEW j \in WritesOf(s, r) PROVE j <= i + 1
    <3>1. j \in 1 .. n
      BY <1>1 DEF WritesOf
    <3>2. CASE j = 1
      BY <1>1, <2>1, <3>2
    <3>3. CASE j - 1 \in WritesOf(t, r)
      <4>1. j - 1 <= i
        BY <1>6, <3>3 DEF Ends
      <4>2. QED  BY <1>1, <2>1, <3>1, <4>1
    <3>4. QED  BY <1>4, <3>2, <3>3
  <2>3. QED  BY <2>1, <2>2 DEF Ends
<1>7. 1 \in DOMAIN s /\ Head(s) = s[1] /\ t \in Seq(C)
  BY <1>1
<1>8. QED  BY <1>2, <1>5, <1>6, <1>7, Zenon DEF t

LEMMA WordsPopped ==
  ASSUME core.dfifo \in Seq(Words), NEW n \in {1, 2}
  PROVE  PopN(n) \in Seq(Words) /\ Word(n) \in Words
<1> DEFINE d == core.dfifo
           W == Words
<1>0. d \in Seq(W) /\ None \in W
  BY DEF Words
<1> HIDE DEF d, W
<1>1. Len(d) \in Nat /\ DOMAIN d = 1 .. Len(d) /\ \A i \in 1 .. Len(d) : d[i] \in W
  BY <1>0
<1>2. SubSeq(d, n + 1, Len(d)) \in Seq(W)
  BY <1>0, <1>1, SubSeqProperties
<1>3. (IF Len(d) >= n THEN d[n] ELSE None) \in W
  BY <1>0, <1>1
<1>4. QED  BY <1>2, <1>3 DEF PopN, Word, d, W

LEMMA FetchedWord ==
  ASSUME core.conf \in Confs, NEW r
  PROVE  Fetched(r) \in Words
  BY DEF Fetched, Words

(* What the copies and the FIFOs hold.                                     *)
LEMMA ContentsKept ==
  ASSUME EventInv, AccessInv, ConfigInv, ZynqNext
  PROVE  Contents'
<1>1. ZShaped
  BY DEF EventInv
<1>2. Contents /\ \A i \in DOMAIN core.cfifo : Sound(core.cfifo[i], hist.bad)
  BY DEF ConfigInv, Commands
<1>3. CASE UNCHANGED <<core.conf, core.latch, call.val, core.dfifo, core.thr, xadc.threshold, core.cfifo>>
  BY <1>2, <1>3 DEF Contents
<1>4. CASE Execute
  <2> DEFINE c == Head(core.cfifo)
  <2>1. UNCHANGED <<xadc, call>> /\ core.cfifo # <<>> /\ Executed(c)
    BY <1>1, <1>4, ExecuteDoes
  <2>2. PICK C : core.cfifo \in Seq(C)
    BY <1>2 DEF Contents
  <2>3. Sound(c, hist.bad) /\ Tail(core.cfifo) \in Seq(C)
    BY <1>2, <2>1, <2>2, TailWrites
  <2> HIDE DEF c
  <2>4. core'.conf \in Confs
    BY <1>2, <2>1, <2>3 DEF Executed, Sound, Contents
  <2>5. core'.latch \in Words
    <3>1. None \in Words
      BY DEF Words
    <3>2. QED  BY <1>2, <2>1, <3>1, FetchedWord DEF Executed, Contents
  <2>6. core'.dfifo \in Seq(Words)
    <3> DEFINE W == Words
    <3> HIDE DEF W
    <3>1. core.dfifo \in Seq(W) /\ core.latch \in W /\ core'.dfifo = Append(core.dfifo, core.latch)
      BY <1>2, <2>1 DEF Contents, Executed, W
    <3>2. core'.dfifo \in Seq(W)
      BY <3>1
    <3>3. QED  BY <3>2 DEF W
  <2>7. core'.thr = [o \in Offsets |-> core'.thr[o]]
    <3> DEFINE k == c.reg - Threshold(0)
               v == c.data.val
    <3>1. core'.thr = [core.thr EXCEPT ![k] = v] \/ core'.thr = core.thr
      BY <2>1 DEF Executed
    <3> HIDE DEF k, v
    <3>2. core.thr = [o \in Offsets |-> core.thr[o]]
      BY <1>2 DEF Contents
    <3>3. QED  BY <3>1, <3>2
  <2>8. \E D : core'.cfifo \in Seq(D)
    BY <2>1, <2>3 DEF Executed
  <2>9. UNCHANGED <<call.val, xadc.threshold>>
    BY <2>1
  <2>10. QED  BY <1>2, <2>4, <2>5, <2>6, <2>7, <2>8, <2>9 DEF Contents
<1>5. CASE ReadIssue \/ WriteIssue
  <2> DEFINE c == Head(call.todo)
  <2>1. /\ UNCHANGED <<core.conf, core.latch, call.val, core.thr, xadc.threshold>>
        /\ core'.dfifo = <<>> \/ core'.dfifo = core.dfifo
        /\ \/ c.op = "READ" /\ core'.cfifo = core.cfifo \o <<c, Nop>>
           \/ core'.cfifo = core.cfifo \o <<c>>
    BY <1>1, <1>5, IssueDoes
  <2> HIDE DEF c
  <2>2. PICK C : core.cfifo \in Seq(C)
    BY <1>2 DEF Contents
  <2>3. \E D : <<c>> \in Seq(D) /\ \E E : <<c, Nop>> \in Seq(E)
    <3> DEFINE b == Nop
    <3> HIDE DEF b
    <3>1. <<c>> \in Seq({c}) /\ <<c, b>> \in Seq({c, b})
      OBVIOUS
    <3>2. QED  BY <3>1 DEF b
  <2>4. \E E : core'.cfifo \in Seq(E)
    <3>1. PICK D : <<c>> \in Seq(D) /\ \E E : <<c, Nop>> \in Seq(E)
      BY <2>3
    <3>2. PICK E : <<c, Nop>> \in Seq(E)
      BY <3>1
    <3>3. core.cfifo \o <<c>> \in Seq(C \cup D) /\ core.cfifo \o <<c, Nop>> \in Seq(C \cup E)
      BY <2>2, <3>1, <3>2, Joined
    <3>4. QED  BY <2>1, <3>3
  <2>5. core'.dfifo \in Seq(Words)
    <3> DEFINE W == Words
    <3> HIDE DEF W
    <3>1. core.dfifo \in Seq(W)
      BY <1>2 DEF Contents, W
    <3>2. <<>> \in Seq(W)
      OBVIOUS
    <3>4. core'.dfifo \in Seq(W)
      BY <2>1, <3>1, <3>2, Zenon
    <3>3. QED  BY <3>4 DEF W
  <2>6. QED  BY <1>2, <2>1, <2>4, <2>5 DEF Contents
<1>6. CASE ReadDone \/ WriteDone
  <2>1. /\ UNCHANGED <<core.conf, core.latch, core.thr, xadc.threshold, core.cfifo>>
        /\ \E n \in {1, 2} : core'.dfifo = PopN(n)
        /\ call'.val \in {call.val, Word(2)}
    BY <1>1, <1>6, DoneDoes DEF Rested
  <2>2. QED  BY <1>2, <2>1, WordsPopped DEF Contents
<1>7. CASE Timeout \/ Signal
  <2>1. /\ UNCHANGED <<core.conf, core.latch, core.thr, xadc.threshold, core.cfifo>>
        /\ core'.dfifo = core.dfifo \/ core'.dfifo = PopN(1)
    BY <1>1, <1>7, GivenUpDoes
  <2>2. UNCHANGED call.val
    BY <1>1, <1>7, GivenUpDoes DEF Rested
  <2>3. QED  BY <1>2, <2>1, <2>2, WordsPopped DEF Contents
<1>8. CASE WriteEventValue \/ WriteHysteresis
  <2>1. UNCHANGED <<core, call.val>>
    BY <1>1, <1>8, WriteValueDoes
  <2>2. xadc'.threshold = [o \in Offsets |-> xadc'.threshold[o]]
    <3> DEFINE thr == xadc.threshold
               new == xadc'.threshold
    <3>1. thr = [o \in Offsets |-> thr[o]]
      BY <1>2 DEF Contents
    <3>2. ASSUME NEW c \in Channels, NEW v \in Value, NEW f \in BOOLEAN, ValueSet(c, v, f)
          PROVE  new = [o \in Offsets |-> new[o]]
      <4> DEFINE a   == Offset(c, f)
                 b   == a + 4
                 low == Lower(v, xadc.hyst)
      <4>1. CASE c = Temp
        <5>1. new = [[thr EXCEPT ![a] = v] EXCEPT ![b] = low]
          BY <3>2, <4>1 DEF ValueSet
        <5> HIDE DEF thr, new, a, b, low
        <5>2. QED  BY <3>1, <5>1
      <4>2. CASE c # Temp
        <5>1. new = [thr EXCEPT ![a] = v]
          BY <3>2, <4>2 DEF ValueSet
        <5> HIDE DEF thr, new, a
        <5>2. QED  BY <3>1, <5>1
      <4>3. QED  BY <4>1, <4>2
    <3>3. ASSUME NEW v \in Value, HystSet(v)
          PROVE  new = [o \in Offsets |-> new[o]]
      <4> DEFINE b   == Offset(Temp, FALSE) + 4
                 low == Lower(xadc.threshold[Offset(Temp, FALSE)], v)
      <4>1. new = [thr EXCEPT ![b] = low]
        BY <3>3 DEF HystSet
      <4> HIDE DEF thr, new, b, low
      <4>2. QED  BY <3>1, <4>1
    <3>4. \/ \E c \in Channels, v \in Value, f \in BOOLEAN : ValueSet(c, v, f)
          \/ \E v \in Value : HystSet(v)
      BY <1>1, <1>8, WriteValueDoes
    <3> HIDE DEF new
    <3>5. QED  BY <3>2, <3>3, <3>4 DEF new
  <2>3. QED  BY <1>2, <2>1, <2>2 DEF Contents
<1>9. CASE Toggle
  BY <1>1, <1>3, <1>9, ToggleZDoes
<1>10. CASE ReadRaw \/ ReadValue
  BY <1>1, <1>3, <1>10, ReadsDo
<1>11. CASE WriteEventConfig
  BY <1>1, <1>3, <1>11, WriteEventConfigDoes
<1>12. CASE WriteConf
  BY <1>1, <1>3, <1>12, WriteConfDoes
<1>13. CASE Irq
  BY <1>1, <1>3, <1>13, IrqReadsDo, IrqLockedDoes DEF Irq
<1>14. CASE Work
  BY <1>1, <1>3, <1>14, WorkDoes, WorkLockedDoes DEF Work
<1>15. QED
  BY <1>4, <1>5, <1>6, <1>7, <1>8, <1>9, <1>10, <1>11, <1>12, <1>13, <1>14 DEF ZynqNext, Access, Calls

LEMMA WriteIs ==
  ASSUME NEW o \in Offsets, NEW v
  PROVE  /\ Write(o, v).op = "WRITE" /\ Write(o, v).reg = Threshold(o) /\ Write(o, v).data.val = v
         /\ Threshold(o) \in Registers /\ Threshold(o) # CONF1
  BY RegisterNumbers DEF Write, Cmd, Registers

(* A call that sets thresholds leaves writes of what it sets them to.      *)
LEMMA ValueWrites ==
  ASSUME Contents,
         \/ \E c \in Channels, v \in Value, falling \in BOOLEAN :
              (c = Temp => ~ falling) /\ ValueSet(c, v, falling)
         \/ \E v \in Value : HystSet(v)
  PROVE  /\ \A i \in DOMAIN call'.todo :
              \E o \in Offsets : call'.todo[i] = Write(o, xadc'.threshold[o])
         /\ \A o \in Offsets :
              \/ xadc'.threshold[o] = xadc.threshold[o]
              \/ \E i \in DOMAIN call'.todo : call'.todo[i].reg = Threshold(o)
<1> DEFINE thr  == xadc.threshold
           new  == xadc'.threshold
           todo == call'.todo
           Goal == /\ \A i \in DOMAIN todo : \E o \in Offsets : todo[i] = Write(o, new[o])
                   /\ \A o \in Offsets :
                        new[o] = thr[o] \/ \E i \in DOMAIN todo : todo[i].reg = Threshold(o)
<1>1. thr = [o \in Offsets |-> thr[o]]
  BY DEF Contents
<1>2. ASSUME NEW a \in Offsets, NEW v, todo = <<Write(a, v)>>, new = [thr EXCEPT ![a] = v]
      PROVE  Goal
  <2> DEFINE w == Write(a, v)
  <2>1. w.reg = Threshold(a) /\ w = Write(a, v)
    BY WriteIs
  <2> HIDE DEF thr, w
  <2>2. new[a] = v /\ \A o \in Offsets : o # a => new[o] = thr[o]
    BY <1>1, <1>2
  <2>3. DOMAIN todo = {1} /\ todo[1] = w
    BY <1>2 DEF w
  <2> HIDE DEF new, todo
  <2>4. \A i \in DOMAIN todo : todo[i] = Write(a, new[a])
    BY <2>1, <2>2, <2>3, Zenon
  <2>5. \A o \in Offsets : new[o] = thr[o] \/ \E i \in DOMAIN todo : todo[i].reg = Threshold(o)
    <3> SUFFICES ASSUME NEW o \in Offsets, new[o] # thr[o]
                 PROVE  \E i \in DOMAIN todo : todo[i].reg = Threshold(o)
      OBVIOUS
    <3>1. o = a
      BY <2>2
    <3>2. 1 \in DOMAIN todo /\ todo[1].reg = Threshold(o)
      BY <2>1, <2>3, <3>1
    <3>3. QED  BY <3>2
  <2>6. QED  BY <2>4, <2>5
<1>3. ASSUME NEW a \in Offsets, NEW b \in Offsets, a # b, NEW v, NEW u, todo = <<Write(b, u), Write(a, v)>>,
             new = [[thr EXCEPT ![a] = v] EXCEPT ![b] = u]
      PROVE  Goal
  <2> DEFINE w == Write(a, v)
             x == Write(b, u)
  <2>1. w.reg = Threshold(a) /\ w = Write(a, v) /\ x.reg = Threshold(b) /\ x = Write(b, u)
    BY WriteIs
  <2> HIDE DEF thr, w, x
  <2>2. new[a] = v /\ new[b] = u /\ \A o \in Offsets : o # a /\ o # b => new[o] = thr[o]
    BY <1>1, <1>3
  <2>3. DOMAIN todo = {1, 2} /\ todo[1] = x /\ todo[2] = w
    BY <1>3 DEF w, x
  <2> HIDE DEF new, todo
  <2>4. ASSUME NEW i \in DOMAIN todo PROVE \E o \in Offsets : todo[i] = Write(o, new[o])
    <3>1. CASE i = 1
      BY <2>1, <2>2, <2>3, <3>1, Zenon
    <3>2. CASE i = 2
      BY <2>1, <2>2, <2>3, <3>2, Zenon
    <3>3. QED  BY <2>3, <3>1, <3>2
  <2>5. \A o \in Offsets : new[o] = thr[o] \/ \E i \in DOMAIN todo : todo[i].reg = Threshold(o)
    <3> SUFFICES ASSUME NEW o \in Offsets, new[o] # thr[o]
                 PROVE  \E i \in DOMAIN todo : todo[i].reg = Threshold(o)
      OBVIOUS
    <3>1. o = a \/ o = b
      BY <2>2
    <3>2. 1 \in DOMAIN todo /\ todo[1].reg = Threshold(b) /\ 2 \in DOMAIN todo /\ todo[2].reg = Threshold(a)
      BY <2>1, <2>3
    <3>3. QED  BY <3>1, <3>2
  <2>6. QED  BY <2>4, <2>5
<1>4. ASSUME NEW c \in Channels, NEW v \in Value, NEW f \in BOOLEAN, c = Temp => ~ f, ValueSet(c, v, f)
      PROVE  Goal
  <2> DEFINE a   == Offset(c, f)
             b   == a + 4
             low == Lower(v, xadc.hyst)
  <2>1. a \in Offsets /\ a \in Nat
    BY OffsetsIn
  <2>2. CASE c = Temp
    <3>1. f = FALSE
      BY <1>4, <2>2
    <3>2. b \in Offsets /\ a # b
      <4>1. b \in Offsets
        BY <2>2, <3>1, OffsetsIn
      <4>2. \A n \in Nat : n # n + 4
        OBVIOUS
      <4>3. QED  BY <2>1, <4>1, <4>2, Zenon
    <3>3. todo = <<Write(b, low), Write(a, v)>> /\ new = [[thr EXCEPT ![a] = v] EXCEPT ![b] = low]
      BY <1>4, <2>2 DEF ValueSet
    <3> HIDE DEF a, b, low, thr, new, todo, Goal
    <3>4. QED  BY <1>3, <2>1, <3>2, <3>3
  <2>3. CASE c # Temp
    <3>1. todo = <<Write(a, v)>> /\ new = [thr EXCEPT ![a] = v]
      BY <1>4, <2>3 DEF ValueSet
    <3> HIDE DEF a, thr, new, todo, Goal
    <3>2. QED  BY <1>2, <2>1, <3>1
  <2>4. QED  BY <2>2, <2>3
<1>5. ASSUME NEW v \in Value, HystSet(v)
      PROVE  Goal
  <2> DEFINE b   == Offset(Temp, FALSE) + 4
             low == Lower(xadc.threshold[Offset(Temp, FALSE)], v)
  <2>1. b \in Offsets
    BY OffsetsIn
  <2>2. todo = <<Write(b, low)>> /\ new = [thr EXCEPT ![b] = low]
    BY <1>5 DEF HystSet
  <2> HIDE DEF b, low, thr, new, todo, Goal
  <2>3. QED  BY <1>2, <2>1, <2>2
<1> HIDE DEF Goal
<1>6. Goal
  BY <1>4, <1>5
<1>7. QED  BY <1>6 DEF Goal

(* The end of an access leaves what was pending.                           *)
LEMMA RestPending ==
  ASSUME Todo, call.pc = "wait", First.op = "WRITE", Rested
  PROVE  /\ Pending' = Pending
         /\ \A i \in DOMAIN call'.todo : \E j \in DOMAIN call.todo : call'.todo[i] = call.todo[j]
<1>1. call.todo # <<>> /\ Writes(call.todo)
  <2>1. ~ \E r \in {ADC, CONF1} : call.todo = <<Cmd("READ", r, None)>>
    BY DEF First, Cmd
  <2>2. QED  BY <2>1, Zenon DEF Todo
<1>2. PICK C : call.todo \in Seq(C)
  BY <1>1 DEF Writes
<1> DEFINE t == call.todo
           n == Len(t)
<1>3. Pending = {t[i].reg : i \in 2 .. n}
  BY DEF Pending
<1>4. call'.pc # "wait"
  BY DEF Rested
<1>5. Pending' = {call'.todo[i].reg : i \in DOMAIN call'.todo}
  BY <1>4 DEF Pending
<1>6. t \in Seq(C) /\ t # <<>> /\ n \in Nat /\ DOMAIN t = 1 .. n
  BY <1>1, <1>2
<1>7. CASE n = 1
  <2>1. call'.todo = <<>>
    BY <1>7 DEF Rested
  <2>2. DOMAIN call'.todo = {}
    BY <2>1
  <2>3. Pending' = {} /\ Pending = {}
    BY <1>3, <1>5, <1>7, <2>2
  <2>4. QED  BY <2>2, <2>3
<1>8. CASE n # 1
  <2> DEFINE u == call'.todo
  <2>1. u = Tail(t)
    BY <1>8 DEF Rested
  <2> HIDE DEF t, u
  <2>2. Len(u) = n - 1 /\ DOMAIN u = 1 .. n - 1 /\ \A i \in 1 .. n - 1 : u[i] = t[i + 1]
    BY <1>6, <2>1, HeadTailProperties
  <2>3. \A i \in 1 .. n - 1 : i + 1 \in 2 .. n /\ i + 1 \in 1 .. n
    BY <1>6
  <2>4. \A j \in 2 .. n : j - 1 \in 1 .. n - 1 /\ (j - 1) + 1 = j
    BY <1>6
  <2>5. {u[i].reg : i \in DOMAIN u} = {t[i].reg : i \in 2 .. n}
    <3>1. \A i \in DOMAIN u : \E j \in 2 .. n : u[i].reg = t[j].reg
      BY <2>2, <2>3
    <3>2. \A j \in 2 .. n : \E i \in DOMAIN u : t[j].reg = u[i].reg
      <4> SUFFICES ASSUME NEW j \in 2 .. n PROVE \E i \in DOMAIN u : t[j].reg = u[i].reg
        OBVIOUS
      <4>1. j - 1 \in DOMAIN u /\ u[j - 1] = t[j]
        BY <2>2, <2>4
      <4>2. QED  BY <4>1
    <3>3. QED  BY <3>1, <3>2
  <2>6. \A i \in DOMAIN u : \E j \in DOMAIN t : u[i] = t[j]
    BY <1>6, <2>2, <2>3
  <2>7. QED  BY <1>3, <1>5, <2>5, <2>6 DEF t, u
<1>9. QED  BY <1>7, <1>8

LEMMA ConfWritten ==
  ASSUME EventInv, AccessInv, ConfigInv, call.pc = "got", Head(call.todo).reg = CONF1
  PROVE  /\ OldConf \in Confs /\ NewConf \in Confs
         /\ NewConf.dis = Alarms \ xadc.alarm_mask /\ NewConf.mode = OldConf.mode
         /\ ~ hist.spoiled => OldConf = core.conf /\ core.cfifo = <<>>
<1>1. core.conf \in Confs /\ call.val \in Words
  BY DEF ConfigInv, Contents
<1>2. OldConf \in Confs
  <2>1. CASE call.val.reg = CONF1
    <3>1. call.val \in [reg : {CONF1}, conf : Confs]
      <4>1. call.val # None /\ call.val # [reg |-> ADC]
        BY <2>1, RegisterNumbers
      <4>2. QED  BY <1>1, <4>1 DEF Words
    <3>2. QED  BY <2>1, <3>1 DEF OldConf
  <2>2. CASE call.val.reg # CONF1
    BY <2>2 DEF OldConf, Confs
  <2>3. QED  BY <2>1, <2>2
<1> DEFINE old == OldConf
           dis == Alarms \ xadc.alarm_mask
<1>3. old \in [dis : SUBSET Alarms, mode : {"continuous", "junk"}] /\ dis \in SUBSET Alarms
  BY <1>2 DEF Confs
<1>4. NewConf = [old EXCEPT !.dis = dis]
  BY DEF NewConf
<1> HIDE DEF old, dis
<1>5. /\ NewConf \in [dis : SUBSET Alarms, mode : {"continuous", "junk"}]
      /\ NewConf.dis = dis /\ NewConf.mode = old.mode
  BY <1>3, <1>4
<1>6. ASSUME ~ hist.spoiled PROVE OldConf = core.conf /\ core.cfifo = <<>>
  <2>1. call.val = Fetched(CONF1) /\ core.cfifo = <<>>
    BY <1>6 DEF AccessInv, InStep, Quiet, First
  <2>2. call.val = [reg |-> CONF1, conf |-> core.conf]
    BY <2>1, RegisterNumbers DEF Fetched
  <2>3. QED  BY <2>1, <2>2 DEF OldConf
<1>7. QED  BY <1>2, <1>5, <1>6 DEF old, dis, Confs

(* ADC among the registers given up: the sequencer's mode may be lost.     *)
LEMMA LostStays ==
  ASSUME EventInv, AccessInv, ConfigInv, ZynqNext
  PROVE  /\ ADC \in hist.bad => ADC \in hist'.bad
         /\ \A c : Sound(c, hist.bad) => Sound(c, hist'.bad)
<1>1. ZShaped
  BY DEF EventInv
<1>2. ADC \in hist.bad => ADC \in hist'.bad
  <2>1. CASE ReadIssue \/ WriteIssue
    <3>1. CASE hist'.bad = hist.bad
      BY <3>1
    <3>2. CASE /\ Head(call.todo).op = "WRITE" /\ call.pc = "issue"
               /\ hist'.bad = hist.bad \ {Head(call.todo).reg}
      <4>1. ~ \E r \in {ADC, CONF1} : call.todo = <<Cmd("READ", r, None)>>
        BY <3>2 DEF Cmd
      <4>2. call.todo # <<>> /\ Writes(call.todo)
        BY <3>2, <4>1, Zenon DEF AccessInv, Todo
      <4>3. Head(call.todo).reg \in Registers
        BY <4>2, FirstWrites
      <4>4. QED  BY <3>2, <4>3, RegisterNumbers
    <3>3. QED  BY <1>1, <2>1, <3>1, <3>2, IssueDoes
  <2>2. CASE ReadDone \/ WriteDone
    BY <1>1, <2>2, DoneDoes
  <2>3. CASE Timeout \/ Signal
    BY <1>1, <2>3, GivenUpDoes
  <2>4. CASE ReadRaw \/ ReadValue
    BY <1>1, <2>4, ReadsDo
  <2>5. CASE WriteEventConfig
    BY <1>1, <2>5, WriteEventConfigDoes
  <2>6. CASE WriteConf
    BY <1>1, <2>6, WriteConfDoes, RegisterNumbers
  <2>7. CASE WriteEventValue \/ WriteHysteresis
    BY <1>1, <2>7, WriteValueDoes
  <2>8. CASE Execute
    BY <1>1, <2>8, ExecuteDoes
  <2>9. CASE Toggle
    BY <1>1, <2>9, ToggleZDoes
  <2>10. CASE Irq
    BY <1>1, <2>10, IrqReadsDo, IrqLockedDoes DEF Irq
  <2>11. CASE Work
    BY <1>1, <2>11, WorkDoes, WorkLockedDoes DEF Work
  <2>12. QED
    BY <2>1, <2>2, <2>3, <2>4, <2>5, <2>6, <2>7, <2>8, <2>9, <2>10, <2>11 DEF ZynqNext, Access, Calls
<1>3. QED  BY <1>2 DEF Sound

LEMMA CommandsKept ==
  ASSUME EventInv, AccessInv, ConfigInv, ZynqNext
  PROVE  Commands'
<1>1. ZShaped
  BY DEF EventInv
<1>2. /\ ADC \in hist.bad => ADC \in hist'.bad
      /\ \A c : Sound(c, hist.bad) => Sound(c, hist'.bad)
  BY LostStays
<1>3. Commands /\ Contents
  BY DEF ConfigInv
<1>4. PICK C : core.cfifo \in Seq(C)
  BY <1>3 DEF Contents
(* What leaves the commands as they are, ...                               *)
<1>5. ASSUME UNCHANGED <<core.conf, core.cfifo>>
      PROVE  /\ ADC \notin hist'.bad => core'.conf.mode = "continuous"
             /\ \A i \in DOMAIN core'.cfifo : Sound(core'.cfifo[i], hist'.bad)
  BY <1>2, <1>3, <1>5 DEF Commands
(* ... and what is left of the call's.                                     *)
<1>6. ASSUME UNCHANGED <<xadc.alarm_mask, xadc.threshold>>,
             \A i \in DOMAIN call'.todo : \E j \in DOMAIN call.todo : call'.todo[i] = call.todo[j]
      PROVE  \A i \in DOMAIN call'.todo : call'.todo[i].op = "WRITE" =>
               Sound(call'.todo[i], hist'.bad) /\ Good(call'.todo[i].reg, call'.todo[i].data, xadc')
  <2>1. \A r, d : Good(r, d, xadc) => Good(r, d, xadc')
    BY <1>6 DEF Good
  <2>2. QED  BY <1>2, <1>3, <1>6, <2>1 DEF Commands
<1>7. ASSUME UNCHANGED <<core.conf, core.cfifo, call.todo, xadc.alarm_mask, xadc.threshold>>
      PROVE  Commands'
  <2>1. \A i \in DOMAIN call'.todo : \E j \in DOMAIN call.todo : call'.todo[i] = call.todo[j]
    BY <1>7
  <2>2. QED  BY <1>5, <1>6, <1>7, <2>1 DEF Commands
<1>8. ASSUME NEW r, call'.todo = <<Cmd("READ", r, None)>>
      PROVE  \A i \in DOMAIN call'.todo : call'.todo[i].op # "WRITE"
  BY <1>8 DEF Cmd
<1>9. CASE Execute
  <2> DEFINE c == Head(core.cfifo)
  <2>1. UNCHANGED <<xadc, call, hist.bad>> /\ core.cfifo # <<>> /\ Executed(c)
    BY <1>1, <1>9, ExecuteDoes
  <2>2. /\ Sound(c, hist.bad) /\ \A i \in DOMAIN Tail(core.cfifo) : Sound(Tail(core.cfifo)[i], hist.bad)
    BY <1>3, <1>4, <2>1, TailWrites DEF Commands
  <2>3. \A i \in DOMAIN core'.cfifo : Sound(core'.cfifo[i], hist'.bad)
    BY <1>2, <2>1, <2>2 DEF Executed
  <2> HIDE DEF c
  <2>4. ADC \notin hist'.bad => core'.conf.mode = "continuous"
    BY <1>3, <2>1, <2>2 DEF Executed, Sound, Commands
  <2>5. \A i \in DOMAIN call'.todo : \E j \in DOMAIN call.todo : call'.todo[i] = call.todo[j]
    BY <2>1
  <2>6. QED  BY <1>6, <2>1, <2>3, <2>4, <2>5 DEF Commands
<1>10. CASE ReadIssue \/ WriteIssue
  <2> DEFINE c == Head(call.todo)
  <2>1. /\ UNCHANGED <<core.conf, call.todo, xadc.alarm_mask, xadc.threshold>> /\ call.pc = "issue"
        /\ \/ c.op = "READ" /\ core'.cfifo = core.cfifo \o <<c, Nop>>
           \/ c.op = "WRITE" /\ core'.cfifo = core.cfifo \o <<c>>
    BY <1>1, <1>10, IssueDoes
  <2>2. \A i \in DOMAIN call'.todo : \E j \in DOMAIN call.todo : call'.todo[i] = call.todo[j]
    BY <2>1
  <2>3. ADC \notin hist'.bad => core'.conf.mode = "continuous"
    BY <1>2, <1>3, <2>1 DEF Commands
  <2>4. Nop.op # "WRITE"
    BY DEF Nop, Cmd
  <2>5. c.op = "WRITE" => Sound(c, hist.bad)
    <3> SUFFICES ASSUME c.op = "WRITE" PROVE Sound(c, hist.bad)
      OBVIOUS
    <3>1. ~ \E r \in {ADC, CONF1} : call.todo = <<Cmd("READ", r, None)>>
      BY DEF Cmd
    <3>2. call.todo # <<>> /\ Writes(call.todo)
      BY <2>1, <3>1, Zenon DEF AccessInv, Todo
    <3>3. 1 \in DOMAIN call.todo /\ c = call.todo[1]
      BY <3>2, FirstWrites
    <3>4. QED  BY <1>3, <3>3 DEF Commands
  <2> HIDE DEF c
  <2>6. \A i \in DOMAIN core'.cfifo : Sound(core'.cfifo[i], hist.bad)
    <3>1. CASE c.op = "READ" /\ core'.cfifo = core.cfifo \o <<c, Nop>>
      <4>1. \A i \in DOMAIN core'.cfifo :
              \/ i \in DOMAIN core.cfifo /\ core'.cfifo[i] = core.cfifo[i]
              \/ core'.cfifo[i] \in {c, Nop}
        BY <1>4, <2>4, <3>1, ReadsJoined
      <4>2. Sound(c, hist.bad) /\ Sound(Nop, hist.bad)
        BY <2>4, <3>1 DEF Sound
      <4>3. QED  BY <1>3, <4>1, <4>2 DEF Commands
    <3>2. CASE c.op = "WRITE" /\ core'.cfifo = core.cfifo \o <<c>>
      <4>1. \A i \in DOMAIN core'.cfifo :
              (i \in DOMAIN core.cfifo /\ core'.cfifo[i] = core.cfifo[i]) \/ core'.cfifo[i] = c
        BY <1>4, <3>2, OneJoined
      <4>2. QED  BY <1>3, <2>5, <3>2, <4>1 DEF Commands
    <3>3. QED  BY <2>1, <3>1, <3>2
  <2>7. \A i \in DOMAIN core'.cfifo : Sound(core'.cfifo[i], hist'.bad)
    BY <1>2, <2>6
  <2>8. QED  BY <1>6, <2>1, <2>2, <2>3, <2>7 DEF Commands
<1>11. CASE ReadDone \/ WriteDone \/ Timeout \/ Signal
  <2>1. /\ UNCHANGED <<core.conf, core.cfifo, xadc.alarm_mask, xadc.threshold>> /\ call.pc = "wait"
        /\ \/ UNCHANGED call.todo
           \/ call'.todo = <<>>
           \/ First.op = "WRITE" /\ Rested
    BY <1>1, <1>11, DoneDoes, GivenUpDoes DEF First
  <2>2. \A i \in DOMAIN call'.todo : \E j \in DOMAIN call.todo : call'.todo[i] = call.todo[j]
    <3>1. CASE UNCHANGED call.todo
      BY <3>1
    <3>2. CASE call'.todo = <<>>
      BY <3>2
    <3>3. CASE First.op = "WRITE" /\ Rested
      BY <2>1, <3>3, RestPending DEF AccessInv
    <3>4. QED  BY <2>1, <3>1, <3>2, <3>3
  <2>3. QED  BY <1>5, <1>6, <2>1, <2>2 DEF Commands
<1>12. CASE ReadRaw \/ ReadValue
  <2>1. /\ UNCHANGED <<core, xadc>>
        /\ call'.todo = <<Cmd("READ", ADC, None)>> \/ call'.todo = <<>>
    BY <1>1, <1>12, ReadsDo
  <2>2. \A i \in DOMAIN call'.todo : call'.todo[i].op # "WRITE"
    BY <1>8, <2>1
  <2>3. QED  BY <1>5, <2>1, <2>2 DEF Commands
<1>13. CASE WriteEventConfig
  <2>1. UNCHANGED <<core.conf, core.cfifo>> /\ call'.todo = <<Cmd("READ", CONF1, None)>>
    BY <1>1, <1>13, WriteEventConfigDoes
  <2>2. \A i \in DOMAIN call'.todo : call'.todo[i].op # "WRITE"
    BY <1>8, <2>1
  <2>3. QED  BY <1>5, <2>1, <2>2 DEF Commands
<1>14. CASE WriteConf
  <2> DEFINE d == [reg |-> CONF1, conf |-> NewConf]
             c == Cmd("WRITE", CONF1, d)
  <2>1. /\ UNCHANGED <<core, xadc>> /\ call.pc = "got" /\ Head(call.todo).reg = CONF1
        /\ call'.todo = <<c>> \/ call'.todo = <<>>
        /\ hist.spoiled => ADC \in hist'.bad
    BY <1>1, <1>14, WriteConfDoes
  <2>2. /\ NewConf \in Confs /\ NewConf.dis = Alarms \ xadc.alarm_mask /\ NewConf.mode = OldConf.mode
        /\ ~ hist.spoiled => OldConf = core.conf
    BY <2>1, ConfWritten
  <2>3. c.reg = CONF1 /\ c.data.conf = NewConf
    BY DEF Cmd
  <2>4. CONF1 \in Registers
    BY DEF Registers
  <2> HIDE DEF c
  <2>5. ADC \notin hist'.bad => NewConf.mode = "continuous"
    BY <1>2, <1>3, <2>1, <2>2 DEF Commands
  <2>6. Sound(c, hist'.bad) /\ Good(c.reg, c.data, xadc')
    BY <2>1, <2>2, <2>3, <2>4, <2>5 DEF Sound, Good
  <2>7. \A i \in DOMAIN call'.todo : call'.todo[i] = c
    BY <2>1
  <2>8. QED  BY <1>5, <2>1, <2>6, <2>7 DEF Commands
<1>15. CASE WriteEventValue \/ WriteHysteresis
  <2>1. UNCHANGED core
    BY <1>1, <1>15, WriteValueDoes
  <2>2. \A i \in DOMAIN call'.todo : \E o \in Offsets : call'.todo[i] = Write(o, xadc'.threshold[o])
    BY <1>1, <1>3, <1>15, WriteValueDoes, ValueWrites
  <2>3. ASSUME NEW o \in Offsets, NEW c, c = Write(o, xadc'.threshold[o])
        PROVE  Sound(c, hist'.bad) /\ Good(c.reg, c.data, xadc')
    <3>1. /\ c.reg = Threshold(o) /\ c.data.val = xadc'.threshold[o]
          /\ Threshold(o) \in Registers /\ Threshold(o) # CONF1 /\ Threshold(o) - Threshold(0) = o
      BY <2>3, WriteIs, RegisterNumbers
    <3>2. QED  BY <3>1 DEF Sound, Good
  <2>4. QED  BY <1>5, <2>1, <2>2, <2>3 DEF Commands
<1>16. CASE Toggle
  BY <1>1, <1>7, <1>16, ToggleZDoes
<1>17. CASE Irq
  BY <1>1, <1>7, <1>17, IrqReadsDo, IrqLockedDoes DEF Irq
<1>18. CASE Work
  BY <1>1, <1>7, <1>18, WorkDoes, WorkLockedDoes DEF Work
<1>19. QED
  BY <1>9, <1>10, <1>11, <1>12, <1>13, <1>14, <1>15, <1>16, <1>17, <1>18 DEF ZynqNext, Access, Calls

LEMMA ReadAlone ==
  ASSUME NEW r, call.todo = <<Cmd("READ", r, None)>>
  PROVE  Pending = {r} /\ First.op = "READ" /\ First.reg = r
<1> DEFINE c == Cmd("READ", r, None)
<1>1. c.op = "READ" /\ c.reg = r
  BY DEF Cmd
<1>2. call.todo = <<c>>
  OBVIOUS
<1> HIDE DEF c
<1>3. First = c /\ DOMAIN call.todo = {1} /\ call.todo[1] = c
  BY <1>2 DEF First
<1>4. Pending = {call.todo[i].reg : i \in {1}}
  BY <1>1, <1>3 DEF Pending
<1>5. QED  BY <1>1, <1>3, <1>4

LEMMA NonePending ==
  ASSUME call.todo = <<>>, call.pc # "wait"
  PROVE  Pending = {}
<1>1. DOMAIN call.todo = {}
  OBVIOUS
<1>2. QED  BY <1>1 DEF Pending

(* The next write in the FIFO is the register's, or another's; if it was    *)
(* the register's last, it has the driver's value.                          *)
LEMMA ExecuteComes ==
  ASSUME EventInv, ConfigInv, Execute, NEW r \in Registers, Comes(r)
  PROVE  Comes(r)'
<1> DEFINE c  == Head(core.cfifo)
           cf == core.cfifo
           t  == Tail(core.cfifo)
<1>1. UNCHANGED <<xadc, call, hist.bad>> /\ cf # <<>> /\ Executed(c)
  BY ExecuteDoes DEF EventInv
<1>2. PICK C : cf \in Seq(C)
  BY DEF ConfigInv, Contents
<1>3. /\ 1 \in DOMAIN cf /\ c = cf[1]
      /\ WritesOf(t, r) = {} => WritesOf(cf, r) \subseteq {1}
      /\ \A i : Ends(t, i, r) => Ends(cf, i + 1, r) /\ t[i] = cf[i + 1]
  <2> HIDE DEF c, cf, t
  <2>1. PICK s : s = cf
    OBVIOUS
  <2>2. s \in Seq(C) /\ s # <<>> /\ c = Head(s) /\ t = Tail(s)
    BY <1>1, <1>2, <2>1 DEF c, cf, t
  <2>3. /\ 1 \in DOMAIN s /\ c = s[1]
        /\ WritesOf(t, r) = {} => WritesOf(s, r) \subseteq {1}
        /\ \A i : Ends(t, i, r) => Ends(s, i + 1, r) /\ t[i] = s[i + 1]
    BY ONLY <2>2, TailWrites
  <2>4. QED  BY ONLY <2>1, <2>3
<1>4. core'.cfifo = t /\ xadc' = xadc
  BY <1>1 DEF Executed
<1>5. ASSUME NEW i, Ends(t, i, r) PROVE Good(r, t[i].data, xadc)
  BY <1>3, <1>5 DEF Comes
<1>6. ASSUME WritesOf(t, r) = {} PROVE Good(r, Held(r)', xadc)
  <2>1. CASE 1 \in WritesOf(cf, r)
    <3>1. \A j \in WritesOf(cf, r) : j <= 1
      BY <1>3, <1>6
    <3>2. Ends(cf, 1, r)
      BY <2>1, <3>1 DEF Ends
    <3>3. Good(r, c.data, xadc) /\ c.op = "WRITE" /\ c.reg = r
      BY <1>3, <2>1, <3>2 DEF Comes, WritesOf
    <3>4. CASE r = CONF1
      <4>1. core'.conf = c.data.conf
        BY <1>1, <3>3, <3>4 DEF Executed
      <4>2. QED  BY <3>3, <3>4, <4>1 DEF Good, Held
    <3>5. CASE r # CONF1
      <4>1. PICK o \in Offsets : r = Threshold(o)
        BY <3>5 DEF Registers
      <4>2. r - Threshold(0) = o
        BY <4>1, RegisterNumbers
      <4>3. core'.thr = [core.thr EXCEPT ![o] = c.data.val]
        BY <1>1, <3>3, <3>5, <4>2 DEF Executed
      <4>4. core.thr = [i \in Offsets |-> core.thr[i]]
        BY DEF ConfigInv, Contents
      <4> DEFINE v == c.data.val
      <4> HIDE DEF v
      <4>5. core'.thr[o] = v
        BY <4>3, <4>4 DEF v
      <4>6. v = xadc.threshold[o]
        BY <3>3, <3>5, <4>2 DEF Good, v
      <4>7. Held(r)'.val = xadc.threshold[o]
        BY <4>2, <4>5, <4>6 DEF Held
      <4>8. QED  BY <3>5, <4>2, <4>7 DEF Good
    <3>6. QED  BY <3>4, <3>5
  <2>2. CASE 1 \notin WritesOf(cf, r)
    <3>1. Good(r, Held(r), xadc)
      BY <1>3, <1>6, <2>2 DEF Comes
    <3>2. ~ (c.op = "WRITE" /\ c.reg = r)
      BY <1>3, <2>2 DEF WritesOf
    <3>3. CASE r = CONF1
      <4>1. core'.conf = core.conf
        BY <1>1, <3>2, <3>3 DEF Executed
      <4>2. QED  BY <3>1, <3>3, <4>1 DEF Good, Held
    <3>4. CASE r # CONF1
      <4>1. PICK o \in Offsets : r = Threshold(o)
        BY <3>4 DEF Registers
      <4>2. r - Threshold(0) = o
        BY <4>1, RegisterNumbers
      <4>3. core'.thr[o] = core.thr[o]
        <5>1. core.thr = [i \in Offsets |-> core.thr[i]]
          BY DEF ConfigInv, Contents
        <5>2. CASE core'.thr = core.thr
          BY <5>2
        <5>3. CASE c.op = "WRITE" /\ c.reg # CONF1
          <6> DEFINE k == c.reg - Threshold(0)
                     v == c.data.val
          <6>1. Sound(c, hist.bad)
            BY <1>3 DEF ConfigInv, Commands
          <6>2. PICK p \in Offsets : c.reg = Threshold(p)
            BY <5>3, <6>1 DEF Sound, Registers
          <6>3. k = p /\ p # o
            BY <3>2, <4>1, <5>3, <6>2, RegisterNumbers
          <6>4. core'.thr = [core.thr EXCEPT ![k] = v]
            BY <1>1, <5>3 DEF Executed
          <6> HIDE DEF k, v
          <6>5. QED  BY <5>1, <6>3, <6>4
        <5>4. QED  BY <1>1, <5>2, <5>3 DEF Executed
      <4>4. QED  BY <3>1, <3>4, <4>2, <4>3 DEF Good, Held
    <3>5. QED  BY <3>3, <3>4
  <2>3. QED  BY <2>1, <2>2
<1> HIDE DEF t
<1>7. /\ WritesOf(core'.cfifo, r) = {} => Good(r, Held(r)', xadc')
      /\ \A i : Ends(core'.cfifo, i, r) => Good(r, core'.cfifo[i].data, xadc')
  BY <1>4, <1>5, <1>6
<1>8. QED  BY <1>7 DEF Comes

(* A write is the last one for its register, and pending no more.          *)
LEMMA IssueSettles ==
  ASSUME EventInv, AccessInv, ConfigInv, ReadIssue \/ WriteIssue
  PROVE  Settles'
<1> SUFFICES ASSUME NEW r \in Registers, r \notin hist'.bad, r \notin Pending' PROVE Comes(r)'
  BY DEF Settles
<1> DEFINE c  == Head(call.todo)
           cf == core.cfifo
           to == call.todo
<1>1. /\ UNCHANGED <<core.conf, core.thr, call.todo, xadc.alarm_mask, xadc.threshold>>
      /\ call.pc = "issue" /\ call'.pc = "wait"
      /\ \/ c.op = "READ" /\ core'.cfifo = cf \o <<c, Nop>> /\ hist'.bad = hist.bad
         \/ c.op = "WRITE" /\ core'.cfifo = cf \o <<c>> /\ hist'.bad = hist.bad \ {c.reg}
  BY IssueDoes DEF EventInv
<1>2. PICK C : cf \in Seq(C)
  BY DEF ConfigInv, Contents
<1>3. First' = c
  BY <1>1 DEF First
<1>4. Pending = {to[i].reg : i \in DOMAIN to}
  BY <1>1 DEF Pending
<1>5. \A d : Good(r, d, xadc') <=> Good(r, d, xadc)
  BY <1>1 DEF Good
<1>6. Held(r)' = Held(r)
  BY <1>1 DEF Held
<1>7. CASE c.op = "READ" /\ core'.cfifo = cf \o <<c, Nop>> /\ hist'.bad = hist.bad
  <2>1. Pending' = Pending
    BY <1>1, <1>3, <1>4, <1>7 DEF Pending
  <2>2. Comes(r)
    BY <1>7, <2>1 DEF ConfigInv, Settles
  <2> DEFINE b   == Nop
             new == core'.cfifo
  <2>3. b.op # "WRITE" /\ c.op # "WRITE"
    BY <1>7 DEF Nop, Cmd
  <2>8. new = cf \o <<c, b>>
    BY <1>7
  <2> HIDE DEF b, c, cf, new
  <2>4. Same(new, cf, r)
    BY <1>2, <2>3, <2>8, ReadsJoined
  <2>5. \A i : Ends(new, i, r) => Ends(cf, i, r) /\ new[i] = cf[i]
    BY <2>4 DEF Ends, Same
  <2>6. /\ WritesOf(new, r) = {} => Good(r, Held(r)', xadc')
        /\ \A i : Ends(new, i, r) => Good(r, new[i].data, xadc')
    BY <1>5, <1>6, <2>2, <2>4, <2>5 DEF Comes, Same, cf
  <2>7. QED  BY <2>6 DEF Comes, new
<1>8. CASE c.op = "WRITE" /\ core'.cfifo = cf \o <<c>> /\ hist'.bad = hist.bad \ {c.reg}
  <2>1. ~ \E q \in {ADC, CONF1} : to = <<Cmd("READ", q, None)>>
    BY <1>8 DEF Cmd
  <2>2. to # <<>> /\ Writes(to)
    BY <1>1, <2>1, Zenon DEF AccessInv, Todo
  <2>3. 1 \in DOMAIN to /\ c = to[1]
    BY <2>2, FirstWrites
  <2>4. Good(c.reg, c.data, xadc)
    BY <1>8, <2>3 DEF ConfigInv, Commands
  <2>5. r = c.reg \/ Comes(r)
    <3> SUFFICES ASSUME r # c.reg PROVE Comes(r)
      OBVIOUS
    <3>1. PICK D : to \in Seq(D)
      BY <2>2 DEF Writes
    <3>2. Pending' = {to[i].reg : i \in 2 .. Len(to)}
      BY <1>1, <1>3, <1>8 DEF Pending
    <3>3. \A i \in DOMAIN to : i = 1 \/ i \in 2 .. Len(to)
      BY <3>1
    <3>4. r \notin Pending
      BY <1>4, <2>3, <3>2, <3>3
    <3>5. QED  BY <1>8, <3>4 DEF ConfigInv, Settles
  <2> DEFINE new == core'.cfifo
  <2>10. new = cf \o <<c>> /\ c.op = "WRITE"
    BY <1>8
  <2> HIDE DEF c, cf, new
  <2>6. IF c.reg = r THEN Newest(new, r, c) ELSE Same(new, cf, r)
    BY <1>2, <2>10, WriteJoined
  <2>7. CASE c.reg = r
    <3>1. /\ WritesOf(new, r) = {} => Good(r, Held(r)', xadc')
          /\ \A i : Ends(new, i, r) => Good(r, new[i].data, xadc')
      BY <1>5, <2>4, <2>6, <2>7 DEF Newest
    <3>2. QED  BY <3>1 DEF Comes, new
  <2>8. CASE c.reg # r
    <3>1. \A i : Ends(new, i, r) => Ends(cf, i, r) /\ new[i] = cf[i]
      BY <2>6, <2>8 DEF Ends, Same
    <3>2. /\ WritesOf(new, r) = {} => Good(r, Held(r)', xadc')
          /\ \A i : Ends(new, i, r) => Good(r, new[i].data, xadc')
      BY <1>5, <1>6, <2>5, <2>6, <2>8, <3>1 DEF Comes, Same, cf
    <3>3. QED  BY <3>2 DEF Comes, new
  <2>9. QED  BY <2>7, <2>8
<1>9. QED  BY <1>1, <1>7, <1>8

LEMMA SettlesKept ==
  ASSUME EventInv, AccessInv, ConfigInv, ZynqNext
  PROVE  Settles'
<1>1. ZShaped /\ Settles /\ Todo
  BY DEF EventInv, ConfigInv, AccessInv
<1>2. ASSUME UNCHANGED <<core.conf, core.thr, core.cfifo>>, NEW r \in Registers,
             Comes(r), \A d : Good(r, d, xadc) => Good(r, d, xadc')
      PROVE  Comes(r)'
  <2>1. Held(r)' = Held(r)
    BY <1>2 DEF Held
  <2>2. /\ WritesOf(core'.cfifo, r) = {} => Good(r, Held(r)', xadc')
        /\ \A i : Ends(core'.cfifo, i, r) => Good(r, core'.cfifo[i].data, xadc')
    BY <1>2, <2>1 DEF Comes
  <2>3. QED  BY <2>2 DEF Comes
<1>3. ASSUME UNCHANGED <<core.conf, core.thr, core.cfifo, xadc.alarm_mask, xadc.threshold>>,
             \A r \in Registers : r \notin hist'.bad /\ r \notin Pending' => r \notin hist.bad /\ r \notin Pending
      PROVE  Settles'
  <2>1. \A r, d : Good(r, d, xadc) => Good(r, d, xadc')
    BY <1>3 DEF Good
  <2>2. QED  BY <1>1, <1>2, <1>3, <2>1 DEF Settles
<1>4. ASSUME UNCHANGED <<core.conf, core.thr, core.cfifo, call, hist.bad, xadc.alarm_mask, xadc.threshold>>
      PROVE  Settles'
  <2>1. Pending' = Pending
    BY <1>4 DEF Pending, First
  <2>2. QED  BY <1>3, <1>4, <2>1
<1>5. CASE Execute
  <2>1. UNCHANGED <<xadc, call, hist.bad>>
    BY <1>1, <1>5, ExecuteDoes
  <2>2. Pending' = Pending
    BY <2>1 DEF Pending, First
  <2>3. QED  BY <1>1, <1>5, <2>1, <2>2, ExecuteComes DEF Settles
<1>6. CASE ReadIssue \/ WriteIssue
  BY <1>6, IssueSettles
<1>7. CASE ReadDone \/ WriteDone
  <2>1. /\ UNCHANGED <<hist, core.conf, core.thr, core.cfifo, xadc.alarm_mask, xadc.threshold>>
        /\ call.pc = "wait"
        /\ \/ First.op = "READ" /\ UNCHANGED call.todo /\ call'.pc = "got"
           \/ First.op = "WRITE" /\ Rested
    BY <1>1, <1>7, DoneDoes DEF First
  <2>2. Pending' = Pending
    <3>1. CASE First.op = "READ" /\ UNCHANGED call.todo /\ call'.pc = "got"
      BY <3>1 DEF Pending
    <3>2. CASE First.op = "WRITE" /\ Rested
      BY <1>1, <2>1, <3>2, RestPending
    <3>3. QED  BY <2>1, <3>1, <3>2
  <2>3. QED  BY <1>3, <2>1, <2>2
<1>8. CASE Timeout \/ Signal
  <2>1. /\ UNCHANGED <<xadc, core.conf, core.thr, core.cfifo>> /\ call.pc = "wait"
        /\ \/ call'.pc = "idle" /\ call'.todo = <<>> /\ hist'.bad = hist.bad \cup Unwritten
           \/ First.op = "WRITE" /\ Rested /\ hist'.bad = hist.bad
    BY <1>1, <1>8, GivenUpDoes DEF First
  <2>2. CASE First.op = "WRITE" /\ Rested /\ hist'.bad = hist.bad
    BY <1>1, <1>3, <2>1, <2>2, RestPending
  <2>3. CASE call'.pc = "idle" /\ call'.todo = <<>> /\ hist'.bad = hist.bad \cup Unwritten
    <3>1. Pending \ {ADC} \subseteq Unwritten
      <4>1. CASE \E r \in {ADC, CONF1} : call.todo = <<Cmd("READ", r, None)>>
        BY <4>1, ReadAlone DEF Unwritten, First
      <4>2. CASE call.todo # <<>> /\ Writes(call.todo)
        BY <2>1, <4>2, FirstWrites DEF Unwritten, Pending, First
      <4>3. QED  BY <1>1, <2>1, <4>1, <4>2, Zenon DEF Todo
    <3>2. QED  BY <1>3, <2>1, <2>3, <3>1, RegisterNumbers
  <2>4. QED  BY <2>1, <2>2, <2>3
<1>9. CASE ReadRaw \/ ReadValue
  <2>1. UNCHANGED <<core, xadc, hist.bad>>
    BY <1>1, <1>9, ReadsDo
  <2>2. Pending \subseteq {ADC}
    <3>1. CASE ReadRaw
      <4>1. call.pc = "idle" /\ call.todo = <<>>
        BY <1>1, <3>1 DEF ReadRaw, Begin, Todo
      <4>2. QED  BY <4>1, NonePending
    <3>2. CASE ReadValue
      <4>1. call.pc = "got" /\ First.reg = ADC
        BY <3>2 DEF ReadValue, First
      <4>2. PICK r : call.todo = <<Cmd("READ", r, None)>>
        BY <1>1, <4>1 DEF Todo
      <4>3. QED  BY <4>1, <4>2, ReadAlone
    <3>3. QED  BY <1>9, <3>1, <3>2
  <2>3. QED  BY <1>3, <2>1, <2>2, RegisterNumbers
<1>10. CASE WriteEventConfig
  <2>1. /\ UNCHANGED <<hist.bad, core.conf, core.thr, core.cfifo, xadc.threshold>>
        /\ call.pc = "idle" /\ call'.todo = <<Cmd("READ", CONF1, None)>>
    BY <1>1, <1>10, WriteEventConfigDoes
  <2>2. call.todo = <<>>
    BY <1>1, <2>1 DEF Todo
  <2>3. Pending = {}
    BY <2>1, <2>2, NonePending
  <2>4. CONF1 \in Pending'
    <3> DEFINE c == Cmd("READ", CONF1, None)
    <3>1. c.op = "READ" /\ c.reg = CONF1 /\ call'.todo = <<c>>
      BY <2>1 DEF Cmd
    <3> HIDE DEF c
    <3>2. First' = c /\ 1 \in DOMAIN call'.todo /\ call'.todo[1] = c
      BY <3>1 DEF First
    <3>3. Pending' = {call'.todo[i].reg : i \in DOMAIN call'.todo}
      BY <3>1, <3>2 DEF Pending
    <3>4. QED  BY <3>1, <3>2, <3>3
  <2>5. \A r \in Registers : r # CONF1 => \A d : Good(r, d, xadc) => Good(r, d, xadc')
    BY <2>1 DEF Good
  <2>6. QED  BY <1>1, <1>2, <2>1, <2>3, <2>4, <2>5 DEF Settles
<1>11. CASE WriteConf
  <2> DEFINE d == [reg |-> CONF1, conf |-> NewConf]
             c == Cmd("WRITE", CONF1, d)
  <2>1. /\ UNCHANGED <<core, xadc>> /\ call.pc = "got" /\ Head(call.todo).reg = CONF1
        /\ \/ NewConf = OldConf
           \/ call'.pc = "issue" /\ call'.todo = <<c>>
        /\ hist'.bad = IF hist.spoiled THEN hist.bad \cup {CONF1, ADC} ELSE hist.bad \ {CONF1}
    BY <1>1, <1>11, WriteConfDoes
  <2>2. /\ NewConf.dis = Alarms \ xadc.alarm_mask
        /\ ~ hist.spoiled => OldConf = core.conf /\ core.cfifo = <<>>
    BY <2>1, ConfWritten
  <2>3. PICK q : call.todo = <<Cmd("READ", q, None)>>
    BY <1>1, <2>1 DEF Todo
  <2>4. Pending = {CONF1}
    BY <2>1, <2>3, ReadAlone DEF First
  <2>5. ASSUME CONF1 \notin hist'.bad, CONF1 \notin Pending'
        PROVE  Comes(CONF1)'
    <3>1. ~ hist.spoiled
      BY <2>1, <2>5
    <3>2. NewConf = OldConf
      <4> SUFFICES ASSUME call'.pc = "issue", call'.todo = <<c>> PROVE CONF1 \in Pending'
        BY <2>1, <2>5
      <4>1. c.reg = CONF1
        BY DEF Cmd
      <4> HIDE DEF c
      <4>2. 1 \in DOMAIN call'.todo /\ call'.todo[1] = c
        OBVIOUS
      <4>3. Pending' = {call'.todo[i].reg : i \in DOMAIN call'.todo}
        BY DEF Pending
      <4>4. QED  BY <4>1, <4>2, <4>3
    <3>3. core'.conf.dis = Alarms \ xadc'.alarm_mask /\ core'.cfifo = <<>>
      BY <2>1, <2>2, <3>1, <3>2
    <3>4. WritesOf(core'.cfifo, CONF1) = {}
      BY <3>3 DEF WritesOf
    <3>5. Good(CONF1, Held(CONF1)', xadc')
      BY <3>3 DEF Good, Held
    <3>6. QED  BY <3>4, <3>5 DEF Comes, Ends
  <2>6. \A r \in Registers : r # CONF1 /\ r \notin hist'.bad => r \notin hist.bad /\ r \notin Pending
    BY <2>1, <2>4
  <2>7. \A r, e : Good(r, e, xadc) => Good(r, e, xadc')
    BY <2>1
  <2>8. ASSUME NEW r \in Registers, r \notin hist'.bad, r \notin Pending', r # CONF1
        PROVE  Comes(r)'
    <3>1. Comes(r)
      BY <1>1, <2>6, <2>8 DEF Settles
    <3>2. QED  BY <1>2, <2>1, <2>7, <3>1
  <2> HIDE DEF c, d
  <2>9. QED  BY <2>5, <2>8 DEF Settles
<1>12. CASE WriteEventValue \/ WriteHysteresis
  <2>1. UNCHANGED <<core, hist.bad, xadc.alarm_mask>> /\ call.pc = "idle" /\ call'.pc = "issue"
    BY <1>1, <1>12, WriteValueDoes
  <2>2. call.todo = <<>>
    BY <1>1, <2>1 DEF Todo
  <2>3. Pending = {}
    BY <2>1, <2>2, NonePending
  <2>4. Pending' = {call'.todo[i].reg : i \in DOMAIN call'.todo}
    BY <2>1 DEF Pending
  <2>5. \A o \in Offsets : \/ xadc'.threshold[o] = xadc.threshold[o]
                          \/ \E i \in DOMAIN call'.todo : call'.todo[i].reg = Threshold(o)
    BY <1>1, <1>12, WriteValueDoes, ValueWrites DEF ConfigInv
  <2>6. ASSUME NEW r \in Registers, r \notin Pending' PROVE \A d : Good(r, d, xadc) => Good(r, d, xadc')
    <3>1. CASE r = CONF1
      BY <2>1, <3>1 DEF Good
    <3>2. CASE r # CONF1
      <4>1. PICK o \in Offsets : r = Threshold(o)
        BY <3>2 DEF Registers
      <4>2. r - Threshold(0) = o /\ xadc'.threshold[o] = xadc.threshold[o]
        BY <2>4, <2>5, <2>6, <4>1, RegisterNumbers
      <4>3. QED  BY <3>2, <4>2 DEF Good
    <3>3. QED  BY <3>1, <3>2
  <2>7. QED  BY <1>1, <1>2, <2>1, <2>3, <2>6 DEF Settles
<1>13. CASE Toggle
  BY <1>1, <1>4, <1>13, ToggleZDoes
<1>14. CASE Irq
  BY <1>1, <1>4, <1>14, IrqReadsDo, IrqLockedDoes DEF Irq
<1>15. CASE Work
  BY <1>1, <1>4, <1>15, WorkDoes, WorkLockedDoes DEF Work
<1>16. QED
  BY <1>5, <1>6, <1>7, <1>8, <1>9, <1>10, <1>11, <1>12, <1>13, <1>14, <1>15 DEF ZynqNext, Access, Calls

LEMMA OpensKept ==
  ASSUME EventInv, ConfigInv, ZynqNext
  PROVE  Opens'
<1>1. ZShaped /\ Opens
  BY DEF EventInv, ConfigInv
<1>2. ASSUME xadc'.intmask \cup {GTH} = xadc.intmask \cup {GTH}, UNCHANGED xadc.alarm_mask
      PROVE  Opens'
  BY <1>1, <1>2 DEF Opens, Opened
<1>3. CASE WriteEventConfig
  BY <1>1, <1>3, WriteEventConfigDoes DEF Opens
<1>4. CASE ReadIssue \/ WriteIssue
  BY <1>1, <1>2, <1>4, IssueDoes
<1>5. CASE ReadDone \/ WriteDone
  BY <1>1, <1>2, <1>5, DoneDoes
<1>6. CASE Execute
  BY <1>1, <1>2, <1>6, ExecuteDoes
<1>7. CASE Toggle
  BY <1>1, <1>2, <1>7, ToggleZDoes
<1>8. CASE Timeout \/ Signal
  BY <1>1, <1>2, <1>8, GivenUpDoes
<1>9. CASE ReadRaw \/ ReadValue
  BY <1>1, <1>2, <1>9, ReadsDo
<1>10. CASE WriteConf
  BY <1>1, <1>2, <1>10, WriteConfDoes
<1>11. CASE WriteEventValue \/ WriteHysteresis
  BY <1>1, <1>2, <1>11, WriteValueDoes
<1>12. CASE IrqStatus \/ IrqMasked
  BY <1>1, <1>2, <1>12, IrqReadsDo
<1>13. CASE IrqLocked
  BY <1>1, <1>2, <1>13, IrqLockedDoes
<1>14. CASE WorkStatus \/ WorkTest
  BY <1>1, <1>2, <1>14, WorkDoes
<1>15. CASE WorkLocked
  BY <1>1, <1>2, <1>15, WorkLockedDoes
<1>16. QED
  BY <1>3, <1>4, <1>5, <1>6, <1>7, <1>8, <1>9, <1>10, <1>11, <1>12, <1>13, <1>14, <1>15
  DEF ZynqNext, Access, Calls, Irq, Work

LEMMA ConfigStarts ==
  ASSUME ZynqInit
  PROVE  ConfigInv
<1> DEFINE thr == [o \in Offsets |-> ProbeThreshold(o)]
           no  == FALSE
<1>1. /\ core = [on |-> {}, conf |-> [dis |-> Alarms, mode |-> "continuous"], thr |-> thr,
                 cfifo |-> <<>>, dfifo |-> <<>>, latch |-> None, dfifoth |-> 0, sts |-> {}]
      /\ xadc = [intmask |-> Ints, masked |-> {}, alarm_mask |-> {}, threshold |-> thr,
                 hyst |-> 0, done |-> no]
      /\ call = [pc |-> "idle", todo |-> <<>>, val |-> None]
  BY Zenon DEF ZynqInit
<1>2. thr = [o \in Offsets |-> thr[o]]
  OBVIOUS
<1> HIDE DEF thr, no
<1>3. Contents
  <2>1. None \in Words /\ [dis |-> Alarms, mode |-> "continuous"] \in Confs
    BY DEF Words, Confs
  <2> DEFINE W == Words
  <2> HIDE DEF W
  <2>2. <<>> \in Seq(W)
    OBVIOUS
  <2>3. \E C : <<>> \in Seq(C)
    BY <2>2
  <2>4. QED  BY <1>1, <1>2, <2>1, <2>2, <2>3 DEF Contents, W
<1>4. Commands
  BY <1>1 DEF Commands
<1>5. Settles
  <2>1. \A r \in Registers : Good(r, Held(r), xadc)
    BY <1>1 DEF Good, Held
  <2>2. \A r \in Registers : WritesOf(core.cfifo, r) = {}
    BY <1>1 DEF WritesOf
  <2>3. QED  BY <2>1, <2>2 DEF Settles, Comes, Ends
<1>6. Opens
  BY <1>1 DEF Opens, Opened
<1>7. QED  BY <1>3, <1>4, <1>5, <1>6 DEF ConfigInv

LEMMA ConfigSteps ==
  ASSUME EventInv, AccessInv, ConfigInv, [Next]_vars
  PROVE  ConfigInv'
<1>1. CASE ZynqNext
  BY <1>1, ContentsKept, CommandsKept, SettlesKept, OpensKept DEF ConfigInv
<1>2. CASE UNCHANGED zynqVars
  <2>1. UNCHANGED <<core, xadc, call, hist>>
    BY <1>2 DEF zynqVars
  <2>2. Contents' /\ Opens'
    BY <2>1 DEF ConfigInv, Contents, Opens
  <2>3. Commands'
    BY <2>1 DEF ConfigInv, Commands
  <2>4. Settles'
    BY <2>1 DEF ConfigInv, Settles, Pending, First, Comes, Held
  <2>5. QED  BY <2>2, <2>3, <2>4 DEF ConfigInv
<1>3. QED  BY <1>1, <1>2 DEF Next, vars

(* Between calls nothing is on its way: what the copies promise is so.      *)
LEMMA ConfigInTouch ==
  ASSUME EventInv, AccessInv, ConfigInv
  PROVE  ConfigTaken
<1> SUFFICES ASSUME call.pc = "idle", ~ hist.spoiled
             PROVE  /\ xadc.intmask = Ints \ Opened(xadc.alarm_mask)
                    /\ CONF1 \notin hist.bad => core.conf.dis = Alarms \ xadc.alarm_mask
                    /\ ADC \notin hist.bad => core.conf.mode = "continuous"
                    /\ \A o \in Offsets : Threshold(o) \notin hist.bad => core.thr[o] = xadc.threshold[o]
  BY DEF ConfigTaken, Opened
<1>1. core.cfifo = <<>> /\ GTH \in xadc.intmask /\ call.todo = <<>>
  BY DEF AccessInv, InStep, Quiet, Todo
<1>2. ASSUME NEW r \in Registers, r \notin hist.bad PROVE Good(r, Held(r), xadc)
  <2>1. Pending = {}
    BY <1>1, NonePending
  <2>2. WritesOf(core.cfifo, r) = {}
    BY <1>1 DEF WritesOf
  <2>3. QED  BY <1>2, <2>1, <2>2 DEF ConfigInv, Settles, Comes
<1>3. xadc.intmask = Ints \ Opened(xadc.alarm_mask)
  <2>1. GTH \notin Opened(xadc.alarm_mask)
    BY ZNumbers DEF EventInv, ZSets, Opened
  <2>2. QED  BY <1>1, <2>1 DEF ConfigInv, Opens, Ints
<1>4. CONF1 \notin hist.bad => core.conf.dis = Alarms \ xadc.alarm_mask
  BY <1>2 DEF Registers, Good, Held
<1>5. ADC \notin hist.bad => core.conf.mode = "continuous"
  BY DEF ConfigInv, Commands
<1>6. \A o \in Offsets : Threshold(o) \notin hist.bad => core.thr[o] = xadc.threshold[o]
  BY <1>2, RegisterNumbers DEF Registers, Good, Held
<1>7. QED  BY <1>3, <1>4, <1>5, <1>6

(* Between calls the hardware's masks, disabled alarms, thresholds and     *)
(* sequencer mode are what the driver has written down.                    *)
THEOREM ConfigIsTaken == Spec => []ConfigTaken
<1> DEFINE Inv == EventInv /\ AccessInv /\ ConfigInv
<1>1. Init => Inv
  BY EventStarts, AccessStarts, ConfigStarts DEF Init
<1>2. Inv /\ [Next]_vars => Inv'
  BY EventSteps, AccessSteps, ConfigSteps
<1>3. Inv => ConfigTaken
  BY ConfigInTouch
<1> HIDE DEF Inv
<1>4. QED  BY <1>1, <1>2, <1>3, PTL DEF Spec
=============================================================================
