---------------------------------- MODULE Xadc ----------------------------------
(* The XADC driver on either kind of core: a device has the operations of   *)
(* one (xadc->ops), chosen by its device tree entry. What the driver        *)
(* promises on both, and on the AXI cores; Zynq's: XadcZynqPromises.        *)
EXTENDS XadcZynqPromises, XadcAxi

VARIABLE ops

vars == <<ops, zynqVars, axiVars>>

Init == ops \in {"zynq", "axi"} /\ ZynqInit /\ AxiInit

Next ==
  /\ UNCHANGED ops
  /\ \/ ops = "zynq" /\ ZynqNext /\ UNCHANGED axiVars
     \/ ops = "axi" /\ AxiNext /\ UNCHANGED zynqVars

Spec == Init /\ [][Next]_vars /\ (ops = "zynq" => ZynqFair)

(* The trigger handler stays in the memory update_scan_mode has allocated  *)
(* and puts each channel of the scan in its place, whatever an ioctl or a   *)
(* change of the scan does meanwhile.                                       *)
ScanPushed ==
  /\ Len(thread.data) <= axi.data
  /\ thread.pc = "run" =>
       \A i \in DOMAIN thread.data :
         \E s \in buf.scan : thread.data[i] = Address(s) /\ Cardinality({t \in buf.scan : t < s}) = i - 1

(* An event is reported on a channel whose alarm has occurred; on a Zynq    *)
(* only once, and since the alarm was enabled.                              *)
EventTruth ==
  [][/\ ZynqEventTrue
     /\ airq.pc = "serve" /\ airq'.pc = "ack"
          => AxiReported \subseteq {c \in EventChannels : AlarmOf(c) \in ahist.seen}]_vars

(* The fields that several callers keep in the same registers agree with    *)
(* what each of them has set: alarm bits with the enabled events (except    *)
(* vccpint's in CONF1, which the triggers overwrite), EOS with the trigger, *)
(* sequencer and power-down with the buffer, and the rate is at most 150    *)
(* kSPS.                                                                    *)
AxiConfig ==
  ops = "axi" =>
    /\ sysmon.ier = {ToAxi(a) : a \in axi.alarm_mask}
                      \cup (IF axi.trigger = "none" THEN {} ELSE {EOS})
    /\ \A a \in Bit : \/ ahist.ec /\ Disable(a) = EC
                     \/ (Disable(a) \in sysmon.dis <=> a \notin axi.alarm_mask)
    /\ buf.pc = "on" => /\ sysmon.seq0 \cup sysmon.seq1 = buf.scan
                        /\ sysmon.mode = SeqMode(buf.scan)
                        /\ sysmon.pd = PowerDown(sysmon.mode)
    /\ buf.pc = "off" => /\ sysmon.seq0 \cup sysmon.seq1 = axi.scans \cup {0}
                         /\ sysmon.mode = "continuous" /\ ~sysmon.pd
    /\ SampleRate <= 150000
=============================================================================
