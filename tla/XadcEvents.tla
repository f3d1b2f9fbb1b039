------------------------------ MODULE XadcEvents ------------------------------
(***************************************************************************)
(* The alarms of the XADC driver, which go by four numberings: the driver's *)
(* (alarm_mask, events), the bits of the Zynq status registers, the bits of *)
(* the AXI status registers, and the disable bits in CONF1; and the         *)
(* channels they belong to (xilinx-xadc-events.c).                          *)
(***************************************************************************)
EXTENDS Naturals

(* Driver order: 0 temp, 1 vccint, 2 vccaux, 3 over-temperature, 4 vccbram, *)
(* 5 vccpint, 6 vccpaux, 7 vccoddr.                                         *)
Bit == 0 .. 7

(* xadc_zynq_update_alarm moves OT to bit 7 ...                            *)
ToZynq(a) == CASE a = 3 -> 7 [] a \in 4 .. 7 -> a - 1 [] OTHER -> a

(* Mutant of FromZynq: the bits beyond OT are not moved.                    *)
FromZynqFlat(b) == IF b = 7 THEN 3 ELSE b

(* ... and xadc_zynq_transform_alarm moves it back.                        *)
FromZynq(b) == CASE b = 7 -> 3 [] b \in 3 .. 6 -> b + 1 [] OTHER -> b

(* The AXI status bits: in xadc_axi_update_alarm ...                       *)
ToAxi(a) == CASE a = 3 -> 0 [] a \in 4 .. 7 -> a + 6 [] OTHER -> a + 1

(* ... and in xadc_axi_interrupt_handler.                                  *)
FromAxi(b) == CASE b = 0 -> 3 [] b \in 10 .. 13 -> b - 6 [] OTHER -> b - 1

(* The bit of CONF1 that disables an alarm.                                *)
Disable(a) == CASE a = 3 -> 0 [] a \in 4 .. 7 -> a + 4 [] OTHER -> a + 1

-----------------------------------------------------------------------------
(* Channels: a voltage by its number, or the temperature. Event 0 is not   *)
(* handled.                                                                *)
Temp    == 6
Channel == 0 .. 5 \cup {Temp}

EventChannel(e) ==
  CASE e = 3 -> Temp [] e \in {1, 2} -> e - 1 [] OTHER -> e - 2

Pushed(events) == {EventChannel(e) : e \in events \ {0}}

(* xadc_get_alarm_mask.                                                    *)
AlarmOf(c) == CASE c = Temp -> 3 [] c \in {0, 1} -> c + 1 [] OTHER -> c + 2

(* xadc_get_threshold_offset: the threshold registers of a channel.        *)
Offset(c, falling) ==
  (CASE c = Temp -> 3 [] c \in {0, 1} -> c + 1 [] OTHER -> c + 6)
    + (IF falling THEN 4 ELSE 0)
=============================================================================
