-------------------------------- MODULE MCXadc --------------------------------
(* Instance of Xadc for TLC: on a Zynq the temperature and vccpint have     *)
(* events, on AXI vccpint; two channels come from the device tree.          *)
EXTENDS Xadc
MCChannels  == {Temp, 3}
MCKids      == <<9, 3>>
MCScanMasks == {{8, 5}, {16, 24}}
=============================================================================
