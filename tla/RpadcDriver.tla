------------------------------ MODULE RpadcDriver ------------------------------
(* The ADC driver as a whole. Its two halves share no state: the sample     *)
(* path (RpadcFifo), and configuration and trigger times (RpadcControl). A  *)
(* behaviour follows one of them, the other half stays as probe left it.    *)
EXTENDS RpadcFifo, RpadcControl

VARIABLE half
driverVars == <<half, vars, controlVars>>

DriverInit == half \in {"samples", "control"} /\ Init /\ ControlInit

DriverNext ==
  /\ UNCHANGED half
  /\ \/ half = "samples" /\ Next /\ UNCHANGED controlVars
     \/ half = "control" /\ ControlNext /\ UNCHANGED vars

DriverSpec == DriverInit /\ [][DriverNext]_driverVars
=============================================================================
