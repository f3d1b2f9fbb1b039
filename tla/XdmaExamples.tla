----------------------------- MODULE XdmaExamples -----------------------------
(* The examples of projects/rfx_dmatests that move data. One of them is     *)
(* loaded at a time: the rings of example 6 (XdmaRing) or the single        *)
(* transfers of examples 1 and 3 (DmaTransfer).                             *)
EXTENDS XdmaRing, DmaTransfer

VARIABLE loaded
exampleVars == <<loaded, vars, dmaVars>>

ExamplesInit == loaded \in {"ring", "transfer"} /\ Init /\ DmaInit

ExamplesNext ==
  /\ UNCHANGED loaded
  /\ \/ loaded = "ring" /\ Next /\ UNCHANGED dmaVars
     \/ loaded = "transfer" /\ DmaNext /\ UNCHANGED vars

(* Only the ring's properties need fairness.                               *)
ExamplesSpec ==
  /\ ExamplesInit /\ [][ExamplesNext]_exampleVars
  /\ loaded = "ring" => Fairness
=============================================================================
