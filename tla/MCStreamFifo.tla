----------------------------- MODULE MCStreamFifo -----------------------------
(* Instance of StreamFifo for TLC.                                         *)
EXTENDS StreamPromises
=============================================================================
