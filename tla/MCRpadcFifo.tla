----------------------------- MODULE MCRpadcFifo -----------------------------
(* Instance of RpadcDriver for TLC. A byte has 8 values and a short 64, so  *)
(* that registers stay within TLC's integers; every field is asked for at   *)
(* both its limits.                                                         *)
EXTENDS RpadcDriver

Asked(mode, chan, above, n, threshold, pre, post, dec) ==
  [mode |-> mode, trig_from_chana |-> chan, trig_above_threshold |-> above,
   trig_samples |-> n, trig_threshold |-> threshold,
   pre_samples |-> pre, post_samples |-> post, decimation |-> dec]
MCRequests ==
  {Asked("STREAMING", 0, 0, 0, 63, 0, 63, 0),
   Asked("STREAMING", 0, 2, 7, 0, 63, 0, 4095),
   Asked("EVENT_STREAMING", 4, 0, 7, 63, 63, 63, 1),
   Asked("EVENT_STREAMING", 1, 1, 0, 0, 0, 0, 64)}
=============================================================================
