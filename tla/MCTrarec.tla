------------------------------- MODULE MCTrarec -------------------------------
EXTENDS TrarecFrames
Config(pre, post, trig, dec) ==
  [continuous |-> FALSE, pre |-> pre, post |-> post, trig |-> trig, dec |-> dec]
MCConfigs ==
  {Config(1, 3, 1, 1), Config(2, 2, 0, 1), Config(5, 1, 0, 2), Config(3, 2, 0, 1),
   [Config(1, 2, 0, 1) EXCEPT !.continuous = TRUE]}
=============================================================================
