---------------------------- MODULE MCRpadcShared ----------------------------
(* Two threads share the descriptor, and the program resizes the ring       *)
(* between acquisitions. The threads are interchangeable.                   *)
EXTENDS RpadcSession, TLC
ReaderSymmetry == Permutations(Readers)
=============================================================================
