----------------------------- MODULE SampleStream -----------------------------
(***************************************************************************)
(* What an acquisition promises a program that reads /dev/rpadc_fifo: the  *)
(* samples the recorder emits from the arming on, numbered as they leave   *)
(* the recorder, come out of read() in that order, none of them twice, and *)
(* none from before the arming. Samples may be lost, never replaced.       *)
(***************************************************************************)
EXTENDS Naturals, Sequences, SequencesExt

VARIABLES
  on,        \* an acquisition is running
  sent,      \* samples the recorder has emitted since it was powered on
  transit,   \* samples of this acquisition on their way to the program
  out        \* samples of this acquisition the program has read

vars == <<on, sent, transit, out>>

Init == on = FALSE /\ sent = 0 /\ transit = <<>> /\ out = <<>>

Start == ~on /\ on' = TRUE /\ transit' = <<>> /\ out' = <<>> /\ UNCHANGED sent

Stop == on /\ on' = FALSE /\ transit' = <<>> /\ UNCHANGED <<sent, out>>

Send ==
  /\ on
  /\ sent' = sent + 1 /\ transit' = Append(transit, sent + 1)
  /\ UNCHANGED <<on, out>>

(* A sample that does not enter the stream, or is not meant for it.        *)
SendLost == sent' = sent + 1 /\ UNCHANGED <<on, transit, out>>

Drop ==
  /\ on
  /\ \E i \in 1 .. Len(transit) : transit' = RemoveAt(transit, i)
  /\ UNCHANGED <<on, sent, out>>

Deliver ==
  /\ on /\ transit # <<>>
  /\ out' = Append(out, Head(transit)) /\ transit' = Tail(transit)
  /\ UNCHANGED <<on, sent>>

Next == Start \/ Stop \/ Send \/ SendLost \/ Drop \/ Deliver

Spec == Init /\ [][Next]_vars
=============================================================================
