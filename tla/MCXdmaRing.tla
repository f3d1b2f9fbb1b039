----------------------------- MODULE MCXdmaRing -----------------------------
EXTENDS XdmaExamples
MCSize == [tx |-> 3, rx |-> 5]
=============================================================================
