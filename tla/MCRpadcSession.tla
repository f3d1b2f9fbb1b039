---------------------------- MODULE MCRpadcSession ----------------------------
EXTENDS RpadcSession
=============================================================================
