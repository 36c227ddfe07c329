---------------------------- MODULE MCIcebergSink ----------------------------
(* An instance of IcebergSink for TLC.                                     *)
EXTENDS IcebergSink

CONSTANTS w1, w2, c1, c2
=============================================================================
