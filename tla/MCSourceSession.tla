--------------------------- MODULE MCSourceSession ---------------------------
(* An instance of SourceSession for TLC: the batches, the windows and the  *)
(* bounds are plain numbers, given in the configuration.                   *)
EXTENDS SourceSession
=============================================================================
