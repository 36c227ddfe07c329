-------------------------- MODULE MCStreamProcessor --------------------------
(* Instances of StreamProcessor for TLC.                                   *)
EXTENDS StreamProcessor

CONSTANTS c1, c2

\* The id of the second segment sorts before that of the first.
SwappedKeys == [s \in Segments |-> IF s < 3 THEN 3 - s ELSE s]

\* Every restart may change the configuration, also back to an earlier one.
FreeChange == [c \in Configs |-> Configs]
=============================================================================
