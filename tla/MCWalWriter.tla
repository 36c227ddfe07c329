---------------------------- MODULE MCWalWriter ----------------------------
(* Instances of WalWriter for TLC.                                         *)
EXTENDS WalWriter, TLC

CONSTANTS u1, u2, u3, r1, f1

\* One request of three units: u1 has two batches, u2 one, and the records
\* of u3 are all filtered out.
MCUnitRequest == (u1 :> r1) @@ (u2 :> r1) @@ (u3 :> r1)
MCNumBatches == (u1 :> 2) @@ (u2 :> 1) @@ (u3 :> 0)

\* Two units, the second without a request (submit_id = 0).
MCUnitRequest2 == (u1 :> r1) @@ (u2 :> NoRequest)
MCNumBatches2 == (u1 :> 2) @@ (u2 :> 1)
=============================================================================
