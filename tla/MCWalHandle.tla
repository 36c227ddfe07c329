----------------------------- MODULE MCWalHandle -----------------------------
(* Instances of WalHandle for TLC.                                         *)
EXTENDS WalHandle, TLC

CONSTANTS a, b, c

\* a has two parts, b one, c nothing but discarded records.
MCNumParts == (a :> 2) @@ (b :> 1) @@ (c :> 0)

\* Two objects, the first of two parts.
MCNumParts2 == (a :> 2) @@ (b :> 1)
=============================================================================
