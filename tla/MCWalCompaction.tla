--------------------------- MODULE MCWalCompaction ---------------------------
(* Instances of WalCompaction for TLC.                                      *)
EXTENDS WalCompaction, TLC

CONSTANTS a, b, c, g1, g2, k1, w1, w2

\* g1 has two slices, g2 one; all are in one group.
MCSegmentOf == (a :> g1) @@ (b :> g1) @@ (c :> g2)
MCGroupOf == (a :> k1) @@ (b :> k1) @@ (c :> k1)

MCSymmetry == Permutations({w1, w2}) \cup Permutations({a, b})
=============================================================================
