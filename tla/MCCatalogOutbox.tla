--------------------------- MODULE MCCatalogOutbox ---------------------------
(* An instance of CatalogOutbox for TLC.                                   *)
EXTENDS CatalogOutbox, TLC

CONSTANTS k1, k2, l1, l2, bad, c1, c2

\* Partition k1 moves; the second call also brings an intent of k2 that is
\* not admissible.
MCIntentsOf == (c1 :> (k1 :> l1)) @@ (c2 :> (k1 :> l2 @@ k2 :> bad))
=============================================================================
