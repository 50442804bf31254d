------------------------- MODULE MCStoreTransaction -------------------------
(* TLC instance of DatabaseStartup over StoreTransaction: three calls, two of *)
(* them on the same connection.                                               *)
EXTENDS DatabaseStartup, TLC

CONSTANTS k1, k2, k3, c1, c2

HomeValue == k1 :> c1 @@ k2 :> c1 @@ k3 :> c2

=============================================================================
