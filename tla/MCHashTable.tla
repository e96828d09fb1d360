---------------------------- MODULE MCHashTable -----------------------------
(* Four contents in a table of three buckets: k1 and k2 are two copies of  *)
(* the same characters, k3 collides with them; k4 and k5 share the last    *)
(* bucket.  The bucket in the middle stays empty, as do the others when    *)
(* their pairs leave.                                                      *)
EXTENDS HashTable

CONSTANTS k1, k2, k3, k4, k5

MCName ==
  (k1 :> "a") @@ (k2 :> "a") @@ (k3 :> "b") @@ (k4 :> "c") @@ (k5 :> "d")
MCHash == (k1 :> 3) @@ (k2 :> 3) @@ (k3 :> 6) @@ (k4 :> 5) @@ (k5 :> 2)
=============================================================================
