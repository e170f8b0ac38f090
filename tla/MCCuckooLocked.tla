---------------------------- MODULE MCCuckooLocked ----------------------------
(***************************************************************************)
(* Model-checking instances of CuckooLocked: two 2-slot buckets, keys      *)
(* whose bucket pairs are 0-1 (k1), 1-0 (k2) and 0-0 (k3).                 *)
(***************************************************************************)
EXTENDS CuckooLocked

CONSTANTS k1, k2, k3

HasherLocked == [k \in KeySpace |->
                  CASE k = k1 -> <<0, 0>>
                    [] k = k2 -> <<0, 1>>
                    [] k = k3 -> <<0, 4096>>
                    [] OTHER  -> <<0, 0>>]

=============================================================================
