---------------------------- MODULE MCCuckooReplica ---------------------------
(***************************************************************************)
(* Model-checking instance of CuckooReplica: four buckets of one slot.    *)
(* All keys share one tag; k1..k4 have the bucket pairs 0/1, 0/2, 1/2 and *)
(* 2/3, so an Insert into a full pair relocates along a chain of two    *)
(* moves.                                                                 *)
(* k5 (3/2) is not a flow of the run.                                     *)
(***************************************************************************)
EXTENDS CuckooReplica

CONSTANTS k1, k2, k3, k4, k5

\* Four buckets of one slot: primary/secondary 0/1, 0/2, 1/2, 2/3, 3/2.
HasherReplicaFour == [k \in KeySpace |->
                       CASE k = k1 -> <<0, 0>>
                         [] k = k2 -> <<0, 4096>>
                         [] k = k3 -> <<0, 8193>>
                         [] k = k4 -> <<0, 2>>
                         [] k = k5 -> <<0, 3>>
                         [] OTHER  -> <<0, 0>>]

=============================================================================
