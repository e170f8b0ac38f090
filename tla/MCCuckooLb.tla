----------------------------- MODULE MCCuckooLb -----------------------------
(***************************************************************************)
(* Two load balancers over three partitions: process 0 owns tables 0 and *)
(* 2, process 1 owns table 1.  lut_lb has three slots, so flows 1, 2 and *)
(* 3 fall in slots 1, 2 and 0 (4 in 1), and generate_lut decides their  *)
(* tables.                                                               *)
(* After the first second flows 1, 2 and 3 are replaced by 4.  With     *)
(* Batch = 2 the removal loop's rem % BATCH_SIZE service falls after the *)
(* second removal, before the third.                                     *)
(***************************************************************************)
EXTENDS CuckooLb

\* The flows of seconds 1 and 2.
MCGens == <<{1, 2, 3}, {4}>>

=============================================================================
