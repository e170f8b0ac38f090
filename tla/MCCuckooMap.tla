----------------------------- MODULE MCCuckooMap -----------------------------
(***************************************************************************)
(* Model-checking instances of CuckooMap.  The hasher values are chosen   *)
(* from the exact 32-bit Hash/HashSecondary so that the cases the table   *)
(* must handle occur with few keys:                                       *)
(*   <<0, 0>>     primary bucket 0, secondary 1 (of 2 or 4 buckets);      *)
(*   <<0, 1>>     primary 1, secondary 0;                                 *)
(*   <<0, 4096>>  primary 0, secondary 0 of 2 buckets (both the same),    *)
(*                secondary 2 of 4 buckets;                               *)
(*   <<0, 2>>     primary 2, secondary 3 (4 buckets);                     *)
(*   <<0, 3>>     primary 3, secondary 2 (4 buckets);                     *)
(*   <<0, 8193>>  primary 1, secondary 2 (4 buckets).                     *)
(* Two keys with the same hasher value share a tag, so FindSlot's key    *)
(* comparison is exercised.                                               *)
(***************************************************************************)
EXTENDS CuckooMap

CONSTANTS k1, k2, k3, k4, k5

\* Two buckets: k1 and k4 collide on the same tag, k3 has both choices in
\* bucket 0.
HasherTwo == [k \in KeySpace |->
               CASE k = k1 -> <<0, 0>>
                 [] k = k2 -> <<0, 1>>
                 [] k = k3 -> <<0, 4096>>
                 [] k = k4 -> <<0, 0>>
                 [] OTHER  -> <<0, 0>>]

\* Four buckets, one slot each: the cuckoo-path configuration.
HasherFour == [k \in KeySpace |->
                CASE k = k1 -> <<0, 0>>
                  [] k = k2 -> <<0, 4096>>
                  [] k = k3 -> <<0, 8193>>
                  [] k = k4 -> <<0, 2>>
                  [] k = k5 -> <<0, 3>>
                  [] OTHER  -> <<0, 0>>]

\* No action reads marked, and only Live reads ret, so states that differ
\* in them alone have the same futures; the properties read ret only in
\* the new state of a step.
MCView == <<buckets, entries, head, stck, numEntries, Live>>

=============================================================================
