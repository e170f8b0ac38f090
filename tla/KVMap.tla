-------------------------------- MODULE KVMap --------------------------------
(***************************************************************************)
(* What CuckooMap promises its callers (cuckoo_map_lock.h, the comments   *)
(* on Insert/Find/Remove/Clear): a finite map from keys to values.        *)
(*   Insert(k, v) updates k in place if present; otherwise it either adds *)
(*                k or, when the table has no room, returns nullptr and    *)
(*                leaves the map unchanged;                               *)
(*   Find(k)      returns the value last stored for k, or nullptr;        *)
(*   Remove(k)    returns whether k was present, and removes it;          *)
(*   Clear()      empties the map.                                        *)
(* ret records the operation, its key and what it returned ("entry" for a *)
(* non-null Insert result, "null" for nullptr, the value for a Find).     *)
(***************************************************************************)
CONSTANTS Keys, Vals, ZeroKey

VARIABLES map, ret

Absent == "null"

Result(op, k, out) == [op |-> op, key |-> k, out |-> out]

Init ==
  /\ map = [k \in Keys |-> Absent]
  /\ ret = Result("create", ZeroKey, "ok")

Insert(k, v) ==
  \/ /\ ret' = Result("insert", k, "entry")
     /\ map' = [map EXCEPT ![k] = v]
  \/ /\ ret' = Result("insert", k, "null")
     /\ map[k] = Absent
     /\ UNCHANGED map

Find(k) ==
  /\ ret' = Result("find", k, map[k])
  /\ UNCHANGED map

Remove(k) ==
  /\ ret' = Result("remove", k, IF map[k] = Absent THEN "false" ELSE "true")
  /\ map' = [map EXCEPT ![k] = Absent]

Clear ==
  /\ ret' = Result("clear", ZeroKey, "ok")
  /\ map' = [k \in Keys |-> Absent]

Next ==
  \/ \E k \in Keys, v \in Vals : Insert(k, v)
  \/ \E k \in Keys : Find(k) \/ Remove(k)
  \/ Clear

Spec == Init /\ [][Next]_<<map, ret>>

=============================================================================
