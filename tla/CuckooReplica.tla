---------------------------- MODULE CuckooReplica ----------------------------
(***************************************************************************)
(* The TASVIR build of openflow: the controller is the single writer of a  *)
(* flow table (a CuckooMap with TasvirMarker) and a switch reads a replica *)
(* of the table area.  Every M() call logs a location (tasvir_log); the    *)
(* controller's tasvir_service() then publishes the logged locations with  *)
(* their current contents, and the switch's tasvir_service() installs     *)
(* them.  The model keeps the logged-but-unpublished locations in dirty    *)
(* and the switch's copy of the area in replica, one value per location   *)
(* of CuckooMap's AllLocs.                                                 *)
(***************************************************************************)
EXTENDS CuckooMap

VARIABLES
  dirty,    \* locations logged since the last tasvir_service() sync
  replica,  \* the switch's copy: location -> contents
  cpc,      \* where the controller is in its loop
  ckey,     \* the flow it works on
  cval      \* the policy {count % 2, now} it inserts

replVars == <<dirty, replica, cpc, ckey, cval>>
allVars  == <<vars, replVars>>

\* The area's arrays by location kind; head_ and num_entries_ are the
\* one-element arrays at 0.
Area == [bucket |-> buckets, entry |-> entries, stck |-> stck,
         head |-> [z \in {0} |-> head], count |-> [z \in {0} |-> numEntries]]

\* A location holds the same in the replica as in the table.
Same(l) == replica[l.kind][l.at] = Area[l.kind][l.at]

ReplInit ==
  /\ Init
  /\ dirty   = {}
  /\ replica = Area
  /\ cpc     = "pick"
  /\ ckey    = ZeroKey
  /\ cval    = ZeroVal

\* A table call of the controller: the CuckooMap action, with what it
\* passed to M() added to the log.
Logged(A) == A /\ dirty' = dirty \cup marked'

\* The loop body: Find the random flow; Insert it if absent, else Remove
\* then Insert it.
CFind ==
  /\ cpc = "pick"
  /\ \E k \in Keys, v \in Vals :
       /\ Logged(Find(k))
       /\ cpc'  = IF FindWithHash(Pri[k], k) = None THEN "insert" ELSE "remove"
       /\ ckey' = k
       /\ cval' = v
  /\ UNCHANGED replica

CRemove ==
  /\ cpc = "remove"
  /\ Logged(Remove(ckey))
  /\ cpc' = "insert"
  /\ UNCHANGED <<replica, ckey, cval>>

CInsert ==
  /\ cpc = "insert"
  /\ Logged(Insert(ckey, cval))
  /\ cpc' = "end"
  /\ UNCHANGED <<replica, ckey, cval>>

\* End of an iteration: on every 32nd, tasvir_service() publishes the log
\* and the switch installs it; otherwise the loop goes on.
Sync ==
  /\ cpc = "end"
  /\ replica' = [f \in DOMAIN Area |->
                  [a \in DOMAIN Area[f] |->
                     IF Loc(f, a) \in dirty THEN Area[f][a] ELSE replica[f][a]]]
  /\ dirty' = {}
  /\ cpc' = "pick"
  /\ UNCHANGED <<vars, ckey, cval>>

NoSync ==
  /\ cpc = "end"
  /\ cpc' = "pick"
  /\ UNCHANGED <<vars, dirty, replica, ckey, cval>>

ReplNext == CFind \/ CRemove \/ CInsert \/ Sync \/ NoSync

ReplSpec == ReplInit /\ [][ReplNext]_allVars

-----------------------------------------------------------------------------
\* Every write is logged (cuckoo_map_lock.h, M() after each mutation):
\* each entry, free-stack slot and head_ of the area either is logged since
\* the last sync or holds in the replica what it holds in the table.
ReplicaEntriesStackMatch ==
  \A l \in AllLocs \ dirty :
    l.kind \in {"entry", "stck", "head"} => Same(l)

\* After a sync the switch's bucket array is the controller's.  The
\* controller's Remove is always followed by an Insert of the same flow,
\* which logs the bucket it lands in, but RemoveFromBucket logs buckets_
\* (bucket 0) whatever bucket it cleared the tag in.
ReplicaBucketsMatch ==
  dirty = {} => replica.bucket = buckets

=============================================================================
