------------------------------ MODULE CuckooLb ------------------------------
(***************************************************************************)
(* cuckoo-lb while serving (test() in main.cc): lbs processes, each the   *)
(* writer of the connection tables of the partitions i with i % lbs = id, *)
(* reading the others' tables through Tasvir replicas.  For a packet of  *)
(* flow val the process looks val up in table lut_lb[val]; on a miss the *)
(* owner inserts lut_backend[val], anyone else sends the owner a one-way  *)
(* rpc_find_be.  Every second a group of flows is replaced; the replaced  *)
(* ones are removed, locally or by a one-way rpc_rem.                     *)
(*                                                                         *)
(* Every process seeds fast_random1 alike, so all hold the same flows at *)
(* the same second: Gens[g] is the set of flows in a process's second g. *)
(* A table is the set of addresses it holds (the value is always         *)
(* lut_backend[val]).  Tasvir's RPC is modelled as one FIFO queue per     *)
(* sender and owner, handled inside the owner's tasvir_service(); a      *)
(* table's replica is the owner's table at the owner's last              *)
(* tasvir_service(), installed at the reader's.  The model starts once   *)
(* every process has set init (all tables ready).                        *)
(*                                                                         *)
(* lut_lb is built first: the master runs generate_lut("lbs",            *)
(* lb_partitions, lut_lb, LUT_SIZE) (Lut) before it creates its tables,   *)
(* and no process serves before every table is ready.                     *)
(***************************************************************************)
EXTENDS Integers, Sequences, SequencesExt

CONSTANTS
  Lbs,       \* lbs: the load-balancer processes 0..lbs-1
  Parts,     \* lb_partitions: the tables 0..lb_partitions-1
  Gens,      \* Gens[g]: the flows of second g (flows[] of generate_flows)
  LutLen,    \* LUT_SIZE
  BreakCounter, \* BREAK_COUNTER
  Cap,       \* ENTRIES: Insert returns nullptr on a full table
  Batch,     \* BATCH_SIZE: lookups between two tasvir_service() calls
  RunSecs,   \* RUN_SECS: test() returns at the end of this second
  MaxQueue   \* bound on the find RPCs queued from one process to another

Procs == 0..Lbs-1
Tbls  == 0..Parts-1
Addrs == UNION {Gens[g] : g \in DOMAIN Gens}

ASSUME Lbs \in Nat \ {0} /\ Parts \in Nat \ {0} /\ Lbs <= Parts
ASSUME RunSecs \in Nat \ {0} /\ DOMAIN Gens = 1..RunSecs
ASSUME Addrs \subseteq Nat /\ Batch \in Nat \ {0}

\* The process that allocated and writes table t (i % lbs == id).
Owner(t) == t % Lbs

Msg == [kind : {"find", "rem"}, addr : Addrs]

VARIABLES
  offset, skip, lut, next, n, i,  \* generate_lut's, see Lut
  lpc,   \* generate_lut's pc
  tbl,   \* tbl[t]: table t in its owner's memory
  pub,   \* pub[t]: table t as its owner last published it
  view,  \* view[p][t]: process p's replica of table t
  chan,  \* chan[<<p, q>>]: the RPCs p sent q, not yet handled
  gen,   \* gen[p]: the second p is in (seconds_run + 1)
  bi,    \* bi[p]: batch_idx
  rq,    \* rq[p]: the replaced flows the removal loop has still to remove
  ri,    \* ri[p]: the removal loop's index rem
  pc     \* "batch", "svc" (the batch's tasvir_service), "report", "rem"
         \* (the removal loop), "svcr" (its tasvir_service), "svc2" (the
         \* service after the loop), "done"

lbVars  == <<tbl, pub, view, chan, gen, bi, rq, ri, pc>>
lutVars == <<offset, skip, lut, next, n, i, lpc>>
vars    == <<lutVars, lbVars>>

\* generate_lut over the lb_partitions owners.
G == INSTANCE Lut WITH Lbs <- Parts, pc <- lpc

\* target = lut_lb[val % LUT_SIZE].
LutLb(a) == lut[a % LutLen]

Init ==
  /\ G!Init
  /\ tbl  = [t \in Tbls |-> {}]
  /\ pub  = [t \in Tbls |-> {}]
  /\ view = [p \in Procs |-> [t \in Tbls |-> {}]]
  /\ chan = [pq \in Procs \X Procs |-> <<>>]
  /\ gen  = [p \in Procs |-> 1]
  /\ bi   = [p \in Procs |-> 0]
  /\ rq   = [p \in Procs |-> <<>>]
  /\ ri   = [p \in Procs |-> 0]
  /\ pc   = [p \in Procs |-> "batch"]

\* tables[t]->Find as process p sees it: its own table or its replica.
Holds(p, t, a) == IF Owner(t) = p THEN a \in tbl[t] ELSE a \in view[p][t]

\* The owner's insert of find_backend: Insert(address, target) on a
\* miss; a full table makes Insert fail (fills++), the flow stays absent.
InsertAddress(t, a) ==
  IF a \in tbl[t] \/ Cardinality(tbl[t]) >= Cap THEN tbl
  ELSE [tbl EXCEPT ![t] = @ \cup {a}]

\* remove_address(t, a): Find, then Remove if present.
RemoveAddress(t, a) == [tbl EXCEPT ![t] = @ \ {a}]

\* Variant of rpc_rem that removes from the owner's table id.
RpcRemOwnId(p, a) == RemoveAddress(p, a)

\* rpc_rem: target = lut_lb[arg % LUT_SIZE]; remove_address(target, arg).
RpcRem(p, a) == RemoveAddress(LutLb(a), a)

\* rpc_find_be: target = lut_lb[arg % LUT_SIZE];
\* find_backend(id, target, arg), so the handler is the owner and inserts.
RpcFindBe(p, a) == InsertAddress(LutLb(a), a)

\* for (batch_idx = 0; batch_idx < BATCH_SIZE; batch_idx++), then
\* tasvir_service().
BatchStep(p) ==
  IF bi[p] + 1 = Batch THEN bi' = [bi EXCEPT ![p] = 0] /\ pc' = [pc EXCEPT ![p] = "svc"]
  ELSE bi' = [bi EXCEPT ![p] = @ + 1] /\ UNCHANGED pc

\* One iteration of the batch loop: val = flows[fast_random() % ...],
\* target = lut_lb[val % LUT_SIZE], find_backend(target % lbs, target, val).
Lookup(p) ==
  /\ pc[p] = "batch"
  /\ \E a \in Gens[gen[p]] :
       LET t == LutLb(a) IN
       \/ /\ Holds(p, t, a)
          /\ UNCHANGED <<tbl, chan>>
       \/ /\ ~Holds(p, t, a) /\ Owner(t) = p
          /\ tbl' = InsertAddress(t, a)
          /\ UNCHANGED chan
       \/ /\ ~Holds(p, t, a) /\ Owner(t) # p
          /\ Len(chan[<<p, Owner(t)>>]) < MaxQueue
          /\ chan' = [chan EXCEPT ![<<p, Owner(t)>>] =
                        Append(@, [kind |-> "find", addr |-> a])]
          /\ UNCHANGED tbl
  /\ BatchStep(p)
  /\ UNCHANGED <<pub, view, gen, rq, ri>>

\* Inside q's tasvir_service(): the oldest RPC p sent q runs.
Handle(q, p) ==
  /\ pc[q] \in {"svc", "svcr", "svc2"}
  /\ chan[<<p, q>>] # <<>>
  /\ LET m == Head(chan[<<p, q>>]) IN
       tbl' = IF m.kind = "find" THEN RpcFindBe(q, m.addr) ELSE RpcRem(q, m.addr)
  /\ chan' = [chan EXCEPT ![<<p, q>>] = Tail(@)]
  /\ UNCHANGED <<pub, view, gen, bi, rq, ri, pc>>

\* The rest of tasvir_service(): p publishes its tables' writes and
\* installs what the other owners last published.  After the batch's
\* service the second may be over (secs >= REPORT_SECS); after one inside
\* the removal loop the loop goes on.
Service(p) ==
  /\ pc[p] \in {"svc", "svcr", "svc2"}
  /\ pub'  = [t \in Tbls |-> IF Owner(t) = p THEN tbl[t] ELSE pub[t]]
  /\ view' = [view EXCEPT ![p] =
                [t \in Tbls |-> IF Owner(t) = p THEN @[t] ELSE pub[t]]]
  /\ CASE pc[p] = "svc"  -> \E nx \in {"batch", "report"} : pc' = [pc EXCEPT ![p] = nx]
       [] pc[p] = "svcr" -> pc' = [pc EXCEPT ![p] = IF rq[p] = <<>> THEN "svc2" ELSE "rem"]
       [] pc[p] = "svc2" -> pc' = [pc EXCEPT ![p] = "batch"]
  /\ UNCHANGED <<tbl, chan, gen, bi, rq, ri>>

\* The second is over: seconds_run++, return at RUN_SECS; else
\* generate_flows replaces a group, and the removal loop starts over the
\* replaced vals (deleted[], in flows[] order, here SetToSeq's).
Report(p) ==
  /\ pc[p] = "report"
  /\ IF gen[p] >= RunSecs
     THEN /\ pc' = [pc EXCEPT ![p] = "done"]
          /\ UNCHANGED <<gen, rq>>
     ELSE LET del == Gens[gen[p]] \ Gens[gen[p] + 1] IN
          /\ rq'  = [rq EXCEPT ![p] = SetToSeq(del)]
          /\ gen' = [gen EXCEPT ![p] = @ + 1]
          /\ pc'  = [pc EXCEPT ![p] = IF del = {} THEN "svc2" ELSE "rem"]
  /\ ri' = [ri EXCEPT ![p] = 0]
  /\ UNCHANGED <<tbl, chan, pub, view, bi>>

\* One iteration of for (rem = 0; rem < to_delete; rem++): the owner of
\* lut_lb[val % LUT_SIZE] is remove_address'd locally or sent rpc_rem;
\* then if (rem % BATCH_SIZE) tasvir_service().  After the loop comes
\* one more tasvir_service().
RemStep(p) ==
  /\ pc[p] = "rem"
  /\ LET a == Head(rq[p])
         t == LutLb(a)
     IN IF Owner(t) = p
        THEN tbl' = RemoveAddress(t, a) /\ UNCHANGED chan
        ELSE /\ chan' = [chan EXCEPT ![<<p, Owner(t)>>] =
                            Append(@, [kind |-> "rem", addr |-> a])]
             /\ UNCHANGED tbl
  /\ rq' = [rq EXCEPT ![p] = Tail(@)]
  /\ ri' = [ri EXCEPT ![p] = @ + 1]
  /\ pc' = [pc EXCEPT ![p] = IF ri[p] % Batch # 0 THEN "svcr"
                             ELSE IF Tail(rq[p]) = <<>> THEN "svc2" ELSE "rem"]
  /\ UNCHANGED <<pub, view, gen, bi>>

\* One step of process p's loop.
Step(p) == Lookup(p) \/ Service(p) \/ Report(p) \/ RemStep(p)

\* The master's generate_lut runs first; serving starts once it returned.
Next ==
  \/ G!Next /\ UNCHANGED lbVars
  \/ /\ lpc = "done"
     /\ \E p \in Procs : Step(p) \/ \E q \in Procs : Handle(p, q)
     /\ UNCHANGED lutVars

\* Each process runs its own loop on its own core (generate_lut on the
\* master's), and runs the RPCs queued for it inside its tasvir_service().
Spec == Init /\ [][Next]_vars
          /\ WF_vars(G!Next /\ UNCHANGED lbVars)
          /\ \A p \in Procs : WF_vars(lpc = "done" /\ Step(p) /\ UNCHANGED lutVars)

-----------------------------------------------------------------------------
\* Once generate_lut returns every slot of lut_lb names a partition, and
\* n counted exactly the claimed slots.
LutFilled == G!LutComplete

\* Once generate_lut returned, only lut (as lut_lb) and n are read again.
MCView == IF lpc = "done" THEN <<lut, n, lbVars>> ELSE <<lutVars, lbVars>>

\* Every address a table holds is a flow of some process's current second,
\* or some process's removal loop has still to reach it, or an rpc_rem for
\* it is queued to the owner (which need not run it: a process that has
\* returned from test() services no more).  A lagging process's rpc_find_be may re-insert a flow its owner
\* already removed, also while the owner services inside its removal
\* loop; that process's own rpc_rem for it then follows it on the same
\* queue.
NoOrphanEntries ==
  \A t \in Tbls : \A a \in tbl[t] :
    \/ \E p \in Procs : a \in Gens[gen[p]]
    \/ \E p \in Procs : a \in ToSet(rq[p])
    \/ \E p \in Procs : [kind |-> "rem", addr |-> a] \in ToSet(chan[<<p, Owner(t)>>])

=============================================================================
