----------------------------- MODULE TasvirArray -----------------------------
(***************************************************************************)
(* tasvir::Array (src/include/tasvir/array.hpp): nr_workers instances,    *)
(* wid 0..nr_workers-1, each the writer of its area "parent_name-wid".    *)
(* Instance 0's area is also the parent.  Allocate creates the area,      *)
(* then the master attaches every instance's area and waits for its       *)
(* _initialized sentinel, while a worker sets its own sentinel, attaches  *)
(* the parent and waits for the parent's.  Then each copies the parent's  *)
(* _nr_workers and calls Barrier(), which the application calls again    *)
(* after every step of its computation.                                   *)
(*                                                                         *)
(* Every write of Allocate and Barrier is passed to tasvir_log before the *)
(* next service, so an area is published whole at its writer's           *)
(* tasvir_service(); another instance reads what was published last, the *)
(* writer reads its own memory.  The data array and the Reduce/Copy calls *)
(* are left out.                                                           *)
(*                                                                         *)
(* Two reads are of memory nobody wrote: the name passed to               *)
(* tasvir_attach_wait is snprintf'd from the uninitialized buffer `name`, *)
(* and a fresh area's _initialized is read before it is set (the master   *)
(* waits on its own area at i = 0).  Both are free choices: an attach may *)
(* find the area or time out, and a fresh area may or may not hold the    *)
(* sentinel.                                                               *)
(***************************************************************************)
EXTENDS Naturals

CONSTANTS
  NrWorkers,   \* nr_workers: the instances 0..nr_workers-1
  MaxBarriers  \* the Barrier() calls explored per instance, Allocate's included

W == 0..NrWorkers-1

ASSUME NrWorkers \in Nat \ {0} /\ MaxBarriers \in Nat \ {0}

\* The fields of an Array header the protocol uses.
Header == [init : BOOLEAN, ver : Nat, vdone : Nat, nrw : Nat]

VARIABLES
  created, \* created[w]: tasvir_new of w's area has returned
  area,    \* area[w]: w's header in w's memory
  pub,     \* pub[w]: w's header as w last published it
  pc,      \* where instance w is in Allocate / Barrier
  i,       \* i[w]: the loop index of the attach loop or of the master's wait
  passed   \* passed[w]: the Barrier() calls w has returned from

vars == <<created, area, pub, pc, i, passed>>

Init ==
  /\ created = [w \in W |-> FALSE]
  /\ area = [w \in W |-> [init |-> FALSE, ver |-> 0, vdone |-> 0, nrw |-> 0]]
  /\ pub = area
  /\ pc = [w \in W |-> "new"]
  /\ i = [w \in W |-> 0]
  /\ passed = [w \in W |-> 0]

\* The header of w as instance p reads it.
Seen(p, w) == IF w = p THEN area[w] ELSE pub[w]

\* p's tasvir_service(): its logged writes are published.
Publish(p, hdr) == pub' = [pub EXCEPT ![p] = hdr]

\* Allocate up to its first attach: tasvir_new of "parent_name-wid", then
\* _size, _nr_workers = 0, _wid, _version = 1, _version_done = 0.
New(p) ==
  /\ pc[p] = "new"
  /\ \/ /\ created' = [created EXCEPT ![p] = TRUE]
        /\ \E g \in BOOLEAN :
             area' = [area EXCEPT ![p] = [init |-> g, ver |-> 1, vdone |-> 0, nrw |-> 0]]
        /\ pc' = [pc EXCEPT ![p] = IF p = 0 THEN "attach" ELSE "winit"]
     \/ /\ pc' = [pc EXCEPT ![p] = "null"]
        /\ UNCHANGED <<created, area>>
  /\ UNCHANGED <<pub, i, passed>>

\* d = tasvir_attach_wait(5 * S2US, name); if (!d) return NULL.  The master
\* attaches instance i, a worker instance 0.
Attach(p) ==
  /\ pc[p] \in {"attach", "wattach"}
  /\ LET w == IF pc[p] = "attach" THEN i[p] ELSE 0 IN
       \/ /\ created[w]
          /\ pc' = [pc EXCEPT ![p] = IF pc[p] = "attach" THEN "waitinit" ELSE "wwait"]
       \/ pc' = [pc EXCEPT ![p] = "null"]
  /\ UNCHANGED <<created, area, pub, i, passed>>

\* The master: while (_workers[i]->_initialized != 0xdeadbeef) service; then
\* the next i.
WaitInit(p) ==
  /\ pc[p] = "waitinit"
  /\ Seen(p, i[p]).init
  /\ IF i[p] + 1 < NrWorkers
     THEN pc' = [pc EXCEPT ![p] = "attach"] /\ i' = [i EXCEPT ![p] = @ + 1]
     ELSE pc' = [pc EXCEPT ![p] = "pinit"] /\ UNCHANGED i
  /\ UNCHANGED <<created, area, pub, passed>>

\* The master: parent->_initialized = 0xdeadbeef, logged, service.  A
\* worker: worker->_initialized = 0xdeadbeef, service.
SetInitialized(p) ==
  /\ pc[p] \in {"pinit", "winit"}
  /\ LET hdr == [area[p] EXCEPT !.init = TRUE] IN
       area' = [area EXCEPT ![p] = hdr] /\ Publish(p, hdr)
  /\ pc' = [pc EXCEPT ![p] = IF pc[p] = "pinit" THEN "attrs" ELSE "wattach"]
  /\ UNCHANGED <<created, i, passed>>

\* A worker: while (parent->_initialized != 0xdeadbeef) service.
WaitParent(p) ==
  /\ pc[p] = "wwait"
  /\ pub[0].init
  /\ pc' = [pc EXCEPT ![p] = "attrs"]
  /\ UNCHANGED <<created, area, pub, i, passed>>

\* worker->_parent = parent; worker->_nr_workers = parent->_nr_workers;
\* copy of _workers; then Barrier().
SetParent(p) ==
  /\ pc[p] = "attrs"
  /\ area' = [area EXCEPT ![p].nrw = Seen(p, 0).nrw]
  /\ pc' = [pc EXCEPT ![p] = "enter"]
  /\ UNCHANGED <<created, pub, i, passed>>

\* Barrier(): _version_done = _version, logged; tasvir_service_wait.
Enter(p) ==
  /\ pc[p] = "enter"
  /\ LET hdr == [area[p] EXCEPT !.vdone = area[p].ver] IN
       area' = [area EXCEPT ![p] = hdr] /\ Publish(p, hdr)
  /\ pc' = [pc EXCEPT ![p] = IF p = 0 THEN "count" ELSE "spin"]
  /\ i' = [i EXCEPT ![p] = 0]
  /\ UNCHANGED <<created, passed>>

\* The master: for each wid < _nr_workers, while (_workers[wid]->
\* _version_done != _parent->_version) service; then _parent->_version_done
\* = _parent->_version; _parent->_version++, both logged.
MasterWait(p) ==
  /\ pc[p] = "count"
  /\ IF i[p] < area[p].nrw
     THEN /\ Seen(p, i[p]).vdone = area[p].ver
          /\ i' = [i EXCEPT ![p] = @ + 1]
          /\ UNCHANGED <<area, pc>>
     ELSE /\ area' = [area EXCEPT ![p].vdone = area[p].ver, ![p].ver = area[p].ver + 1]
          /\ pc' = [pc EXCEPT ![p] = "spin"]
          /\ UNCHANGED i
  /\ UNCHANGED <<created, pub, passed>>

\* while (_version_done == _parent->_version) tasvir_service(); then
\* _version = _parent->_version, logged; Barrier() returns, and the
\* application calls it again after its next step.
Spin(p) ==
  /\ pc[p] = "spin"
  /\ area[p].vdone # Seen(p, 0).ver
  /\ area' = [area EXCEPT ![p].ver = Seen(p, 0).ver]
  /\ passed' = [passed EXCEPT ![p] = @ + 1]
  /\ pc' = [pc EXCEPT ![p] = IF passed[p] + 1 < MaxBarriers THEN "enter" ELSE "ret"]
  /\ UNCHANGED <<created, pub, i>>

\* After its last Barrier() the application keeps calling tasvir_service().
Serve(p) ==
  /\ pc[p] = "ret"
  /\ pub[p] # area[p]
  /\ Publish(p, area[p])
  /\ UNCHANGED <<created, area, pc, i, passed>>

Step(p) ==
  \/ New(p) \/ Attach(p) \/ WaitInit(p) \/ SetInitialized(p) \/ WaitParent(p)
  \/ SetParent(p) \/ Enter(p) \/ MasterWait(p) \/ Spin(p) \/ Serve(p)

Next == \E p \in W : Step(p)

Spec == Init /\ [][Next]_vars

-----------------------------------------------------------------------------
ArrayTypeOK ==
  /\ created \in [W -> BOOLEAN]
  /\ area \in [W -> Header] /\ pub \in [W -> Header]
  /\ pc \in [W -> {"new", "attach", "waitinit", "pinit", "winit", "wattach",
                   "wwait", "attrs", "enter", "count", "spin", "ret", "null"}]
  /\ i \in [W -> 0..NrWorkers] /\ passed \in [W -> 0..MaxBarriers]

\* The Barrier() calls instance q has entered (set _version_done).
Entered(q) == passed[q] + (IF pc[q] \in {"count", "spin"} THEN 1 ELSE 0)

\* Barrier() is a barrier: no instance returns from its k-th call before
\* every instance still running has entered its k-th.  The master only
\* waits for the first _nr_workers instances, and _nr_workers is the
\* parent's, which Allocate sets to 0.
BarrierWaitsForAll ==
  \A p, q \in W : pc[q] # "null" => passed[p] <= Entered(q)

=============================================================================
