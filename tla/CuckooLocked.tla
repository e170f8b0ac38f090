----------------------------- MODULE CuckooLocked -----------------------------
(***************************************************************************)
(* The openflow controller and one switch sharing a CuckooMap through the *)
(* lock layer of cuckoo_map_lock.h (SpinLock, SpinLockLazy, SpinUnlock)    *)
(* over the test-and-set words of shm_spin_lock.cpp.                       *)
(*                                                                         *)
(* The controller loop (openflow/main.cpp:156-164): FindWithLock, then     *)
(* InsertWithLock if absent, else RemoveWithLock and InsertWithLock.       *)
(* The switch loop (main.cpp:282-296): the const FindWithLock, then a read *)
(* of entry->second after the locks are released.                          *)
(*                                                                         *)
(* Every shm_spin_lock / shm_spin_trylock / shm_spin_unlock is one step;   *)
(* the table operation between locking and unlocking is one step, the     *)
(* CuckooMap action of the same name.                                      *)
(***************************************************************************)
EXTENDS CuckooMap

CONSTANTS
  Controller, Switch,  \* the two processes sharing one flow table
  BigLock              \* the BIG_LOCK build: one lock word for the table

Procs == {Controller, Switch}
NoOne == "none"

ASSUME BigLock \in BOOLEAN

VARIABLES
  lock,    \* lock[x]: the shm_spin_lock_t word of bucket x (or of the table)
  holder,  \* the process that set lock[x] from 0 to 1 (not in the code)
  pc,      \* where each process is
  op,      \* the table operation each process is performing
  key,     \* the flow each process works on
  val,     \* the policy the controller inserts
  found,   \* the controller's FindWithLock result: was the flow present
  ptr      \* the switch's FindWithLock result: an entry index or None

lockVars == <<lock, holder>>
procVars == <<pc, op, key, val, found, ptr>>
allVars  == <<vars, lockVars, procVars>>

LockIdx == IF BigLock THEN {0} ELSE BucketIdx

\* The lock words SpinLock takes for key k: a = primary & mask,
\* b = secondary & mask, lower index first (or the single big lock).
Lo(k) == IF BigLock THEN 0
         ELSE IF PriBkt(k) <= SecBkt(k) THEN PriBkt(k) ELSE SecBkt(k)
Hi(k) == IF BigLock THEN 0
         ELSE IF PriBkt(k) <= SecBkt(k) THEN SecBkt(k) ELSE PriBkt(k)
Two(k) == Lo(k) # Hi(k)
LocksOf(k) == {Lo(k), Hi(k)}

\* Where process p starts taking the locks for operation o on key k.  The
\* const FindWithLock (the switch's) and RemoveWithLock call SpinLockLazy,
\* the non-const FindWithLock and InsertWithLock call SpinLock.  With
\* BIG_LOCK, or when both buckets coincide, SpinLockLazy is shm_spin_lock.
LockStart(p, o, k) ==
  IF (p = Switch \/ o = "remove") /\ ~BigLock /\ Two(k) THEN "try1"
  ELSE "spin1"

-----------------------------------------------------------------------------
(* shm_spin_lock / shm_spin_trylock / shm_spin_unlock on word x.           *)

\* Variant of Acquire that takes the word without waiting for it to be 0.
AcquireNoWait(p, x) ==
  /\ lock' = [lock EXCEPT ![x] = 1]
  /\ holder' = [holder EXCEPT ![x] = p]

\* shm_spin_lock: test-and-set until the old value is 0.
Acquire(p, x) ==
  /\ lock[x] = 0
  /\ lock' = [lock EXCEPT ![x] = 1]
  /\ holder' = [holder EXCEPT ![x] = p]

\* shm_spin_trylock: test-and-set once; returns 0 if it took the lock and
\* EBUSY if the word was already 1.
\* Variant of TryLock that tests the word without setting it.
TryLockNoSet(p, x) == UNCHANGED <<lock, holder>>

EBUSY == 16
TryLockRet(x) == IF lock[x] = 0 THEN 0 ELSE EBUSY
TryLock(p, x) ==
  /\ lock' = [lock EXCEPT ![x] = 1]
  /\ holder' = IF lock[x] = 0 THEN [holder EXCEPT ![x] = p] ELSE holder

\* Variant of Release that leaves the word set.
ReleaseNoClear(x) ==
  /\ lock' = lock
  /\ holder' = [holder EXCEPT ![x] = NoOne]

\* shm_spin_unlock: __sync_lock_release, whoever holds the word.
Release(x) ==
  /\ lock' = [lock EXCEPT ![x] = 0]
  /\ holder' = [holder EXCEPT ![x] = NoOne]

-----------------------------------------------------------------------------
(* SpinLock (cuckoo_map_lock.h:401-421).                                   *)

Spin1(p) ==
  /\ pc[p] = "spin1"
  /\ Acquire(p, Lo(key[p]))
  /\ pc' = [pc EXCEPT ![p] = IF Two(key[p]) THEN "spin2" ELSE "cs"]
  /\ UNCHANGED <<vars, op, key, val, found, ptr>>

Spin2(p) ==
  /\ pc[p] = "spin2"
  /\ Acquire(p, Hi(key[p]))
  /\ pc' = [pc EXCEPT ![p] = "cs"]
  /\ UNCHANGED <<vars, op, key, val, found, ptr>>

(* SpinLockLazy (cuckoo_map_lock.h:423-457) for a # b: "if               *)
(* (shm_spin_trylock(first)) { if (shm_spin_trylock(second)) break; else *)
(* shm_spin_unlock(first); } _mm_pause();".  A non-zero return is EBUSY.  *)

Try1(p) ==
  /\ pc[p] = "try1"
  /\ TryLock(p, Lo(key[p]))
  /\ pc' = [pc EXCEPT ![p] = IF TryLockRet(Lo(key[p])) # 0 THEN "try2"
                                                           ELSE "try1"]
  /\ UNCHANGED <<vars, op, key, val, found, ptr>>

Try2(p) ==
  /\ pc[p] = "try2"
  /\ TryLock(p, Hi(key[p]))
  /\ pc' = [pc EXCEPT ![p] = IF TryLockRet(Hi(key[p])) # 0 THEN "cs"
                                                           ELSE "undo"]
  /\ UNCHANGED <<vars, op, key, val, found, ptr>>

Undo(p) ==
  /\ pc[p] = "undo"
  /\ Release(Lo(key[p]))
  /\ pc' = [pc EXCEPT ![p] = "try1"]
  /\ UNCHANGED <<vars, op, key, val, found, ptr>>

-----------------------------------------------------------------------------
(* SpinUnlock (cuckoo_map_lock.h:460-479): the higher index first.         *)

Unlock1(p) ==
  /\ pc[p] = "unlock1"
  /\ Release(Hi(key[p]))
  /\ pc' = [pc EXCEPT ![p] = IF Two(key[p]) THEN "unlock2" ELSE "after"]
  /\ UNCHANGED <<vars, op, key, val, found, ptr>>

Unlock2(p) ==
  /\ pc[p] = "unlock2"
  /\ Release(Lo(key[p]))
  /\ pc' = [pc EXCEPT ![p] = "after"]
  /\ UNCHANGED <<vars, op, key, val, found, ptr>>

-----------------------------------------------------------------------------
(* The controller (main.cpp:125-164, one flow table).                      *)

CPick ==
  /\ pc[Controller] = "pick"
  /\ \E k \in Keys, v \in Vals :
       /\ key' = [key EXCEPT ![Controller] = k]
       /\ val' = v
       /\ op' = [op EXCEPT ![Controller] = "find"]
       /\ pc' = [pc EXCEPT ![Controller] = LockStart(Controller, "find", k)]
  /\ UNCHANGED <<vars, lockVars, found, ptr>>

\* The table call between SpinLock and SpinUnlock.
CCritical ==
  LET k == key[Controller] IN
  /\ pc[Controller] = "cs"
  /\ \/ op[Controller] = "find" /\ Find(k)
        /\ found' = (FindWithHash(Pri[k], k) # None)
     \/ op[Controller] = "insert" /\ Insert(k, val) /\ UNCHANGED found
     \/ op[Controller] = "remove" /\ Remove(k) /\ UNCHANGED found
  /\ pc' = [pc EXCEPT ![Controller] = "unlock1"]
  /\ UNCHANGED <<lockVars, op, key, val, ptr>>

\* After a call returns: "if (!entry) InsertWithLock else RemoveWithLock;
\* InsertWithLock", then the next flow.
CAfter ==
  LET k    == key[Controller]
      next == CASE op[Controller] = "find"   -> IF found THEN "remove"
                                                ELSE "insert"
                [] op[Controller] = "remove" -> "insert"
                [] OTHER                     -> "none"
  IN /\ pc[Controller] = "after"
     /\ op' = [op EXCEPT ![Controller] = next]
     /\ pc' = [pc EXCEPT ![Controller] =
                 IF next = "none" THEN "pick"
                 ELSE LockStart(Controller, next, k)]
     /\ UNCHANGED <<vars, lockVars, key, val, found, ptr>>

-----------------------------------------------------------------------------
(* The switch (main.cpp:261-296).                                          *)

SPick ==
  /\ pc[Switch] = "pick"
  /\ \E k \in Keys :
       /\ key' = [key EXCEPT ![Switch] = k]
       /\ op' = [op EXCEPT ![Switch] = "find"]
       /\ pc' = [pc EXCEPT ![Switch] = LockStart(Switch, "find", k)]
  /\ UNCHANGED <<vars, lockVars, val, found, ptr>>

\* Find() inside the const FindWithLock: the entry pointer it returns.
SCritical ==
  /\ pc[Switch] = "cs"
  /\ ptr' = FindWithHash(Pri[key[Switch]], key[Switch])
  /\ pc' = [pc EXCEPT ![Switch] = "unlock1"]
  /\ UNCHANGED <<vars, lockVars, op, key, val, found>>

\* "if (!entry) not_matched++ else ... entry->second.is_forward".
SAfter ==
  /\ pc[Switch] = "after"
  /\ pc' = [pc EXCEPT ![Switch] = IF ptr = None THEN "pick" ELSE "deref"]
  /\ UNCHANGED <<vars, lockVars, op, key, val, found, ptr>>

\* The read of entry->second, after SpinUnlock.
SDeref ==
  /\ pc[Switch] = "deref"
  /\ pc' = [pc EXCEPT ![Switch] = "pick"]
  /\ UNCHANGED <<vars, lockVars, op, key, val, found, ptr>>

-----------------------------------------------------------------------------

LockedInit ==
  /\ Init
  /\ lock   = [x \in LockIdx |-> 0]      \* shm_spin_lock_array_create
  /\ holder = [x \in LockIdx |-> NoOne]
  /\ pc     = [p \in Procs |-> "pick"]
  /\ op     = [p \in Procs |-> "none"]
  /\ key    = [p \in Procs |-> ZeroKey]
  /\ val    = ZeroVal
  /\ found  = FALSE
  /\ ptr    = None

\* The steps of process p.
Step(p) ==
  \/ Spin1(p) \/ Spin2(p) \/ Try1(p) \/ Try2(p) \/ Undo(p)
  \/ Unlock1(p) \/ Unlock2(p)
  \/ p = Controller /\ (CPick \/ CCritical \/ CAfter)
  \/ p = Switch /\ (SPick \/ SCritical \/ SAfter \/ SDeref)

LockedNext == \E p \in Procs : Step(p)

\* Each process is pinned to its own core (set_core_affinity) and spins, so
\* each keeps taking steps while it can; test-and-set grants no fairness
\* between them, so no stronger fairness is assumed.
LockedSpec == LockedInit /\ [][LockedNext]_allVars
                         /\ \A p \in Procs : WF_allVars(Step(p))

-----------------------------------------------------------------------------
(* Properties.                                                             *)

\* A process executing the table call of a *WithLock function is the one
\* that took every bucket lock of its key (so the controller's Insert or
\* Remove and the switch's Find never overlap on a bucket).  This is what
\* SpinLock/SpinLockLazy promise and what SpinUnlock must not undo for
\* another process.
CriticalSectionHoldsLocks ==
  \A p \in Procs :
    pc[p] = "cs" => \A x \in LocksOf(key[p]) : holder[x] = p

\* When the switch reads entry->second, the entry still belongs to the flow
\* it looked up (the policy it reads is that flow's).
ReadOwnFlow ==
  pc[Switch] = "deref" => entries[ptr].key = key[Switch]

\* Livelock freedom of the lock protocol: some process keeps completing
\* *WithLock calls (reaching the step after SpinUnlock).  The lazy
\* trylock loop and the test-and-set spins must not let both processes
\* spin forever.
SomeCallCompletes == []<>(\E p \in Procs : pc[p] = "after")

=============================================================================
