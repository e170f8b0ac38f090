------------------------------ MODULE CuckooMap ------------------------------
(***************************************************************************)
(* The single-threaded cuckoo hash table of                                *)
(* src/apps/openflow/cuckoo_map_lock.h: CuckooMap<K,V,H,E,M> together with *)
(* its EntryStack of free entry indices.                                   *)
(*                                                                         *)
(* State: the bucket array (per slot a hash tag and an entry index), the   *)
(* entry array (key, value), the free stack (head_ and stck_[1..head_]),   *)
(* num_entries_, the set of locations the marker M() was called on by the *)
(* last operation, and the value the last operation returned.             *)
(*                                                                         *)
(* Every public operation (Insert, Find, Remove, Clear) is one action.     *)
(* AddEntry's "goto again" loop and the recursive MakeSpace search are     *)
(* RECURSIVE operators, so an action is the whole call.                    *)
(*                                                                         *)
(* HashResult (uint32) values are pairs <<hi16, lo16>> so that the exact   *)
(* 32-bit HashSecondary of the code can be computed within TLC's integers. *)
(***************************************************************************)
EXTENDS Integers, FiniteSets, Bitwise

CONSTANTS
  Keys,             \* keys the callers use
  Vals,             \* values the callers store
  ZeroKey,          \* the key of a zero-initialised Entry()
  ZeroVal,          \* the value of a zero-initialised Entry()
  Hasher,           \* H: the user hash of every key, as <<hi16, lo16>>
  NumBuckets,       \* alloc_num_buckets_
  NumEntries,       \* alloc_num_entries_
  EntriesPerBucket, \* kEntriesPerBucket (4 in the code; tunable)
  MaxCuckooPath,    \* kMaxCuckooPath (3 in the code; tunable)
  MaxAgainRounds    \* bound on AddEntry's "goto again" rounds we explore

KeySpace == Keys \cup {ZeroKey}
Half == 0..65535

\* Create() succeeds only for these parameters (cuckoo_map_lock.h:228-229).
ASSUME /\ NumBuckets \in Nat \ {0} /\ NumEntries \in Nat \ {0}
       /\ \E n \in 0..16 : NumBuckets = 2^n
       /\ NumEntries >= NumBuckets
ASSUME EntriesPerBucket \in Nat \ {0} /\ MaxCuckooPath \in Nat
ASSUME Hasher \in [KeySpace -> Half \X Half]
ASSUME ZeroKey \notin Keys /\ ZeroVal \notin Vals

VARIABLES
  buckets,    \* buckets_[b].hash_values[s] / entry_indices[s]
  entries,    \* entries_[i] = TrivialPair{first, second}
  head,       \* free_entry_indices_->head_
  stck,       \* free_entry_indices_->stck_[1..NumEntries]
  numEntries, \* num_entries_
  marked,     \* locations passed to M() by the last operation
  ret         \* what the last operation returned

vars == <<buckets, entries, head, stck, numEntries, marked, ret>>

BucketIdx == 0..NumBuckets-1
SlotIdx   == 0..EntriesPerBucket-1
EntryIdx  == 0..NumEntries-1
Empty     == <<0, 0>>                  \* the reserved "empty" hash value
None      == -1                        \* kInvalidEntryIdx / slot -1

ZeroEntry  == [key |-> ZeroKey, val |-> ZeroVal]
EmptySlot  == [tag |-> Empty, idx |-> 0]      \* a memset-zeroed slot

\* Locations the marker can be called on (the arena's fields).
Loc(kind, at) == [kind |-> kind, at |-> at]
AllLocs == {Loc("count", 0), Loc("head", 0)}
           \cup {Loc("stck", h) : h \in 1..NumEntries}
           \cup {Loc("bucket", b) : b \in BucketIdx}
           \cup {Loc("entry", i) : i \in EntryIdx}

-----------------------------------------------------------------------------
(* Hashing: Hash(), HashSecondary() and the bucket index hash & mask.      *)

\* Hash(): hasher(key) | (1u << 31)
Hash(k) == <<IF Hasher[k][1] >= 32768 THEN Hasher[k][1]
                                      ELSE Hasher[k][1] + 32768,
             Hasher[k][2]>>

\* (a * 0x5bd1e995) mod 2^32 for a < 2^21, as <<hi16, lo16>>, by limbs.
MulMagic(a) ==
  LET Chi == 23505  Clo == 59797              \* 0x5bd1, 0xe995
      ahi == a \div 65536  alo == a % 65536
      P0  == (alo % 256) * Clo  P1 == (alo \div 256) * Clo
      low == P0 + (P1 % 256) * 256
  IN <<((low \div 65536) + P1 \div 256 + alo * Chi + ahi * Clo) % 65536,
       low % 65536>>

\* HashSecondary(): primary ^ (((primary >> 12) + 1) * 0x5bd1e995)
HashSecondary(p) ==
  LET x == MulMagic(p[1] * 16 + p[2] \div 4096 + 1)
  IN <<p[1] ^^ x[1], p[2] ^^ x[2]>>

Pri == [k \in KeySpace |-> Hash(k)]
Sec == [k \in KeySpace |-> HashSecondary(Pri[k])]

\* HashSecondary() of every primary hash that occurs, computed once.
SecOf == [p \in {Pri[k] : k \in KeySpace} |-> HashSecondary(p)]

\* hash & bucket_mask_ (bucket_mask_ = NumBuckets - 1, a power of two).
BucketOf(h) == h[2] % NumBuckets
PriBkt(k) == BucketOf(Pri[k])
SecBkt(k) == BucketOf(Sec[k])

-----------------------------------------------------------------------------
(* Bucket helpers.                                                         *)

SlotMin(S) == CHOOSE i \in S : \A j \in S : i <= j

\* FindEmptySlot(): first slot whose hash value is 0, or -1.
FindEmptySlot(bucket) ==
  LET S == {i \in SlotIdx : bucket[i].tag = Empty}
  IN IF S = {} THEN None ELSE SlotMin(S)

\* Variant of FindSlot that trusts the tag alone (the key comparison
\* dropped); it lets the checks below be shown to detect such a slip.
FindSlotTagOnly(bucket, primary, key) ==
  LET S == {i \in SlotIdx : bucket[i].tag = primary}
  IN IF S = {} THEN None ELSE SlotMin(S)

\* FindSlot(): first slot with this primary tag whose entry key equals key.
FindSlot(bucket, primary, key) ==
  LET S == {i \in SlotIdx : bucket[i].tag = primary
                            /\ entries[bucket[i].idx].key = key}
  IN IF S = {} THEN None ELSE SlotMin(S)

\* GetFromBucket(): the entry index of key in bucket b, or kInvalidEntryIdx.
GetFromBucket(primary, b, key) ==
  LET s == FindSlot(buckets[b], primary, key)
  IN IF s = None THEN None ELSE buckets[b][s].idx

\* FindWithHash(): the primary bucket, then the secondary bucket.
FindWithHash(primary, key) ==
  LET r == GetFromBucket(primary, BucketOf(primary), key)
  IN IF r # None THEN r
     ELSE GetFromBucket(primary, BucketOf(SecOf[primary]), key)

-----------------------------------------------------------------------------
(* MakeSpace(): bounded recursive relocation.  Returns the slot it freed  *)
(* in bucket index (or -1), the buckets after the relocations, and the    *)
(* marked buckets.  bk is the bucket array as it is at that point.        *)

Relocate(bk, index, i, alt, j) ==
  LET moved == [bk EXCEPT ![alt][j] = bk[index][i]]
  IN [moved EXCEPT ![index][i].tag = Empty]

\* Variant of AltIndex that takes the neighbouring bucket.
AltIndexNext(key, tag, index) == (index + 1) % NumBuckets

\* The alternative bucket MakeSpace picks for the entry in bk[index][i].
AltIndex(key, tag, index) ==
  IF Pri[key] = tag THEN SecBkt(key) ELSE PriBkt(key)

Failed(bk) == [slot |-> None, bk |-> bk, marks |-> {}]

RECURSIVE MakeSpace(_, _, _), MakeSpaceScan(_, _, _, _)

MakeSpace(bk, index, depth) ==
  IF depth >= MaxCuckooPath THEN Failed(bk)
  ELSE MakeSpaceScan(bk, index, depth, 0)

MakeSpaceScan(bk, index, depth, i) ==
  IF i >= EntriesPerBucket THEN Failed(bk)
  ELSE
    LET tag == bk[index][i].tag
        key == entries[bk[index][i].idx].key
    IN IF Pri[key] # tag /\ Sec[key] # tag THEN Failed(bk)
       ELSE
         LET alt == AltIndex(key, tag, index)
             j   == FindEmptySlot(bk[alt])
             r   == IF j = None THEN MakeSpace(bk, alt, depth + 1)
                    ELSE [slot |-> j, bk |-> bk, marks |-> {}]
         IN IF r.slot >= 0
            THEN [slot  |-> i,
                  bk    |-> Relocate(r.bk, index, i, alt, r.slot),
                  marks |-> r.marks \cup {Loc("bucket", alt),
                                          Loc("bucket", index)}]
            ELSE MakeSpaceScan(r.bk, index, depth, i + 1)

-----------------------------------------------------------------------------
(* AddEntry(): AddToBucket(primary), AddToBucket(secondary), then          *)
(* MakeSpace from each bucket and "goto again".  AddToBucket fails when   *)
(* the bucket has no empty slot or the free stack is empty.  Returns      *)
(* where to place the entry, or "null", or "hang" when more than          *)
(* MaxAgainRounds rounds would be taken.                                   *)

RECURSIVE AddEntry(_, _, _, _)
AddEntry(bk, k, marks, rounds) ==
  LET p  == PriBkt(k)
      s  == SecBkt(k)
      Out(res, b, slot, bk2, m) ==
        [res |-> res, b |-> b, slot |-> slot, bk |-> bk2, marks |-> m]
  IN
  IF rounds > MaxAgainRounds THEN Out("hang", p, None, bk, marks)
  ELSE IF FindEmptySlot(bk[p]) # None /\ head # 0
       THEN Out("placed", p, FindEmptySlot(bk[p]), bk, marks)
  ELSE IF FindEmptySlot(bk[s]) # None /\ head # 0
       THEN Out("placed", s, FindEmptySlot(bk[s]), bk, marks)
  ELSE LET m1 == MakeSpace(bk, p, 0) IN
       IF m1.slot >= 0 THEN AddEntry(m1.bk, k, marks \cup m1.marks, rounds + 1)
       ELSE LET m2 == MakeSpace(bk, s, 0) IN
            IF m2.slot >= 0
            THEN AddEntry(m2.bk, k, marks \cup m2.marks, rounds + 1)
            ELSE Out("null", p, None, bk, marks)

-----------------------------------------------------------------------------
(* The free stack: Clear() then Push(i) for i = NumEntries-1 .. 0 leaves   *)
(* stck_[h] = NumEntries - h and head_ = NumEntries.                       *)

\* Variant of FullStack whose loop runs from alloc_num_entries_ down to 1.
FullStackOffByOne == [h \in 1..NumEntries |-> NumEntries - h + 1]

FullStack == [h \in 1..NumEntries |-> NumEntries - h]

\* Variant of StoreSlot that stores the hash of the bucket it fills.
StoreSlotOwnHash(bk, b, slot, k, free) ==
  [bk EXCEPT ![b][slot] = [tag |-> IF b = PriBkt(k) THEN Pri[k] ELSE Sec[k],
                           idx |-> free]]

\* AddToBucket's store: the primary hash and the popped entry index.
StoreSlot(bk, b, slot, k, free) ==
  [bk EXCEPT ![b][slot] = [tag |-> Pri[k], idx |-> free]]

\* Variant of PushFree that loses the index (no PushFreeEntryIndex call).
PushFreeLost(idx) == UNCHANGED <<head, stck>>

\* PushFreeEntryIndex() -> EntryStack::Push(): refused when head_ >= size_,
\* otherwise head_++ and stck_[head_] = idx.
PushFree(idx) ==
  IF head < NumEntries
  THEN /\ head' = head + 1
       /\ stck' = [stck EXCEPT ![head + 1] = idx]
  ELSE UNCHANGED <<head, stck>>

\* PopFreeEntryIndex(): Top() then Pop(), which marks head_.
PopFree == head' = head - 1

\* Variants of AddToBucket whose store of the entry, or of the bucket, is
\* not passed to M().
AddToBucketNoEntryMark(bk, b, slot, k, v, m) ==
  LET free == stck[head] IN
  /\ buckets' = StoreSlot(bk, b, slot, k, free)
  /\ entries' = [entries EXCEPT ![free] = [key |-> k, val |-> v]]
  /\ PopFree
  /\ numEntries' = numEntries + 1
  /\ marked' = m \cup {Loc("head", 0), Loc("bucket", b)}
  /\ UNCHANGED stck

AddToBucketNoBucketMark(bk, b, slot, k, v, m) ==
  LET free == stck[head] IN
  /\ buckets' = StoreSlot(bk, b, slot, k, free)
  /\ entries' = [entries EXCEPT ![free] = [key |-> k, val |-> v]]
  /\ PopFree
  /\ numEntries' = numEntries + 1
  /\ marked' = m \cup {Loc("head", 0), Loc("entry", free)}
  /\ UNCHANGED stck

\* The successful AddToBucket(): store the primary hash and the popped index
\* in the empty slot, write the entry, num_entries_++.  The bucket, head_
\* and the entry are marked, num_entries_ is not.  bk is the bucket array
\* as AddEntry's relocations left it, m the buckets they marked.
AddToBucket(bk, b, slot, k, v, m) ==
  LET free == stck[head] IN
  /\ buckets' = StoreSlot(bk, b, slot, k, free)
  /\ entries' = [entries EXCEPT ![free] = [key |-> k, val |-> v]]
  /\ PopFree
  /\ numEntries' = numEntries + 1
  /\ marked' = m \cup {Loc("head", 0), Loc("bucket", b), Loc("entry", free)}
  /\ UNCHANGED stck

Result(op, k, out) == [op |-> op, key |-> k, out |-> out]

Init ==
  \* Create() ends with Clear()
  /\ buckets    = [b \in BucketIdx |-> [s \in SlotIdx |-> EmptySlot]]
  /\ entries    = [i \in EntryIdx |-> ZeroEntry]
  /\ head       = NumEntries
  /\ stck       = FullStack
  /\ numEntries = 0
  /\ marked     = AllLocs
  /\ ret        = Result("create", ZeroKey, "ok")

Live == ret.out # "hang"   \* a hung Insert never returns

\* Insert(): overwrite in place when FindWithHash finds the key, otherwise
\* AddEntry and, on success, AddToBucket's pop/store/increment.
Insert(k, v) ==
  LET idx == FindWithHash(Pri[k], k) IN
  /\ Live
  /\ IF idx # None
     THEN /\ entries' = [entries EXCEPT ![idx].val = v]
          /\ marked' = {Loc("entry", idx)}
          /\ ret' = Result("insert", k, "entry")
          /\ UNCHANGED <<buckets, head, stck, numEntries>>
     ELSE LET a == AddEntry(buckets, k, {}, 0) IN
          IF a.res = "placed"
          THEN /\ AddToBucket(a.bk, a.b, a.slot, k, v, a.marks)
               /\ ret' = Result("insert", k, "entry")
          ELSE /\ buckets' = a.bk
               /\ marked' = a.marks
               /\ ret' = Result("insert", k, a.res)
               /\ UNCHANGED <<entries, head, stck, numEntries>>

\* Find(): no side effect on the table.
Find(k) ==
  LET idx == FindWithHash(Pri[k], k) IN
  /\ Live
  /\ ret' = Result("find", k, IF idx = None THEN "null" ELSE entries[idx].val)
  /\ marked' = {}
  /\ UNCHANGED <<buckets, entries, head, stck, numEntries>>

\* RemoveFromBucket() on bucket b: clear the tag, zero the entry, push its
\* index (Push refuses when the stack is full), decrement the count.  The
\* marker is called on buckets_ (bucket 0), the entry and num_entries_.
RemoveAt(b, slot) ==
  LET idx  == buckets[b][slot].idx
      push == head < NumEntries
  IN /\ buckets' = [buckets EXCEPT ![b][slot].tag = Empty]
     /\ entries' = [entries EXCEPT ![idx] = ZeroEntry]
     /\ PushFree(idx)
     /\ numEntries' = numEntries - 1
     /\ marked' = {Loc("bucket", 0), Loc("entry", idx), Loc("count", 0)}
                  \cup (IF push THEN {Loc("stck", head + 1), Loc("head", 0)}
                        ELSE {})

\* Remove(): the primary bucket first, then the secondary bucket.
Remove(k) ==
  LET p  == PriBkt(k)
      s  == SecBkt(k)
      sp == FindSlot(buckets[p], Pri[k], k)
      ss == FindSlot(buckets[s], Pri[k], k)
  IN
  /\ Live
  /\ IF sp # None
     THEN RemoveAt(p, sp) /\ ret' = Result("remove", k, "true")
     ELSE IF ss # None
     THEN RemoveAt(s, ss) /\ ret' = Result("remove", k, "true")
     ELSE /\ ret' = Result("remove", k, "false")
          /\ marked' = {}
          /\ UNCHANGED <<buckets, entries, head, stck, numEntries>>

\* Clear(): reset the stack, memset buckets and entries, zero the count,
\* push every index back, and mark the whole arena.
Clear ==
  /\ Live
  /\ buckets'    = [b \in BucketIdx |-> [s \in SlotIdx |-> EmptySlot]]
  /\ entries'    = [i \in EntryIdx |-> ZeroEntry]
  /\ head'       = NumEntries
  /\ stck'       = FullStack
  /\ numEntries' = 0
  /\ marked'     = AllLocs
  /\ ret'        = Result("clear", ZeroKey, "ok")

Next ==
  \/ \E k \in Keys, v \in Vals : Insert(k, v)
  \/ \E k \in Keys : Find(k)
  \/ \E k \in Keys : Remove(k)
  \/ Clear

Spec == Init /\ [][Next]_vars

-----------------------------------------------------------------------------
(* What the table holds, read the way Find() reads it.                     *)

Occupied == {bs \in BucketIdx \X SlotIdx : buckets[bs[1]][bs[2]].tag # Empty}
SlotOf(bs)  == buckets[bs[1]][bs[2]]
KeyAt(bs)   == entries[SlotOf(bs).idx].key

\* The key -> value map the table holds: the value of an occupied slot
\* whose entry has key k, wherever that slot is.
AbsMap == [k \in Keys |->
             LET S == {bs \in Occupied : KeyAt(bs) = k}
             IN IF S = {} THEN "null"
                ELSE entries[SlotOf(CHOOSE bs \in S : TRUE).idx].val]

KV == INSTANCE KVMap WITH map <- AbsMap

-----------------------------------------------------------------------------
(* Properties.                                                             *)

TypeOK ==
  /\ buckets \in [BucketIdx -> [SlotIdx ->
                   [tag : {Empty} \cup {Pri[k] : k \in KeySpace},
                    idx : EntryIdx]]]
  /\ entries \in [EntryIdx -> [key : KeySpace, val : Vals \cup {ZeroVal}]]
  /\ head \in 0..NumEntries
  /\ stck \in [1..NumEntries -> EntryIdx]
  /\ numEntries \in 0..NumEntries
  /\ marked \subseteq AllLocs
  /\ ret.op \in {"create", "insert", "find", "remove", "clear"}
  /\ ret.key \in KeySpace

\* Entry-slot accounting across AddToBucket's pop, RemoveFromBucket's push
\* and Clear's refill: every occupied bucket slot owns a distinct entry
\* index, the indices on the free stack are distinct and disjoint from the
\* owned ones, and num_entries_ + head_ = alloc_num_entries_.  This is also
\* what makes the one-past-the-end stck_[alloc_num_entries_] harmless: it
\* is live only when head_ = alloc_num_entries_, i.e. when no entry is used.
EntryAccounting ==
  LET used == {SlotOf(bs).idx : bs \in Occupied}
      free == {stck[h] : h \in 1..head}
  IN /\ Cardinality(Occupied) = numEntries
     /\ Cardinality(used) = numEntries
     /\ Cardinality(free) = head
     /\ used \cap free = {}
     /\ numEntries + head = NumEntries

\* The two-bucket reachability invariant MakeSpace must preserve: every
\* occupied slot carries its key's primary hash as tag and lies in the
\* key's primary or secondary bucket, so FindWithHash can reach it.
TwoBucketReachability ==
  \A bs \in Occupied :
    LET k == KeyAt(bs) IN
    /\ k \in Keys
    /\ SlotOf(bs).tag = Pri[k]
    /\ bs[1] \in {PriBkt(k), SecBkt(k)}

-----------------------------------------------------------------------------
(* Reference: the displacement the design describes, where a displaced   *)
(* key goes to whichever of its two buckets it is not in.  PathFrom(b, d) *)
(* holds when at most MaxCuckooPath - d such moves starting at bucket b   *)
(* free a slot of b.                                                       *)

OtherBucket(k, b) == IF b = PriBkt(k) THEN SecBkt(k) ELSE PriBkt(k)

RECURSIVE PathFrom(_, _)
PathFrom(b, d) ==
  /\ d < MaxCuckooPath
  /\ \E s \in SlotIdx :
       LET o == OtherBucket(KeyAt(<<b, s>>), b) IN
       /\ buckets[b][s].tag # Empty
       /\ o # b
       /\ FindEmptySlot(buckets[o]) # None \/ PathFrom(o, d + 1)

\* Insert() returns nullptr only when no cuckoo path of at most
\* kMaxCuckooPath moves can make room in either of the key's buckets (or no
\* entry is free).  MakeSpace chooses the alternative bucket by comparing
\* the stored tag with the primary hash, which AddToBucket always stores.
InsertFailsOnlyWithoutCuckooPath ==
  [][ret'.op = "insert" /\ ret'.out = "null" =>
       LET k == ret'.key IN
       ~(head > 0 /\ (PathFrom(PriBkt(k), 0) \/ PathFrom(SecBkt(k), 0)))]_vars

=============================================================================
