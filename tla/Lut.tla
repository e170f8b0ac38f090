--------------------------------- MODULE Lut ---------------------------------
(***************************************************************************)
(* generate_lut (cuckoo-lb): a Maglev-style lookup table.  Each of lbs     *)
(* owners i walks the permutation offset_i + skip_i * j (mod lut_len) and, *)
(* in round-robin turns, claims the first empty slot it meets; a turn      *)
(* gives up after BREAK_COUNTER probes.  The master fills lut_lbs and     *)
(* lut_backend this way before any load balancer serves a packet.         *)
(*                                                                         *)
(* offset and skip are XXH64 of the 64-byte name buffer, of which snprintf *)
(* writes only "%s_%d" and its NUL: the rest is uninitialised stack, so    *)
(* they are a free choice per owner.  Only next[i] mod lut_len enters      *)
(* perm, so the model keeps next mod lut_len.                              *)
(***************************************************************************)
EXTENDS Integers, FiniteSets

CONSTANTS
  LutLen,       \* lut_len (LUT_SIZE = 2048 in the code)
  Lbs,          \* lbs: lb_partitions or backends, the owners
  BreakCounter  \* BREAK_COUNTER (1000 in the code)

ASSUME LutLen \in Nat /\ LutLen >= 2 /\ Lbs \in Nat \ {0}
ASSUME BreakCounter \in Nat \ {0}

Slots  == 0..LutLen-1
Owners == 0..Lbs-1
Sentinel == 32768        \* 0x8000, "just a sentinel value for empty"
ASSUME Lbs < Sentinel

\* skip = h0 % (lut_len - 1) + 1; offset = h1 % lut_len.
SkipRange == 1..LutLen-1
OffsetRange == Slots

\* perm(offset, skip, lut_len, j).
Perm(o, s, j) == (o + s * j) % LutLen

VARIABLES
  offset, skip,  \* per owner, from compute_offset_and_skip
  lut,           \* lut[c]: the owner of slot c, or Sentinel
  next,          \* next[i] (mod lut_len): owner i's position in its walk
  n,             \* slots claimed
  i,             \* the for loop's owner
  pc             \* "run" inside while (n < lut_len), "done" once returned

vars == <<offset, skip, lut, next, n, i, pc>>

Init ==
  /\ offset \in [Owners -> OffsetRange]
  /\ skip   \in [Owners -> SkipRange]
  /\ lut  = [c \in Slots |-> Sentinel]
  /\ next = [o \in Owners |-> 0]
  /\ n = 0 /\ i = 0
  /\ pc = "run"

\* The inner while of owner o from position j: the slot it stops at, its
\* position there, and the probes counted (next[i]++, c = perm, counter++,
\* break once counter > BREAK_COUNTER).
RECURSIVE ProbeFrom(_, _, _)
ProbeFrom(o, j, counter) ==
  LET c == Perm(offset[o], skip[o], j) IN
  IF lut[c] = Sentinel \/ counter > BreakCounter
  THEN [slot |-> c, at |-> j, counter |-> counter]
  ELSE ProbeFrom(o, (j + 1) % LutLen, counter + 1)

\* Variant whose for loop index is not reset for the next while round.
AdvanceNoWrap == i' = i + 1

\* The for loop goes on to the next owner; after the last, the while
\* condition n < lut_len holds (a turn reaching lut_len ends the loop).
Advance == i' = (i + 1) % Lbs

\* Variant that counts a turn that gave up as a claimed slot.
TurnCountsGiveUp ==
  LET p == ProbeFrom(i, next[i], 0) IN
  /\ pc = "run"
  /\ IF p.counter >= BreakCounter
     THEN /\ next' = [next EXCEPT ![i] = p.at]
          /\ n' = n + 1
          /\ IF n' >= LutLen THEN pc' = "done" /\ UNCHANGED i
                             ELSE Advance /\ UNCHANGED pc
          /\ UNCHANGED lut
     ELSE /\ lut'  = [lut EXCEPT ![p.slot] = i]
          /\ next' = [next EXCEPT ![i] = (p.at + 1) % LutLen]
          /\ n' = n + 1
          /\ IF n' >= LutLen THEN pc' = "done" /\ UNCHANGED i
                             ELSE Advance /\ UNCHANGED pc
  /\ UNCHANGED <<offset, skip>>

\* One turn of the for loop: after BREAK_COUNTER probes or more the owner
\* loses its turn (continue) keeping its position; otherwise it claims the
\* slot, steps past it and counts it, and the loops end at lut_len.
Turn ==
  LET p == ProbeFrom(i, next[i], 0) IN
  /\ pc = "run"
  /\ IF p.counter >= BreakCounter
     THEN /\ next' = [next EXCEPT ![i] = p.at]
          /\ Advance
          /\ UNCHANGED <<lut, n, pc>>
     ELSE /\ lut'  = [lut EXCEPT ![p.slot] = i]
          /\ next' = [next EXCEPT ![i] = (p.at + 1) % LutLen]
          /\ n' = n + 1
          /\ IF n' >= LutLen THEN pc' = "done" /\ UNCHANGED i
                             ELSE Advance /\ UNCHANGED pc
  /\ UNCHANGED <<offset, skip>>

Next == Turn

\* generate_lut runs on the master's only thread: it keeps taking turns.
Spec == Init /\ [][Next]_vars /\ WF_vars(Next)

-----------------------------------------------------------------------------
LutTypeOK ==
  /\ offset \in [Owners -> OffsetRange] /\ skip \in [Owners -> SkipRange]
  /\ lut \in [Slots -> Owners \cup {Sentinel}]
  /\ next \in [Owners -> Slots]
  /\ n \in 0..LutLen /\ i \in Owners /\ pc \in {"run", "done"}

\* generate_lut returns: main.cc logs "Done generating lbs LUT" and goes on
\* to serve; the while (n < lut_len) loop must end for every name hash.
LutTerminates == <>(pc = "done")

\* Once generate_lut returns, every slot has an owner, and n counts the
\* slots claimed: a turn that gave up claims nothing.
LutComplete ==
  /\ n = LutLen - Cardinality({c \in Slots : lut[c] = Sentinel})
  /\ pc = "done" => \A c \in Slots : lut[c] \in Owners

=============================================================================
