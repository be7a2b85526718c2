---------------------------- MODULE QueueConfig ----------------------------
(***************************************************************************)
(* The configuration of a virtio_queue::Queue: the registers the transport *)
(* writes in any order and as often as the driver likes, reset, the check  *)
(* is_valid that a device makes before it uses the queue, and the creation *)
(* of a queue from a QueueState that was saved, here or by other software. *)
(* The object is a record with the fields of the struct; num_added, which  *)
(* no operation here depends on, belongs to module UsedNotification.       *)
(***************************************************************************)
EXTENDS Integers

CONSTANTS
  MaxQueueSize,   \* MAX_QUEUE_SIZE
  HalfMod,        \* modulus of one half of an address (2^32 in the code)
  Memory,         \* the guest addresses that are backed by memory
  SizeValues,     \* values written to the size register
  Lows, Highs,    \* values written to the halves of an address register
  Indices         \* values given to set_next_avail and set_next_used

AddrMod == HalfMod * HalfMod

ASSUME ConfigAssumption ==
  /\ MaxQueueSize \in Nat \ {0} /\ HalfMod \in Nat \ {0}
  /\ Memory \subseteq 0 .. AddrMod - 1
  /\ SizeValues \subseteq Nat /\ Indices \subseteq Nat /\ 0 \in Indices
  /\ Lows \subseteq 0 .. HalfMod - 1 /\ Highs \subseteq 0 .. HalfMod - 1

VARIABLE q

Rings == {"desc_table", "avail_ring", "used_ring"}

\* try_set_*_address: what each address must be a multiple of.
Align(r) == CASE r = "desc_table" -> 16 [] r = "avail_ring" -> 2 [] r = "used_ring" -> 4

\* What is_valid takes for the size of each part of a queue of n elements.
RingSize(r, n) ==
  CASE r = "desc_table" -> 16 * n
    [] r = "avail_ring" -> 6 + 2 * n
    [] r = "used_ring"  -> 6 + 8 * n

\* The test `n != 0 && n & (n - 1) == 0`.
PowerOfTwo(n) == \E k \in 0 .. n : n = 2 ^ k

ValidMaxSize(n) == n <= MaxQueueSize /\ PowerOfTwo(n)

\* Queue::new for an acceptable max_size.
NewQueue(n) ==
  [max_size |-> n, size |-> n, ready |-> FALSE,
   desc_table |-> 0, avail_ring |-> 0, used_ring |-> 0,
   next_avail |-> 0, next_used |-> 0, event_idx_enabled |-> FALSE]

Init == \E n \in SizeValues : ValidMaxSize(n) /\ q = NewQueue(n)
-----------------------------------------------------------------------------
\* The operations.  A refused value leaves the queue as it is.

\* try_set_size and try_set_*_address: is the value accepted?
AcceptsSize(o, n) == n <= o.max_size /\ PowerOfTwo(n)
AcceptsAddress(r, a) == a % Align(r) = 0

SetSize(n) == q' = IF AcceptsSize(q, n) THEN [q EXCEPT !.size = n] ELSE q

\* set_*_address: the halves put together, and stored if the result is aligned.
SetAddress(r, low, high) ==
  LET a == high * HalfMod + low
  IN  q' = IF AcceptsAddress(r, a) THEN [q EXCEPT ![r] = a] ELSE q

\* A write to the low half, to the high half, or to both; a half that is not
\* given is the one the address has.
WriteAddress(r) ==
  \/ \E low \in Lows : SetAddress(r, low, q[r] \div HalfMod)
  \/ \E high \in Highs : SetAddress(r, q[r] % HalfMod, high)
  \/ \E low \in Lows, high \in Highs : SetAddress(r, low, high)

SetReady(b) == q' = [q EXCEPT !.ready = b]
SetEventIdx(b) == q' = [q EXCEPT !.event_idx_enabled = b]
SetNextAvail(i) == q' = [q EXCEPT !.next_avail = i]
SetNextUsed(i) == q' = [q EXCEPT !.next_used = i]

Reset == q' = NewQueue(q.max_size)

\* Queue::state: a field by field copy, without num_added.
State(o) ==
  [max_size |-> o.max_size, next_avail |-> o.next_avail, next_used |-> o.next_used,
   event_idx_enabled |-> o.event_idx_enabled, size |-> o.size, ready |-> o.ready,
   desc_table |-> o.desc_table, avail_ring |-> o.avail_ring, used_ring |-> o.used_ring]

\* Bug: the size is taken over unchecked.
TryFromAcceptsAnySize(s) ==
  /\ ValidMaxSize(s.max_size)
  /\ \A r \in Rings : AcceptsAddress(r, s[r])

\* TryFrom<QueueState> for Queue: does every fallible step succeed?
TryFromAccepts(s) ==
  /\ ValidMaxSize(s.max_size)
  /\ AcceptsSize(NewQueue(s.max_size), s.size)
  /\ \A r \in Rings : AcceptsAddress(r, s[r])

\* Bug: next_used is not taken over.
TryFromForgetsUsed(s) ==
  [NewQueue(s.max_size) EXCEPT
     !.next_avail = s.next_avail,
     !.event_idx_enabled = s.event_idx_enabled, !.size = s.size, !.ready = s.ready,
     !.desc_table = s.desc_table, !.avail_ring = s.avail_ring, !.used_ring = s.used_ring]

\* ... and the queue it builds on the new one.
TryFrom(s) ==
  [NewQueue(s.max_size) EXCEPT
     !.next_avail = s.next_avail, !.next_used = s.next_used,
     !.event_idx_enabled = s.event_idx_enabled, !.size = s.size, !.ready = s.ready,
     !.desc_table = s.desc_table, !.avail_ring = s.avail_ring, !.used_ring = s.used_ring]

\* A saved state whose fields, all public, were set by someone else is restored.
Restore(f, v) ==
  LET s == [State(q) EXCEPT ![f] = v]
  IN  q' = IF TryFromAccepts(s) THEN TryFrom(s) ELSE q

Next ==
  \/ \E n \in SizeValues : SetSize(n) \/ Restore("size", n) \/ Restore("max_size", n)
  \/ \E r \in Rings : WriteAddress(r) \/ \E low \in Lows : Restore(r, low)
  \/ \E b \in BOOLEAN : SetReady(b) \/ SetEventIdx(b)
  \/ \E i \in Indices : SetNextAvail(i) \/ SetNextUsed(i)
  \/ Reset

Spec == Init /\ [][Next]_q
-----------------------------------------------------------------------------
\* Bug: the used ring is taken to end with its elements.
IsValidNoMeta(o) ==
  /\ o.ready
  /\ \A r \in Rings :
       o[r] + RingSize(r, o.size) - (IF r = "used_ring" THEN 6 ELSE 0) \in Memory

\* Queue::is_valid (an address that overflows is in no memory).
IsValid(o) ==
  /\ o.ready
  /\ \A r \in Rings : o[r] + RingSize(r, o.size) \in Memory

\* The accesses <<address, length>> the operations of the queue make.
Accesses(o) ==
  LET slots == 0 .. o.size - 1
  IN  {<<o.desc_table + 16 * i, 16>> : i \in slots}           \* DescriptorChain::next
      \cup {<<o.avail_ring + 2, 2>>}                          \* avail_idx
      \cup {<<o.avail_ring + 4 + 2 * i, 2>> : i \in slots}    \* AvailIter::next
      \cup {<<o.avail_ring + 4 + 2 * o.size, 2>>}             \* used_event
      \cup {<<o.used_ring, 2>>, <<o.used_ring + 2, 2>>}       \* set_used_flags, idx
      \cup {<<o.used_ring + 4 + 8 * i, 8>> : i \in slots}     \* add_used
      \cup {<<o.used_ring + 4 + 8 * o.size, 2>>}              \* set_avail_event

TypeOK ==
  q \in [max_size : SizeValues, size : SizeValues, ready : BOOLEAN,
         desc_table : 0 .. AddrMod - 1, avail_ring : 0 .. AddrMod - 1,
         used_ring : 0 .. AddrMod - 1, next_avail : Indices, next_used : Indices,
         event_idx_enabled : BOOLEAN]

\* Whatever is written and restored in whatever order, the queue keeps a size
\* that is a power of two not above its maximum, so that `index % size` is
\* defined and goes round with the 16-bit indices, and aligned addresses.
WellFormed ==
  /\ ValidMaxSize(q.max_size)
  /\ q.size <= q.max_size /\ PowerOfTwo(q.size)
  /\ \A r \in Rings : q[r] % Align(r) = 0

\* A queue that is_valid accepts does all its accesses to memory: no descriptor
\* read, index load, element write or event store of the queue can fail.
ValidQueueInMemory ==
  IsValid(q) => \A a \in Accesses(q) : a[1] .. a[1] + a[2] - 1 \subseteq Memory

\* The state of any queue the operations can lead to is accepted by try_from,
\* and gives the same queue back.
Restorable == TryFromAccepts(State(q)) /\ TryFrom(State(q)) = q
=============================================================================
