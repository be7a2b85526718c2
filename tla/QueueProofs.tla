---------------------------- MODULE QueueProofs ----------------------------
(***************************************************************************)
(* Proofs about the Queue object: its configuration, for every set of      *)
(* register values, every split of an address into halves and every        *)
(* memory; and needs_notification, for every modulus, every queue size and *)
(* any number of calls, as long as fewer entries than the modulus are      *)
(* added between two of them.                                              *)
(***************************************************************************)
EXTENDS QueueConfig, UsedNotification, WrapIndexProofs

\* The inductive invariant is TypeOK and WellFormed together.
ConfigInv == TypeOK /\ WellFormed

\* Two halves make an address, and an address has two halves
\* (`(high << 32) | low`, `as u32`, `>> 32`).
LEMMA Halves ==
  /\ AddrMod \in Nat /\ AddrMod > 0
  /\ \A low, high \in 0 .. HalfMod - 1 :
       high * HalfMod + low \in 0 .. AddrMod - 1 /\ low \in 0 .. AddrMod - 1
  /\ \A a \in 0 .. AddrMod - 1 :
       a \div HalfMod \in 0 .. HalfMod - 1 /\ a % HalfMod \in 0 .. HalfMod - 1
<1>1. HalfMod \in Nat /\ HalfMod >= 1
  BY ConfigAssumption
<1>2. AddrMod \in Nat /\ AddrMod > 0
  BY <1>1 DEF AddrMod
<1>3. ASSUME NEW low \in 0 .. HalfMod - 1, NEW high \in 0 .. HalfMod - 1
      PROVE  high * HalfMod + low \in 0 .. AddrMod - 1 /\ low \in 0 .. AddrMod - 1
  <2>1. high * HalfMod <= (HalfMod - 1) * HalfMod /\ high * HalfMod >= 0
    BY <1>1
  <2>2. (HalfMod - 1) * HalfMod = AddrMod - HalfMod /\ AddrMod >= HalfMod
    BY <1>1 DEF AddrMod
  <2>3. high * HalfMod \in Int
    BY <1>1
  <2> QED
    BY <1>1, <1>2, <2>1, <2>2, <2>3
<1>4. ASSUME NEW a \in 0 .. AddrMod - 1
      PROVE  a \div HalfMod \in 0 .. HalfMod - 1 /\ a % HalfMod \in 0 .. HalfMod - 1
  <2> DEFINE d == a \div HalfMod
             m == a % HalfMod
  <2>1. /\ d \in Int /\ m \in 0 .. HalfMod - 1 /\ a = HalfMod * d + m
        /\ a >= 0 /\ a < HalfMod * HalfMod /\ a \in Int
    BY <1>1, <1>2 DEF AddrMod
  <2> HIDE DEF d, m
  <2>2. d >= 0
    <3> SUFFICES ASSUME d <= -1 PROVE FALSE
      BY <2>1
    <3>1. HalfMod * d <= HalfMod * (-1)
      BY <1>1, <2>1
    <3> QED
      BY <1>1, <2>1, <3>1
  <2>3. d <= HalfMod - 1
    <3> SUFFICES ASSUME d >= HalfMod PROVE FALSE
      BY <1>1, <2>1
    <3>1. HalfMod * d >= HalfMod * HalfMod
      BY <1>1, <2>1
    <3> QED
      BY <1>1, <2>1, <3>1
  <2> QED
    BY <1>1, <2>1, <2>2, <2>3 DEF d, m
<1> QED
  BY <1>2, <1>3, <1>4

\* A new queue is well formed: the default addresses are aligned, and the size
\* is the maximum (Queue::new, Queue::reset).
LEMMA NewQueueWellFormed ==
  ASSUME NEW n \in SizeValues, ValidMaxSize(n), q' = NewQueue(n)
  PROVE  ConfigInv'
<1>1. n \in Nat /\ 0 \in 0 .. AddrMod - 1 /\ 0 \in Indices
  BY ConfigAssumption, Halves
<1>2. TypeOK'
  BY <1>1 DEF NewQueue, TypeOK
<1>3. WellFormed'
  BY <1>1 DEF NewQueue, WellFormed, ValidMaxSize, Rings, Align
<1> QED
  BY <1>2, <1>3 DEF ConfigInv

\* A stored address is aligned and in range, whichever half was written.
LEMMA SetAddressKeeps ==
  ASSUME ConfigInv, NEW r \in Rings, NEW low \in 0 .. HalfMod - 1,
         NEW high \in 0 .. HalfMod - 1, SetAddress(r, low, high)
  PROVE  ConfigInv'
<1> DEFINE a == high * HalfMod + low
<1>1. a \in 0 .. AddrMod - 1
  BY Halves
<1>2. CASE AcceptsAddress(r, a)
  <2>1. q' = [q EXCEPT ![r] = a] /\ a % Align(r) = 0
    BY <1>2 DEF SetAddress, AcceptsAddress
  <2>2. TypeOK'
    BY <1>1, <2>1 DEF ConfigInv, TypeOK, Rings
  <2>3. q'.max_size = q.max_size /\ q'.size = q.size
    BY <2>1 DEF ConfigInv, TypeOK, Rings
  <2>4. \A s \in Rings : q'[s] = IF s = r THEN a ELSE q[s]
    BY <2>1 DEF ConfigInv, TypeOK, Rings
  <2> QED
    BY <2>1, <2>2, <2>3, <2>4 DEF ConfigInv, WellFormed, ValidMaxSize
<1>3. CASE ~AcceptsAddress(r, a)
  BY <1>3 DEF SetAddress, ConfigInv, TypeOK, WellFormed
<1> QED
  BY <1>2, <1>3

\* What try_from builds from a state it accepts is well formed, whoever made
\* the state.
LEMMA RestoreKeeps ==
  ASSUME ConfigInv, NEW f, NEW v, Restore(f, v),
         [State(q) EXCEPT ![f] = v] \in
           [max_size : SizeValues, size : SizeValues, ready : BOOLEAN,
            desc_table : 0 .. AddrMod - 1, avail_ring : 0 .. AddrMod - 1,
            used_ring : 0 .. AddrMod - 1, next_avail : Indices, next_used : Indices,
            event_idx_enabled : BOOLEAN]
  PROVE  ConfigInv'
<1> DEFINE s == [State(q) EXCEPT ![f] = v]
<1>1. CASE TryFromAccepts(s)
  <2>1. q' = TryFrom(s)
    BY <1>1 DEF Restore
  <2>2. TypeOK'
    BY <2>1 DEF TryFrom, NewQueue, TypeOK
  <2>3. /\ q'.max_size = s.max_size /\ q'.size = s.size
        /\ \A r \in Rings : q'[r] = s[r]
    BY <2>1 DEF TryFrom, NewQueue, Rings
  <2>4. /\ ValidMaxSize(s.max_size) /\ s.size <= s.max_size /\ PowerOfTwo(s.size)
        /\ \A r \in Rings : s[r] % Align(r) = 0
    BY <1>1 DEF TryFromAccepts, AcceptsSize, AcceptsAddress, NewQueue
  <2> HIDE DEF s
  <2> QED
    BY <2>2, <2>3, <2>4 DEF ConfigInv, WellFormed
<1>2. CASE ~TryFromAccepts(s)
  BY <1>2 DEF Restore, ConfigInv, TypeOK, WellFormed
<1> QED
  BY <1>1, <1>2

\* Every operation keeps the queue well formed.
LEMMA ConfigStep == ConfigInv /\ [Next]_q => ConfigInv'
<1> SUFFICES ASSUME ConfigInv, [Next]_q
             PROVE  ConfigInv'
  OBVIOUS
<1>1. TypeOK /\ WellFormed
  BY DEF ConfigInv
<1>2. Lows \subseteq 0 .. HalfMod - 1 /\ Highs \subseteq 0 .. HalfMod - 1
  BY ConfigAssumption
<1>3. ASSUME NEW n \in SizeValues, SetSize(n)
      PROVE  ConfigInv'
  BY <1>1, <1>3 DEF SetSize, AcceptsSize, ConfigInv, TypeOK, WellFormed, Rings
<1>4. ASSUME NEW n \in SizeValues, Restore("size", n) \/ Restore("max_size", n)
      PROVE  ConfigInv'
  <2>1. CASE Restore("size", n)
    BY <1>1, <2>1, RestoreKeeps DEF TypeOK, State
  <2>2. CASE Restore("max_size", n)
    BY <1>1, <2>2, RestoreKeeps DEF TypeOK, State
  <2> QED
    BY <1>4, <2>1, <2>2
<1>5. ASSUME NEW r \in Rings, WriteAddress(r)
      PROVE  ConfigInv'
  <2>1. q[r] \div HalfMod \in 0 .. HalfMod - 1 /\ q[r] % HalfMod \in 0 .. HalfMod - 1
    <3>1. q[r] \in 0 .. AddrMod - 1
      BY <1>1 DEF TypeOK, Rings
    <3> QED
      BY <3>1, Halves
  <2> QED
    BY <1>2, <1>5, <2>1, SetAddressKeeps DEF WriteAddress
<1>6. ASSUME NEW r \in Rings, NEW low \in Lows, Restore(r, low)
      PROVE  ConfigInv'
  <2>1. low \in 0 .. AddrMod - 1
    BY <1>2, Halves
  <2> QED
    BY <1>1, <1>6, <2>1, RestoreKeeps DEF TypeOK, State, Rings
<1>7. ASSUME NEW b \in BOOLEAN, SetReady(b) \/ SetEventIdx(b)
      PROVE  ConfigInv'
  BY <1>1, <1>7 DEF SetReady, SetEventIdx, ConfigInv, TypeOK, WellFormed, Rings
<1>8. ASSUME NEW i \in Indices, SetNextAvail(i) \/ SetNextUsed(i)
      PROVE  ConfigInv'
  BY <1>1, <1>8 DEF SetNextAvail, SetNextUsed, ConfigInv, TypeOK, WellFormed, Rings
<1>9. CASE Reset
  BY <1>1, <1>9, NewQueueWellFormed DEF Reset, TypeOK, WellFormed
<1>10. CASE UNCHANGED q
  BY <1>1, <1>10 DEF ConfigInv, TypeOK, WellFormed
<1> QED
  BY <1>3, <1>4, <1>5, <1>6, <1>7, <1>8, <1>9, <1>10 DEF Next

\* ConfigInv is an invariant.
LEMMA ConfigInvariance == Spec => []ConfigInv
<1>1. Init => ConfigInv
  <2> SUFFICES ASSUME NEW n \in SizeValues, ValidMaxSize(n), q = NewQueue(n)
               PROVE  ConfigInv
    BY DEF Init
  <2>1. n \in Nat /\ 0 \in 0 .. AddrMod - 1 /\ 0 \in Indices
    BY ConfigAssumption, Halves
  <2>2. TypeOK
    BY <2>1 DEF NewQueue, TypeOK
  <2>3. WellFormed
    BY <2>1 DEF NewQueue, WellFormed, ValidMaxSize, Rings, Align
  <2> QED
    BY <2>2, <2>3 DEF ConfigInv
<1> QED
  BY <1>1, ConfigStep, PTL DEF Spec

\* Sizes, indices and addresses keep their widths, however the halves of an address
\* are written.
THEOREM TypeCorrect == Spec => []TypeOK
BY ConfigInvariance, PTL DEF ConfigInv

\* No sequence of register writes, resets and restores leads to a size or an
\* address the queue cannot work with.
THEOREM QueueIsWellFormed == Spec => []WellFormed
BY ConfigInvariance, PTL DEF ConfigInv

\* Every queue can be saved and comes back as it was.
THEOREM QueueIsRestorable == Spec => []Restorable
<1>1. ConfigInv => Restorable
  <2> SUFFICES ASSUME ConfigInv
               PROVE  Restorable
    OBVIOUS
  <2>1. TryFromAccepts(q)
    BY DEF ConfigInv, TypeOK, WellFormed, TryFromAccepts, AcceptsSize, AcceptsAddress, NewQueue
  <2>2. TryFrom(q) = q
    <3> DEFINE R == [max_size : SizeValues, size : SizeValues, ready : BOOLEAN,
                     desc_table : 0 .. AddrMod - 1, avail_ring : 0 .. AddrMod - 1,
                     used_ring : 0 .. AddrMod - 1, next_avail : Indices,
                     next_used : Indices, event_idx_enabled : BOOLEAN]
    <3>1. q \in R /\ TryFrom(q) \in R
      BY DEF ConfigInv, TypeOK, TryFrom, NewQueue
    <3>2. /\ TryFrom(q).max_size = q.max_size /\ TryFrom(q).size = q.size
          /\ TryFrom(q).ready = q.ready /\ TryFrom(q).desc_table = q.desc_table
          /\ TryFrom(q).avail_ring = q.avail_ring /\ TryFrom(q).used_ring = q.used_ring
          /\ TryFrom(q).next_avail = q.next_avail /\ TryFrom(q).next_used = q.next_used
          /\ TryFrom(q).event_idx_enabled = q.event_idx_enabled
      BY DEF TryFrom, NewQueue
    <3> QED
      BY <3>1, <3>2
  <2>3. State(q) = q
    BY DEF ConfigInv, TypeOK, State
  <2> QED
    BY <2>1, <2>2, <2>3 DEF Restorable
<1> QED
  BY <1>1, ConfigInvariance, PTL

\* An access that ends within the region is in it.
LEMMA AccessInside ==
  ASSUME NEW top \in Nat, NEW x \in Nat, NEW l \in Nat, x + l <= top, NEW a, a = <<x, l>>
  PROVE  a[1] .. a[1] + a[2] - 1 \subseteq 0 .. top - 1
<1>1. a[1] = x /\ a[2] = l
  OBVIOUS
<1>2. x .. x + l - 1 \subseteq 0 .. top - 1
  OBVIOUS
<1> QED
  BY <1>1, <1>2

\* The accesses of a queue whose three parts end within a region are in it.
LEMMA AccessesInside ==
  ASSUME NEW top \in Nat, NEW o,
         o.size \in Nat, o.desc_table \in Nat, o.avail_ring \in Nat, o.used_ring \in Nat,
         o.desc_table + 16 * o.size < top,
         o.avail_ring + (6 + 2 * o.size) < top,
         o.used_ring + (6 + 8 * o.size) < top,
         NEW a \in Accesses(o)
  PROVE  a[1] .. a[1] + a[2] - 1 \subseteq 0 .. top - 1
<1>1. CASE \E i \in 0 .. o.size - 1 : a = <<o.desc_table + 16 * i, 16>>
  <2>1. PICK i \in 0 .. o.size - 1 : a = <<o.desc_table + 16 * i, 16>>
    BY <1>1
  <2>2. o.desc_table + 16 * i \in Nat /\ o.desc_table + 16 * i + 16 <= top
    OBVIOUS
  <2> QED
    BY <2>1, <2>2, AccessInside
<1>2. CASE \E i \in 0 .. o.size : a = <<o.avail_ring + 4 + 2 * i, 2>>
  <2>1. PICK i \in 0 .. o.size : a = <<o.avail_ring + 4 + 2 * i, 2>>
    BY <1>2
  <2>2. o.avail_ring + 4 + 2 * i \in Nat /\ o.avail_ring + 4 + 2 * i + 2 <= top
    OBVIOUS
  <2> QED
    BY <2>1, <2>2, AccessInside
<1>3. CASE \E i \in 0 .. o.size - 1 : a = <<o.used_ring + 4 + 8 * i, 8>>
  <2>1. PICK i \in 0 .. o.size - 1 : a = <<o.used_ring + 4 + 8 * i, 8>>
    BY <1>3
  <2>2. o.used_ring + 4 + 8 * i \in Nat /\ o.used_ring + 4 + 8 * i + 8 <= top
    OBVIOUS
  <2> QED
    BY <2>1, <2>2, AccessInside
<1>4. CASE a \in {<<o.avail_ring + 2, 2>>, <<o.used_ring, 2>>, <<o.used_ring + 2, 2>>,
                  <<o.used_ring + 4 + 8 * o.size, 2>>}
  <2>1. /\ o.avail_ring + 2 \in Nat /\ o.avail_ring + 2 + 2 <= top
        /\ o.used_ring + 2 <= top /\ o.used_ring + 2 \in Nat /\ o.used_ring + 2 + 2 <= top
        /\ o.used_ring + 4 + 8 * o.size \in Nat /\ o.used_ring + 4 + 8 * o.size + 2 <= top
    OBVIOUS
  <2> QED
    BY <1>4, <2>1, AccessInside
<1>5. o.size \in 0 .. o.size /\ 0 .. o.size - 1 \subseteq 0 .. o.size
  OBVIOUS
<1> QED
  BY <1>1, <1>2, <1>3, <1>4, <1>5 DEF Accesses

\* When guest memory is one region from address 0, is_valid is enough: the queue
\* it accepts makes no access outside memory.
THEOREM ValidIsInMemory ==
  ASSUME NEW top \in Nat, Memory = 0 .. top - 1
  PROVE  Spec => []ValidQueueInMemory
<1>1. ASSUME ConfigInv
      PROVE  /\ q.size \in Nat /\ q.desc_table \in Nat /\ q.avail_ring \in Nat
             /\ q.used_ring \in Nat
  <2>1. /\ q.size \in SizeValues /\ q.desc_table \in 0 .. AddrMod - 1
        /\ q.avail_ring \in 0 .. AddrMod - 1 /\ q.used_ring \in 0 .. AddrMod - 1
    BY <1>1 DEF ConfigInv, TypeOK
  <2>2. \A x \in 0 .. AddrMod - 1 : x \in Nat
    BY Halves
  <2>3. \A x \in SizeValues : x \in Nat
    BY ConfigAssumption
  <2> QED
    BY <2>1, <2>2, <2>3, Zenon
<1>2. ASSUME ConfigInv, IsValid(q)
      PROVE  /\ q.desc_table + 16 * q.size < top
             /\ q.avail_ring + (6 + 2 * q.size) < top
             /\ q.used_ring + (6 + 8 * q.size) < top
  <2>1. \A x \in Memory : x < top
    OBVIOUS
  <2>2. /\ q.desc_table + 16 * q.size \in Memory
        /\ q.avail_ring + (6 + 2 * q.size) \in Memory
        /\ q.used_ring + (6 + 8 * q.size) \in Memory
    BY <1>2 DEF IsValid, Rings, RingSize
  <2> QED
    BY <2>1, <2>2, Zenon
<1>3. ConfigInv => ValidQueueInMemory
  BY <1>1, <1>2, AccessesInside DEF ValidQueueInMemory
<1> QED
  BY <1>3, ConfigInvariance, PTL
-----------------------------------------------------------------------------
\* The inductive invariant: num_added, if it was not lost by a restore, and the
\* distance from the index of the last call both count the entries added.
CountInv ==
  /\ NotificationTypeOK
  /\ WSub(next_used, checked) = adds
  /\ event_idx_enabled /\ ~restored => num_added = adds

\* The comparison of needs_notification is membership of used_event in the
\* entries from `old` on, also when the indices have wrapped between them.
LEMMA CrossedIsMember ==
  ASSUME NEW u \in Idx, NEW e \in Idx, NEW old \in Idx
  PROVE  WSub(WSub(u, e), 1) < WSub(u, old) <=> e \in Window(old, u)
<1>1. /\ WSub(u, e) = IF u >= e THEN u - e ELSE u - e + IdxMod
      /\ WSub(u, old) = IF u >= old THEN u - old ELSE u - old + IdxMod
      /\ WSub(e, old) = IF e >= old THEN e - old ELSE e - old + IdxMod
      /\ WSub(u, e) \in Idx
  BY WSubValue
<1>2. WSub(WSub(u, e), 1) = IF WSub(u, e) = 0 THEN IdxMod - 1 ELSE WSub(u, e) - 1
  BY <1>1, WPredValue
<1>3. e \in Window(old, u) <=> WSub(e, old) < WSub(u, old)
  BY DEF Window
<1> QED
  BY <1>1, <1>2, <1>3, Sizes DEF Idx

\* Nothing is counted at first.
LEMMA CountInit == NotificationInit => CountInv
<1>1. 0 \in Idx /\ WSub(0, 0) = 0 /\ 0 \in 0 .. MaxAdds
  BY Sizes, DistanceMoves, MaxAddsAssumption DEF Idx
<1> QED
  BY <1>1 DEF NotificationInit, CountInv, NotificationTypeOK

\* Every call, the failing ones included, keeps the counts.
LEMMA CountStep ==
  ASSUME MaxAdds < IdxMod, CountInv, [NotificationNext]_notificationVars
  PROVE  CountInv'
<1>1. 0 \in Idx /\ WSub(0, 0) = 0 /\ MaxAdds \in Nat
  BY Sizes, DistanceMoves, MaxAddsAssumption DEF Idx
<1>2. ASSUME NEW written \in BOOLEAN, NEW stored \in BOOLEAN, AddUsed(written, stored)
      PROVE  CountInv'
  <2>1. CASE written
    <3>1. /\ next_used \in Idx /\ num_added \in Idx /\ checked \in Idx /\ used_idx \in Idx
          /\ used_event \in Idx /\ adds \in 0 .. MaxAdds /\ WSub(next_used, checked) = adds
      BY DEF CountInv, NotificationTypeOK
    <3>2. /\ next_used' = WAdd(next_used, 1) /\ num_added' = WAdd(num_added, 1)
          /\ adds' = adds + 1 /\ adds < MaxAdds /\ used_idx' \in {next_used', used_idx}
          /\ UNCHANGED <<event_idx_enabled, used_event, answer, checked, restored>>
      BY <1>2, <2>1 DEF AddUsed
    <3>3. /\ WAdd(next_used, 1) \in Idx /\ WAdd(num_added, 1) \in Idx
          /\ WAdd(num_added, 1) = IF num_added = IdxMod - 1 THEN 0 ELSE num_added + 1
      BY <3>1, WSuccValue
    <3>4. WSub(WAdd(next_used, 1), checked) = adds + 1
      <4>1. WSub(next_used, checked) < IdxMod - 1
        BY <1>1, <3>1, <3>2, Sizes
      <4> QED
        BY <3>1, <4>1, DistanceMoves
    <3>5. num_added = adds => WAdd(num_added, 1) = adds + 1
      BY <1>1, <3>1, <3>2, <3>3, Sizes
    <3>6. adds + 1 \in 0 .. MaxAdds
      BY <1>1, <3>1, <3>2
    <3>7. NotificationTypeOK'
      BY <3>1, <3>2, <3>3, <3>6 DEF CountInv, NotificationTypeOK
    <3> QED
      BY <3>2, <3>4, <3>5, <3>7 DEF CountInv
  <2>2. CASE ~written
    BY <1>2, <2>2 DEF AddUsed, CountInv, NotificationTypeOK
  <2> QED
    BY <2>1, <2>2
<1>3. ASSUME NEW loaded \in BOOLEAN, NeedsNotification(loaded)
      PROVE  CountInv'
  <2>1. CASE event_idx_enabled /\ ~loaded
    BY <1>3, <2>1 DEF NeedsNotification, CountInv, NotificationTypeOK
  <2>2. CASE ~(event_idx_enabled /\ ~loaded)
    <3>1. next_used \in Idx /\ WSub(next_used, next_used) = 0 /\ 0 \in 0 .. MaxAdds
      BY <1>1, DistanceMoves DEF CountInv, NotificationTypeOK
    <3>2. answer' \in BOOLEAN
      BY <1>3, <2>2 DEF NeedsNotification
    <3>3. NotificationTypeOK'
      BY <1>1, <1>3, <2>2, <3>1, <3>2 DEF NeedsNotification, CountInv, NotificationTypeOK
    <3> QED
      BY <1>3, <2>2, <3>1, <3>3 DEF NeedsNotification, CountInv
  <2> QED
    BY <2>1, <2>2
<1>4. CASE RestoreQueue
  <2>1. num_added' = 0 /\ restored' = (restored \/ adds > 0)
    BY <1>4 DEF RestoreQueue
  <2>2. ~restored' => adds' = 0
    <3>1. ~restored' => ~(adds > 0)
      BY <2>1, Zenon
    <3>2. ~(adds > 0) => adds = 0
      BY <1>1 DEF CountInv, NotificationTypeOK
    <3> QED
      BY <1>4, <3>1, <3>2, Zenon DEF RestoreQueue
  <2>3. NotificationTypeOK'
    <3>1. restored' \in BOOLEAN
      BY <2>1
    <3> QED
      BY <1>1, <1>4, <2>1, <3>1, Zenon DEF RestoreQueue, CountInv, NotificationTypeOK
  <2> QED
    BY <1>4, <2>1, <2>2, <2>3 DEF RestoreQueue, CountInv
<1>5. CASE ResetQueue
  <2>1. next_used' = 0 /\ checked' = 0 /\ adds' = 0 /\ num_added' = 0
    BY <1>5 DEF ResetQueue
  <2>2. NotificationTypeOK'
    <3>1. 0 \in 0 .. MaxAdds
      BY <1>1
    <3>2. {event_idx_enabled', answer', restored'} \subseteq BOOLEAN
      BY <1>5 DEF ResetQueue
    <3>3. {next_used', num_added', used_idx', used_event', checked'} \subseteq Idx
      BY <1>1, <1>5 DEF ResetQueue
    <3> QED
      BY <2>1, <3>1, <3>2, <3>3 DEF NotificationTypeOK
  <2>3. WSub(next_used', checked') = adds'
    BY <1>1, <2>1
  <2> QED
    BY <2>1, <2>2, <2>3 DEF CountInv
<1>6. ASSUME NEW v \in Idx, SetUsedEvent(v)
      PROVE  CountInv'
  BY <1>6 DEF SetUsedEvent, CountInv, NotificationTypeOK
<1>7. CASE UNCHANGED notificationVars
  BY <1>7 DEF notificationVars, CountInv, NotificationTypeOK
<1> QED
  BY <1>2, <1>3, <1>4, <1>5, <1>6, <1>7 DEF NotificationNext

\* The indices stay 16-bit numbers and the count within its bound through every call.
THEOREM CountsTypeCorrect ==
  ASSUME MaxAdds < IdxMod
  PROVE  NotificationSpec => []NotificationTypeOK
<1>1. NotificationInit => CountInv
  BY CountInit
<1>2. CountInv /\ [NotificationNext]_notificationVars => CountInv'
  BY CountStep
<1>3. CountInv => NotificationTypeOK
  BY DEF CountInv
<1> QED
  BY <1>1, <1>2, <1>3, PTL DEF NotificationSpec

\* needs_notification neither misses the entry the driver named nor answers true
\* without it, through failed calls and wrapped indices.
THEOREM NotificationIsExact ==
  ASSUME MaxAdds < IdxMod
  PROVE  NotificationSpec => AnswerExact
<1>1. NotificationInit => CountInv
  BY CountInit
<1>2. CountInv /\ [NotificationNext]_notificationVars => CountInv'
  BY CountStep
<1>3. ASSUME CountInv, NeedsNotification(TRUE), event_idx_enabled, ~restored
      PROVE  answer' <=> used_event \in Window(checked, next_used)
  <2>1. /\ next_used \in Idx /\ used_event \in Idx /\ checked \in Idx /\ num_added \in Idx
        /\ num_added = WSub(next_used, checked)
    BY <1>3 DEF CountInv, NotificationTypeOK
  <2>2. WSub(next_used, num_added) = checked
    BY <2>1, WSubTwice
  <2>3. answer' = (WSub(WSub(next_used, used_event), 1) < WSub(next_used, checked))
    BY <1>3, <2>2 DEF NeedsNotification, EventCrossed
  <2> QED
    BY <2>1, <2>3, CrossedIsMember
<1> QED
  BY <1>1, <1>2, <1>3, PTL DEF NotificationSpec, AnswerExact
=============================================================================
