-------------------------- MODULE WrapIndexProofs --------------------------
(***************************************************************************)
(* Facts about wrapping ring indices, for every queue size and modulus.    *)
(***************************************************************************)
EXTENDS WrapIndex, Sequences, TLAPS

\* The part of the assumption that plain arithmetic needs.
LEMMA Sizes == QSize \in Nat /\ IdxMod \in Nat /\ QSize >= 1 /\ IdxMod >= 2 * QSize
BY SizeAssumption

\* Wrapping subtraction of two indices is the plain difference, plus the modulus
\* when that is negative (Wrapping<u16>::sub).
LEMMA WSubValue ==
  ASSUME NEW x \in Idx, NEW y \in Idx
  PROVE  /\ WSub(x, y) = IF x >= y THEN x - y ELSE x - y + IdxMod
         /\ WSub(x, y) \in Idx
BY SizeAssumption DEF WSub, Idx

\* Adding one is the successor, and wraps at the modulus.
LEMMA WSuccValue ==
  ASSUME NEW x \in Idx
  PROVE  /\ WAdd(x, 1) = IF x = IdxMod - 1 THEN 0 ELSE x + 1
         /\ WAdd(x, 1) \in Idx
BY SizeAssumption DEF WAdd, Idx

\* `index % size` is a slot of the ring.
LEMMA SlotType ==
  ASSUME NEW x \in Idx
  PROVE  Slot(x) \in Slots
BY SizeAssumption DEF Slot, Slots, Idx

\* Two different indices less than a queue apart have different slots, also
\* across the wrap-around of the index, because the size divides the modulus.
LEMMA SlotInjective ==
  ASSUME NEW x \in Idx, NEW y \in Idx, WSub(x, y) < QSize, Slot(x) = Slot(y)
  PROVE  x = y
<1> DEFINE k == x \div QSize
           l == y \div QSize
           m == IdxMod \div QSize
<1>1. /\ x = QSize * k + Slot(x) /\ y = QSize * l + Slot(y)
      /\ IdxMod = QSize * m
      /\ k \in Int /\ l \in Int /\ m \in Int /\ Slot(x) \in Int
  BY SizeAssumption DEF Slot, Idx
<1>2. WSub(x, y) = x - y \/ WSub(x, y) = x - y + IdxMod
  BY WSubValue, SizeAssumption DEF Idx
<1> HIDE DEF k, l, m
<1>3. /\ QSize * (k - l) = QSize * k - QSize * l
      /\ QSize * (k - l + m) = QSize * k - QSize * l + QSize * m
  BY <1>1, SizeAssumption
<1>4. PICK q \in Int : WSub(x, y) = QSize * q
  <2>1. CASE WSub(x, y) = x - y
    <3>1. WSub(x, y) = QSize * (k - l) /\ k - l \in Int
      BY <1>1, <1>3, <2>1, SizeAssumption DEF Idx
    <3> QED BY <3>1
  <2>2. CASE WSub(x, y) = x - y + IdxMod
    <3>1. WSub(x, y) = QSize * (k - l + m) /\ k - l + m \in Int
      BY <1>1, <1>3, <2>2, SizeAssumption DEF Idx
    <3> QED BY <3>1
  <2> QED BY <1>2, <2>1, <2>2
<1>5. WSub(x, y) \in 0 .. QSize - 1
  BY WSubValue, SizeAssumption DEF Idx
<1>6. ~ (q >= 1)
  BY <1>4, <1>5, SizeAssumption
<1>7. ~ (q <= -1)
  BY <1>4, <1>5, SizeAssumption
<1>8. WSub(x, y) = 0
  BY <1>4, <1>6, <1>7, SizeAssumption
<1>9. WSub(x, y) = IF x >= y THEN x - y ELSE x - y + IdxMod
  BY WSubValue
<1> QED
  BY <1>8, <1>9, SizeAssumption DEF Idx

\* Going one back is the predecessor, and wraps at zero.
LEMMA WPredValue ==
  ASSUME NEW x \in Idx
  PROVE  /\ WSub(x, 1) = IF x = 0 THEN IdxMod - 1 ELSE x - 1
         /\ WSub(x, 1) \in Idx
<1>1. 1 \in Idx
  BY SizeAssumption DEF Idx
<1> QED
  BY <1>1, WSubValue, SizeAssumption DEF Idx

\* Going one on and one back cancel, as next and go_to_previous_position do.
LEMMA WSuccPred ==
  ASSUME NEW x \in Idx
  PROVE  WSub(WAdd(x, 1), 1) = x
<1>1. /\ WAdd(x, 1) \in Idx
      /\ WAdd(x, 1) = IF x = IdxMod - 1 THEN 0 ELSE x + 1
  BY WSuccValue
<1>2. WSub(WAdd(x, 1), 1) = IF WAdd(x, 1) = 0 THEN IdxMod - 1 ELSE WAdd(x, 1) - 1
  BY <1>1, WPredValue
<1> QED
  BY <1>1, <1>2, Sizes DEF Idx

\* Going back n from x is n away from x: the distance from `old` to used_idx
\* in needs_notification is num_added.
LEMMA WSubTwice ==
  ASSUME NEW x \in Idx, NEW n \in Idx
  PROVE  WSub(x, WSub(x, n)) = n
<1>1. /\ WSub(x, n) \in Idx
      /\ WSub(x, n) = IF x >= n THEN x - n ELSE x - n + IdxMod
  BY WSubValue
<1>2. WSub(x, WSub(x, n)) = IF x >= WSub(x, n)
        THEN x - WSub(x, n) ELSE x - WSub(x, n) + IdxMod
  BY <1>1, WSubValue
<1> QED
  BY <1>1, <1>2, Sizes DEF Idx

\* How the distance between two indices changes when one of them moves by one.
LEMMA DistanceMoves ==
  ASSUME NEW from \in Idx, NEW to \in Idx
  PROVE  /\ WSub(from, from) = 0
         /\ WSub(to, from) = 0 => to = from
         /\ WSub(to, from) < IdxMod - 1 =>
              /\ WSub(WAdd(to, 1), from) = WSub(to, from) + 1
              /\ WSub(to, WSub(from, 1)) = WSub(to, from) + 1
         /\ to # from =>
              /\ WSub(to, from) > 0
              /\ WSub(to, WAdd(from, 1)) = WSub(to, from) - 1
              /\ WSub(WSub(to, from), 1) = WSub(to, from) - 1
         /\ WAdd(WSub(from, 1), 1) = from
<1>1. /\ WAdd(to, 1) \in Idx /\ WAdd(from, 1) \in Idx /\ WSub(from, 1) \in Idx
      /\ WSub(to, from) \in Idx
      /\ WAdd(to, 1) = IF to = IdxMod - 1 THEN 0 ELSE to + 1
      /\ WAdd(from, 1) = IF from = IdxMod - 1 THEN 0 ELSE from + 1
      /\ WSub(from, 1) = IF from = 0 THEN IdxMod - 1 ELSE from - 1
      /\ WAdd(WSub(from, 1), 1) = IF WSub(from, 1) = IdxMod - 1 THEN 0 ELSE WSub(from, 1) + 1
  BY WSuccValue, WPredValue, WSubValue
<1>2. /\ WSub(from, from) = 0
      /\ WSub(to, from) = IF to >= from THEN to - from ELSE to - from + IdxMod
  BY WSubValue, SizeAssumption DEF Idx
<1>3. /\ WSub(WAdd(to, 1), from) = IF WAdd(to, 1) >= from
           THEN WAdd(to, 1) - from ELSE WAdd(to, 1) - from + IdxMod
      /\ WSub(to, WAdd(from, 1)) = IF to >= WAdd(from, 1)
           THEN to - WAdd(from, 1) ELSE to - WAdd(from, 1) + IdxMod
      /\ WSub(to, WSub(from, 1)) = IF to >= WSub(from, 1)
           THEN to - WSub(from, 1) ELSE to - WSub(from, 1) + IdxMod
  BY <1>1, WSubValue
<1>4. WSub(WSub(to, from), 1) = IF WSub(to, from) = 0 THEN IdxMod - 1 ELSE WSub(to, from) - 1
  BY <1>1, WPredValue
<1> QED
  BY <1>1, <1>2, <1>3, <1>4, SizeAssumption DEF Idx

\* Distances along the ring add up as long as they do not go round.
LEMMA DistanceSplit ==
  ASSUME NEW a \in Idx, NEW b \in Idx, NEW c \in Idx, WSub(b, a) <= WSub(c, a)
  PROVE  WSub(c, a) = WSub(b, a) + WSub(c, b)
<1>1. /\ WSub(b, a) = IF b >= a THEN b - a ELSE b - a + IdxMod
      /\ WSub(c, a) = IF c >= a THEN c - a ELSE c - a + IdxMod
      /\ WSub(c, b) = IF c >= b THEN c - b ELSE c - b + IdxMod
  BY WSubValue
<1> QED
  BY <1>1, Sizes DEF Idx

\* How a window changes when one of its ends moves by one.
LEMMA WindowGrows ==
  ASSUME NEW from \in Idx, NEW to \in Idx, WSub(to, from) < IdxMod - 1
  PROVE  /\ Window(from, WAdd(to, 1)) = Window(from, to) \cup {to}
         /\ to \notin Window(from, to)
<1>1. WSub(WAdd(to, 1), from) = WSub(to, from) + 1
  BY DistanceMoves
<1>2. ASSUME NEW x \in Idx
      PROVE  x # to => WSub(x, from) # WSub(to, from)
  <2>1. /\ WSub(x, from) = IF x >= from THEN x - from ELSE x - from + IdxMod
        /\ WSub(to, from) = IF to >= from THEN to - from ELSE to - from + IdxMod
    BY WSubValue
  <2> QED
    BY <2>1, Sizes DEF Idx
<1>3. \A x \in Idx : WSub(x, from) \in Int
  BY WSubValue DEF Idx
<1> QED
  BY <1>1, <1>2, <1>3 DEF Window

\* Taking the oldest entry removes exactly its index from the window.
LEMMA WindowShrinks ==
  ASSUME NEW from \in Idx, NEW to \in Idx, to # from
  PROVE  /\ Window(from, to) = {from} \cup Window(WAdd(from, 1), to)
         /\ from \notin Window(WAdd(from, 1), to)
         /\ from \in Window(from, to)
<1>1. /\ WSub(to, WAdd(from, 1)) = WSub(to, from) - 1
      /\ WSub(to, from) > 0 /\ WSub(to, from) \in Idx
      /\ WAdd(from, 1) \in Idx
      /\ WSub(from, from) = 0
  BY DistanceMoves, WSubValue, WSuccValue
<1>2. ASSUME NEW x \in Idx, x # from
      PROVE  WSub(x, WAdd(from, 1)) = WSub(x, from) - 1
  BY <1>2, DistanceMoves
<1>3. WSub(from, WAdd(from, 1)) = IdxMod - 1
  <2>1. /\ WSub(from, WAdd(from, 1)) = IF from >= WAdd(from, 1)
             THEN from - WAdd(from, 1) ELSE from - WAdd(from, 1) + IdxMod
        /\ WAdd(from, 1) = IF from = IdxMod - 1 THEN 0 ELSE from + 1
    BY <1>1, WSubValue, WSuccValue
  <2> QED
    BY <2>1, Sizes DEF Idx
<1>4. \A x \in Idx : WSub(x, from) \in Int
  BY WSubValue DEF Idx
<1>5. from \in Window(from, to)
  BY <1>1 DEF Window
<1>6. from \notin Window(WAdd(from, 1), to)
  BY <1>1, <1>3, SizeAssumption DEF Window, Idx
<1>7. ASSUME NEW x \in Idx, x # from
      PROVE  x \in Window(from, to) <=> x \in Window(WAdd(from, 1), to)
  BY <1>1, <1>2, <1>4, <1>7, SizeAssumption DEF Window, Idx
<1> QED
  BY <1>5, <1>6, <1>7 DEF Window

\* Stepping back puts exactly the index before the oldest entry into the window.
LEMMA WindowGrowsBack ==
  ASSUME NEW from \in Idx, NEW to \in Idx, WSub(to, from) < IdxMod - 1
  PROVE  /\ Window(WSub(from, 1), to) = {WSub(from, 1)} \cup Window(from, to)
         /\ WSub(from, 1) \notin Window(from, to)
<1> DEFINE p == WSub(from, 1)
<1>1. /\ p \in Idx /\ WAdd(p, 1) = from
      /\ WSub(to, p) = WSub(to, from) + 1 /\ WSub(to, from) \in Idx
  BY WPredValue, DistanceMoves, WSubValue
<1>2. to # p
  BY <1>1, DistanceMoves, Sizes DEF Idx
<1> HIDE DEF p
<1>3. /\ Window(p, to) = {p} \cup Window(WAdd(p, 1), to)
      /\ p \notin Window(WAdd(p, 1), to)
  BY <1>1, <1>2, WindowShrinks
<1> QED
  BY <1>1, <1>3 DEF p

\* The slot just after a window shorter than a queue, and the slot just before
\* one, is not a slot of the window: a ring never overwrites what it holds.
LEMMA NextSlotIsOutside ==
  ASSUME NEW from \in Idx, NEW to \in Idx, WSub(to, from) < QSize,
         NEW x \in Window(from, to)
  PROVE  /\ Slot(x) # Slot(to)
         /\ Slot(x) # Slot(WSub(from, 1))
<1>1. x \in Idx /\ WSub(x, from) < WSub(to, from)
  BY DEF Window
<1>2. /\ WSub(x, from) \in Idx /\ WSub(to, from) \in Idx
      /\ WSub(to, x) \in Idx
  BY <1>1, WSubValue
<1>3. WSub(to, from) = WSub(x, from) + WSub(to, x)
  BY <1>1, <1>2, DistanceSplit DEF Idx
<1>4. Slot(x) # Slot(to)
  <2>1. WSub(to, x) < QSize /\ WSub(to, x) # 0
    BY <1>1, <1>2, <1>3, Sizes DEF Idx
  <2>2. to # x
    BY <2>1, <1>1, DistanceMoves
  <2> QED
    BY <1>1, <2>1, <2>2, SlotInjective
<1>5. Slot(x) # Slot(WSub(from, 1))
  <2>1. WSub(x, WSub(from, 1)) = WSub(x, from) + 1
    BY <1>1, <1>2, DistanceMoves, Sizes DEF Idx
  <2>2. WSub(from, 1) \in Idx
    BY WPredValue
  <2>3. WSub(x, WSub(from, 1)) < QSize /\ WSub(x, WSub(from, 1)) # 0
    BY <1>1, <1>2, <2>1, Sizes DEF Idx
  <2>4. x # WSub(from, 1)
    BY <2>2, <2>3, DistanceMoves
  <2> QED
    BY <1>1, <2>2, <2>3, <2>4, SlotInjective
<1> QED
  BY <1>4, <1>5
-----------------------------------------------------------------------------
\* What a ring holds, after each kind of move.

\* Writing the next slot changes nothing in the window.
LEMMA WriteNext ==
  ASSUME NEW from \in Idx, NEW to \in Idx, WSub(to, from) < QSize, NEW ring, NEW ring2,
         \A s \in Slots : s # Slot(to) => ring2[s] = ring[s]
  PROVE  /\ Held(ring2, from, to) = Held(ring, from, to)
         /\ Distinct(ring, from, to) => Distinct(ring2, from, to)
<1>1. \A x \in Window(from, to) : ring2[Slot(x)] = ring[Slot(x)]
  <2> TAKE x \in Window(from, to)
  <2>1. Slot(x) # Slot(to) /\ Slot(x) \in Slots
    BY NextSlotIsOutside, SlotType DEF Window
  <2> QED
    BY <2>1
<1> QED
  BY <1>1 DEF Held, Distinct

\* The window takes in the next slot.
LEMMA HeldGrows ==
  ASSUME NEW ring, NEW from \in Idx, NEW to \in Idx, WSub(to, from) < QSize
  PROVE  /\ Held(ring, from, WAdd(to, 1)) = Held(ring, from, to) \cup {ring[Slot(to)]}
         /\ Distinct(ring, from, to) /\ ring[Slot(to)] \notin Held(ring, from, to)
              => Distinct(ring, from, WAdd(to, 1))
<1>1. /\ Window(from, WAdd(to, 1)) = Window(from, to) \cup {to}
      /\ to \notin Window(from, to)
  <2>1. WSub(to, from) < IdxMod - 1
    BY WSubValue, Sizes DEF Idx
  <2> QED
    BY <2>1, WindowGrows
<1> QED
  BY <1>1 DEF Held, Distinct

\* The window gives up its first slot.
LEMMA HeldShrinks ==
  ASSUME NEW ring, NEW from \in Idx, NEW to \in Idx, to # from
  PROVE  /\ Held(ring, from, to) = {ring[Slot(from)]} \cup Held(ring, WAdd(from, 1), to)
         /\ Distinct(ring, from, to) =>
              /\ Distinct(ring, WAdd(from, 1), to)
              /\ ring[Slot(from)] \notin Held(ring, WAdd(from, 1), to)
<1>1. /\ Window(from, to) = {from} \cup Window(WAdd(from, 1), to)
      /\ from \notin Window(WAdd(from, 1), to)
  BY WindowShrinks
<1> QED
  BY <1>1 DEF Held, Distinct

\* The window takes back the slot before its first.
LEMMA HeldGrowsBack ==
  ASSUME NEW ring, NEW from \in Idx, NEW to \in Idx, WSub(to, from) < QSize
  PROVE  /\ Held(ring, WSub(from, 1), to)
                = {ring[Slot(WSub(from, 1))]} \cup Held(ring, from, to)
         /\ Distinct(ring, from, to)
              /\ ring[Slot(WSub(from, 1))] \notin Held(ring, from, to)
              => Distinct(ring, WSub(from, 1), to)
<1>1. /\ Window(WSub(from, 1), to) = {WSub(from, 1)} \cup Window(from, to)
      /\ WSub(from, 1) \notin Window(from, to)
  <2>1. WSub(to, from) < IdxMod - 1
    BY WSubValue, Sizes DEF Idx
  <2> QED
    BY <2>1, WindowGrowsBack
<1> QED
  BY <1>1 DEF Held, Distinct

\* What a window holds are values of the ring.
LEMMA HeldType ==
  ASSUME NEW ring, ring \in [Slots -> Slots], NEW from, NEW to
  PROVE  Held(ring, from, to) \subseteq Slots
BY SlotType DEF Held, Window

\* An empty window holds nothing.
LEMMA HeldEmpty ==
  ASSUME NEW ring, NEW from \in Idx
  PROVE  Held(ring, from, from) = {} /\ Distinct(ring, from, from)
<1>1. Window(from, from) = {}
  BY WSubValue, DistanceMoves DEF Window, Idx
<1> QED
  BY <1>1 DEF Held, Distinct

\* The entries of a ring are a sequence; the i-th stands i - 1 after the first.
LEMMA EntriesSeq ==
  ASSUME NEW ring \in [Slots -> Slots], NEW from \in Idx, NEW to \in Idx
  PROVE  /\ Entries(ring, from, to) \in Seq(Slots)
         /\ Len(Entries(ring, from, to)) = WSub(to, from)
         /\ DOMAIN Entries(ring, from, to) = 1 .. WSub(to, from)
         /\ \A i \in 1 .. WSub(to, from) :
              /\ WAdd(from, i - 1) \in Window(from, to)
              /\ Entries(ring, from, to)[i] = ring[Slot(WAdd(from, i - 1))]
<1>1. WSub(to, from) \in Nat /\ WSub(to, from) \in Idx
  BY WSubValue, Sizes DEF Idx
<1>2. ASSUME NEW i \in 1 .. WSub(to, from)
      PROVE  /\ WAdd(from, i - 1) \in Idx
             /\ WSub(WAdd(from, i - 1), from) = i - 1
  <2>1. i - 1 \in 0 .. IdxMod - 1 /\ i - 1 < WSub(to, from)
    BY <1>1, Sizes DEF Idx
  <2>2. WAdd(from, i - 1) = IF from + (i - 1) < IdxMod THEN from + (i - 1) ELSE from + (i - 1) - IdxMod
    BY <2>1, SizeAssumption DEF WAdd, Idx
  <2>3. WAdd(from, i - 1) \in Idx
    BY <2>1, <2>2, Sizes DEF Idx
  <2>4. WSub(WAdd(from, i - 1), from) =
          IF WAdd(from, i - 1) >= from THEN WAdd(from, i - 1) - from
          ELSE WAdd(from, i - 1) - from + IdxMod
    BY <2>3, WSubValue
  <2> QED
    BY <2>1, <2>2, <2>3, <2>4, Sizes DEF Idx
<1>3. \A i \in 1 .. WSub(to, from) : WAdd(from, i - 1) \in Window(from, to)
  BY <1>1, <1>2, Sizes DEF Window, Idx
<1>4. \A i \in 1 .. WSub(to, from) : ring[Slot(WAdd(from, i - 1))] \in Slots
  BY <1>2, SlotType
<1> QED
  BY <1>1, <1>3, <1>4 DEF Entries

\* An entry written after the last comes last in the sequence, and one written
\* outside the window is not in it.
LEMMA EntriesGrow ==
  ASSUME NEW ring \in [Slots -> Slots], NEW ring2 \in [Slots -> Slots],
         NEW from \in Idx, NEW to \in Idx, WSub(to, from) < QSize,
         \A s \in Slots : s # Slot(to) => ring2[s] = ring[s]
  PROVE  /\ Entries(ring2, from, to) = Entries(ring, from, to)
         /\ Entries(ring2, from, WAdd(to, 1)) = Append(Entries(ring, from, to), ring2[Slot(to)])
<1> DEFINE n == WSub(to, from)
<1>1. /\ n \in Nat /\ n < IdxMod - 1 /\ WAdd(to, 1) \in Idx
      /\ WSub(WAdd(to, 1), from) = n + 1
  <2>1. n \in Idx /\ WAdd(to, 1) \in Idx
    BY WSubValue, WSuccValue
  <2>2. n < IdxMod - 1
    BY <2>1, Sizes DEF Idx
  <2> QED
    BY <2>1, <2>2, DistanceMoves DEF Idx
<1>2. \A x \in Window(from, to) : ring2[Slot(x)] = ring[Slot(x)]
  <2> TAKE x \in Window(from, to)
  <2>1. Slot(x) # Slot(to) /\ Slot(x) \in Slots
    BY NextSlotIsOutside, SlotType DEF Window
  <2> QED
    BY <2>1
<1>3. \A i \in 1 .. n : ring2[Slot(WAdd(from, i - 1))] = ring[Slot(WAdd(from, i - 1))]
  BY <1>2, EntriesSeq
<1>4. WAdd(from, n) = to
  <2>1. n = IF to >= from THEN to - from ELSE to - from + IdxMod
    BY WSubValue
  <2> QED
    BY <2>1, SizeAssumption DEF WAdd, Idx
<1>5. Entries(ring2, from, to) = Entries(ring, from, to)
  BY <1>3 DEF Entries
<1>6. /\ Entries(ring, from, to) \in Seq(Slots) /\ Len(Entries(ring, from, to)) = n
      /\ \A i \in 1 .. n : Entries(ring, from, to)[i] = ring[Slot(WAdd(from, i - 1))]
  BY EntriesSeq
<1>7. /\ Entries(ring2, from, WAdd(to, 1)) \in Seq(Slots)
      /\ Len(Entries(ring2, from, WAdd(to, 1))) = n + 1
      /\ \A i \in 1 .. n + 1 : Entries(ring2, from, WAdd(to, 1))[i] = ring2[Slot(WAdd(from, i - 1))]
  BY <1>1, EntriesSeq, SMTT(30)
<1> DEFINE E == Entries(ring, from, to)
           F == Entries(ring2, from, WAdd(to, 1))
           h == ring2[Slot(to)]
<1>8. h \in Slots
  BY SlotType
<1> HIDE DEF n
<1>9. F[n + 1] = h /\ \A i \in 1 .. n : F[i] = E[i]
  <2>1. n + 1 \in 1 .. n + 1 /\ (n + 1) - 1 = n /\ 1 .. n \subseteq 1 .. n + 1
    BY <1>1
  <2>2. F[n + 1] = h
    BY <1>4, <1>7, <2>1
  <2> QED
    BY <1>3, <1>6, <1>7, <2>1, <2>2, ZenonT(30)
<1> HIDE DEF E, F, h
<1>10. E \in Seq(Slots) /\ F \in Seq(Slots) /\ Len(E) = n /\ Len(F) = n + 1 /\ n \in Nat
  BY <1>1, <1>6, <1>7 DEF E, F
<1>11. Append(E, h) \in Seq(Slots) /\ Len(Append(E, h)) = n + 1
       /\ \A i \in 1 .. n + 1 : Append(E, h)[i] = F[i]
  <2>1. Append(E, h) \in Seq(Slots) /\ Len(Append(E, h)) = n + 1
    BY <1>8, <1>10
  <2>2. Append(E, h)[n + 1] = h
    BY <1>8, <1>10
  <2>3. \A i \in 1 .. n : Append(E, h)[i] = E[i]
    BY <1>8, <1>10
  <2> QED
    BY <1>9, <1>10, <2>1, <2>2, <2>3
<1>12. Append(E, h) = F
  BY <1>10, <1>11
<1> QED
  BY <1>5, <1>12 DEF E, F, h

\* Taking the first entry leaves the tail of the sequence.
LEMMA EntriesShrink ==
  ASSUME NEW ring \in [Slots -> Slots], NEW from \in Idx, NEW to \in Idx, to # from
  PROVE  /\ Entries(ring, from, to) # <<>>
         /\ Head(Entries(ring, from, to)) = ring[Slot(from)]
         /\ Tail(Entries(ring, from, to)) = Entries(ring, WAdd(from, 1), to)
<1> DEFINE n == WSub(to, from)
           E == Entries(ring, from, to)
           F == Entries(ring, WAdd(from, 1), to)
<1>1. /\ n \in Nat /\ n > 0 /\ n < IdxMod /\ WAdd(from, 1) \in Idx
      /\ WSub(to, WAdd(from, 1)) = n - 1
  BY WSubValue, WSuccValue, DistanceMoves, Sizes DEF Idx
<1>2. /\ E \in Seq(Slots) /\ Len(E) = n
      /\ \A i \in 1 .. n : E[i] = ring[Slot(WAdd(from, i - 1))]
  BY EntriesSeq
<1>3. /\ F \in Seq(Slots) /\ Len(F) = n - 1
      /\ \A i \in 1 .. n - 1 : F[i] = ring[Slot(WAdd(WAdd(from, 1), i - 1))]
  BY <1>1, EntriesSeq, SMTT(30)
<1>4. ASSUME NEW i \in 1 .. n - 1
      PROVE  WAdd(WAdd(from, 1), i - 1) = WAdd(from, i)
  <2>1. i \in 1 .. IdxMod - 2
    BY <1>1, Sizes
  <2>2. WAdd(from, 1) = IF from = IdxMod - 1 THEN 0 ELSE from + 1
    BY WSuccValue
  <2>3. ASSUME NEW x \in Idx, NEW k \in Idx
        PROVE  WAdd(x, k) = IF x + k < IdxMod THEN x + k ELSE x + k - IdxMod
    BY SizeAssumption DEF WAdd, Idx
  <2>4. i \in Idx /\ i - 1 \in Idx
    BY <2>1, Sizes DEF Idx
  <2> QED
    BY <1>1, <2>1, <2>2, <2>3, <2>4, Sizes DEF Idx
<1>5. WAdd(from, 0) = from
  BY SizeAssumption DEF WAdd, Idx
<1>6. E[1] = ring[Slot(from)]
  BY <1>1, <1>2, <1>5
<1> HIDE DEF E, F, n
<1>7. \A i \in 1 .. n - 1 : F[i] = E[i + 1]
  BY <1>1, <1>2, <1>3, <1>4
<1>8. E # <<>> /\ Head(E) = E[1] /\ Tail(E) \in Seq(Slots) /\ Len(Tail(E)) = n - 1
      /\ \A i \in 1 .. n - 1 : Tail(E)[i] = F[i]
  BY <1>1, <1>2, <1>7
<1>9. Tail(E) = F
  BY <1>1, <1>3, <1>8
<1> QED
  BY <1>6, <1>8, <1>9 DEF E, F

\* An entry put back comes first in the sequence.
LEMMA EntriesPutBack ==
  ASSUME NEW ring \in [Slots -> Slots], NEW from \in Idx, NEW to \in Idx, WSub(to, from) < QSize
  PROVE  Entries(ring, WSub(from, 1), to) = <<ring[Slot(WSub(from, 1))]>> \o Entries(ring, from, to)
<1> DEFINE p == WSub(from, 1)
           E == Entries(ring, p, to)
<1>1. WSub(to, from) \in Idx /\ p \in Idx /\ WAdd(p, 1) = from
  BY WSubValue, WPredValue, DistanceMoves
<1>2. WSub(to, p) = WSub(to, from) + 1
  BY <1>1, DistanceMoves, Sizes DEF Idx
<1>3. to # p
  BY <1>1, <1>2, DistanceMoves, Sizes DEF Idx
<1> HIDE DEF p
<1>4. E # <<>> /\ Head(E) = ring[Slot(p)] /\ Tail(E) = Entries(ring, from, to) /\ E \in Seq(Slots)
  BY <1>1, <1>3, EntriesShrink, EntriesSeq, ZenonT(30)
<1> HIDE DEF E
<1>5. E = <<Head(E)>> \o Tail(E)
  <2>1. <<Head(E)>> \in Seq(Slots) /\ Tail(E) \in Seq(Slots)
    BY <1>4
  <2> QED
    BY <1>4, <2>1
<1> QED
  BY <1>4, <1>5, ZenonT(30) DEF E, p
=============================================================================
