------------------------ MODULE ChainConsumerProofs ------------------------
(***************************************************************************)
(* Readers and Writers give out each byte of a chain once and in order,    *)
(* for chains, reads and splits of any number and size.                    *)
(***************************************************************************)
EXTENDS ChainConsumer, SequenceTheorems, TLAPS

\* A VolatileSlice.
Slice == [from : Nat, len : Nat]

\* Places do not go back from slice to slice.
Ascending(bs, p) ==
  \A j, k \in 0 .. Len(bs) :
    After(bs, p, j) \in Nat /\ (j <= k => After(bs, p, j) <= After(bs, p, k))

\* The slices bs are a tiling of the places from p up to q.
Sound(bs, p, q) ==
  bs \in Seq(Slice) /\ p \in Nat /\ q \in Nat /\ Tiles(bs, p, q) /\ Ascending(bs, p)

ConsumerRecord == [buffers : Seq(Slice), bytes_consumed : Nat, first : Nat, end : Nat, got : Seq(Nat)]

CallRecord == [who : Nat, count : Nat, at : Nat, bufs : Nat, num : Nat, rem : Nat]

\* A consumer of a stream of t bytes that has given out n bytes it has not counted yet,
\* m of which are no longer in its slices.
Consistent(c, n, m, t) ==
  /\ c.got = Places(c.first, c.bytes_consumed + n)
  /\ Sound(c.buffers, c.first + c.bytes_consumed + m, c.end)
  /\ c.first + c.bytes_consumed + n <= c.end /\ c.end <= t

\* Each of t places belongs to one of the consumers.
Partition(cs, t) ==
  /\ \A p \in 0 .. t - 1 : \E i \in DOMAIN cs : cs[i].first <= p /\ p < cs[i].end
  /\ \A i, j \in DOMAIN cs : i # j => cs[i].end <= cs[j].first \/ cs[j].end <= cs[i].first

\* The bytes in the first k slices of a consumer.
Passed(c, k) ==
  After(c.buffers, c.first + c.bytes_consumed, k) - (c.first + c.bytes_consumed)

\* What the locals of a call are in the middle of each loop.
Loop(label, a, c) ==
  /\ label \in {"available", "gather", "position"} => a.at <= Len(c.buffers)
  /\ label = "available" => a.num = Passed(c, a.at)
  /\ label = "gather" => a.num = Lesser(a.count, Passed(c, a.at)) /\ a.rem = a.count
  /\ label = "copy" =>
       /\ a.at <= a.bufs /\ a.bufs <= Len(c.buffers)
       /\ a.num = Lesser(a.count, Passed(c, a.at)) /\ a.rem = a.count - a.num
       /\ a.bufs = Len(c.buffers) \/ Passed(c, a.bufs) >= a.count
  /\ label = "pop" => a.num = Lesser(a.count, Left(c)) /\ a.rem <= a.num
  /\ label = "position" => a.rem = a.count - Passed(c, a.at)

\* The loops.
Calls == {"available", "gather", "copy", "pop", "position"}

\* Consumer i is not in the middle of consume.
Idle(i) == pc \notin {"copy", "pop"} \/ i # call.who

\* The inductive invariant.  In the middle of consume the bytes of one consumer are out of
\* step with its counter and its slices, by what the locals of the call say.
ConsumerInv ==
  /\ pc \in {"none", "new", "ready"} \union Calls
  /\ total_len \in Nat /\ total_len <= MaxUsize
  /\ consumers \in Seq(ConsumerRecord) /\ call \in CallRecord
  /\ pc \in {"none", "new"} => consumers = <<>>
  /\ pc = "new" => Sound(collected, 0, total_len)
  /\ pc \notin {"none", "new"} => Partition(consumers, total_len)
  /\ pc \in Calls => call.who \in DOMAIN consumers /\ Loop(pc, call, consumers[call.who])
  /\ \A i \in DOMAIN consumers : Idle(i) => Consistent(consumers[i], 0, 0, total_len)
  /\ pc = "copy" => Consistent(consumers[call.who], call.num, 0, total_len)
  /\ pc = "pop" => Consistent(consumers[call.who], call.num, call.num - call.rem, total_len)

\* What was asked for is consumed, or all there is.
AllConsumed ==
  consumers'[call.who].bytes_consumed - consumers[call.who].bytes_consumed
    = Lesser(call.count, Left(consumers[call.who]))
-----------------------------------------------------------------------------
\* Facts about tilings.

\* The place behind k + 1 slices is the place behind k slices plus a length.
LEMMA SoundStep ==
  ASSUME NEW bs, NEW p, NEW q, Sound(bs, p, q), NEW k \in Nat, k < Len(bs)
  PROVE  /\ k + 1 \in DOMAIN bs /\ bs[k + 1] \in Slice
         /\ bs[k + 1].from = After(bs, p, k)
         /\ bs[k + 1].from \in Nat /\ bs[k + 1].len \in Nat
         /\ After(bs, p, k + 1) = After(bs, p, k) + bs[k + 1].len
         /\ After(bs, p, k) \in Nat /\ After(bs, p, k + 1) \in Nat
         /\ p <= After(bs, p, k) /\ After(bs, p, k + 1) <= q
<1>1. bs \in Seq(Slice) /\ Len(bs) \in Nat /\ DOMAIN bs = 1 .. Len(bs)
  BY DEF Sound
<1>2. k + 1 \in DOMAIN bs /\ k \in 0 .. Len(bs) /\ k + 1 \in 0 .. Len(bs) /\ (k + 1) - 1 = k /\ k + 1 # 0
  BY <1>1
<1>3. bs[k + 1] \in Slice
  BY <1>1, <1>2
<1>4. bs[k + 1].from = After(bs, p, k)
  BY <1>2, Zenon DEF Sound, Tiles
<1>5. bs[k + 1].from \in Nat /\ bs[k + 1].len \in Nat
  BY <1>3 DEF Slice
<1>6. After(bs, p, k + 1) = bs[k + 1].from + bs[k + 1].len
  BY <1>2, Zenon DEF After
<1>7. /\ After(bs, p, k) \in Nat /\ p <= After(bs, p, k)
      /\ After(bs, p, k + 1) \in Nat /\ After(bs, p, k + 1) <= q
  <2>1. 0 \in 0 .. Len(bs) /\ 0 <= k /\ Len(bs) \in 0 .. Len(bs) /\ k + 1 <= Len(bs)
    BY <1>1
  <2>2. After(bs, p, 0) = p /\ After(bs, p, Len(bs)) = q
    BY Zenon DEF Sound, Tiles, After
  <2> QED
    BY <1>2, <2>1, <2>2, Zenon DEF Sound, Ascending
<1> QED
  BY <1>2, <1>3, <1>4, <1>5, <1>6, <1>7, Zenon

\* Nothing tiles nothing.
LEMMA SoundEmpty ==
  ASSUME NEW p \in Nat
  PROVE  Sound(<<>>, p, p)
<1>1. <<>> \in Seq(Slice) /\ Len(<<>>) = 0 /\ DOMAIN <<>> = {}
  OBVIOUS
<1>2. \A k \in 0 .. 0 : k = 0
  OBVIOUS
<1>3. p <= p
  OBVIOUS
<1> QED
  BY <1>1, <1>2, <1>3, Zenon DEF Sound, Ascending, Tiles, After

\* A slice behind the others.
LEMMA SoundAppend ==
  ASSUME NEW bs, NEW p, NEW q, Sound(bs, p, q), NEW n \in Nat
  PROVE  Sound(Append(bs, [from |-> q, len |-> n]), p, q + n)
<1> DEFINE vs == [from |-> q, len |-> n]
           cs == Append(bs, vs)
           l == Len(bs)
<1>1. bs \in Seq(Slice) /\ l \in Nat /\ p \in Nat /\ q \in Nat
  BY DEF Sound
<1>2. vs \in Slice /\ vs.from = q /\ vs.len = n
  BY <1>1 DEF Slice
<1> HIDE DEF vs, l
<1>3. /\ cs \in Seq(Slice) /\ Len(cs) = l + 1 /\ cs[l + 1] = vs
      /\ \A k \in 1 .. l : cs[k] = bs[k]
  BY <1>1, <1>2 DEF l
<1> HIDE DEF cs
<1>4. \A k \in 0 .. l : After(cs, p, k) = After(bs, p, k)
  <2> SUFFICES ASSUME NEW k \in 0 .. l
               PROVE  After(cs, p, k) = After(bs, p, k)
    OBVIOUS
  <2>1. k # 0 => k \in 1 .. l
    BY <1>1
  <2> QED
    BY <1>3, <2>1, Zenon DEF After
<1>5. After(cs, p, l + 1) = q + n
  <2>1. l + 1 # 0
    BY <1>1
  <2> QED
    BY <1>2, <1>3, <2>1, Zenon DEF After
<1>6. After(bs, p, l) = q
  BY Zenon DEF Sound, Tiles, l
<1>7. \A j, k \in 0 .. l : After(bs, p, j) \in Nat /\ (j <= k => After(bs, p, j) <= After(bs, p, k))
  BY Zenon DEF Sound, Ascending, l
<1>8. Tiles(cs, p, q + n)
  <2>1. DOMAIN cs = 1 .. l + 1
    BY <1>3
  <2>2. ASSUME NEW k \in 1 .. l + 1
        PROVE  cs[k].from = After(cs, p, k - 1)
    <3>1. CASE k = l + 1
      <4>1. k - 1 = l /\ l \in 0 .. l
        BY <1>1, <3>1
      <4> QED
        BY <1>2, <1>3, <1>4, <1>6, <3>1, <4>1, Zenon
    <3>2. CASE k \in 1 .. l
      <4>1. k - 1 \in 0 .. l
        BY <1>1, <3>2
      <4>2. bs[k].from = After(bs, p, k - 1)
        <5>1. DOMAIN bs = 1 .. l
          BY <1>1 DEF l
        <5> QED
          BY <3>2, <5>1, Zenon DEF Sound, Tiles
      <4> QED
        BY <1>3, <1>4, <3>2, <4>1, <4>2, Zenon
    <3> QED
      BY <1>1, <3>1, <3>2
  <2> QED
    BY <1>3, <1>5, <2>1, <2>2, Zenon DEF Tiles
<1>9. ASSUME NEW j \in 0 .. l + 1, NEW k \in 0 .. l + 1
      PROVE  After(cs, p, j) \in Nat /\ (j <= k => After(cs, p, j) <= After(cs, p, k))
  <2>1. l \in 0 .. l /\ (j = l + 1 \/ j \in 0 .. l) /\ (k = l + 1 \/ k \in 0 .. l)
        /\ (j = l + 1 /\ j <= k => k = l + 1) /\ (j \in 0 .. l => j <= l)
    BY <1>1
  <2>2. \A i \in 0 .. l : After(cs, p, i) \in Nat /\ (i <= l => After(cs, p, i) <= q)
    BY <1>4, <1>6, <1>7, <2>1, Zenon
  <2>3. CASE j = l + 1
    BY <1>1, <1>5, <2>1, <2>3
  <2>4. CASE j \in 0 .. l /\ k = l + 1
    BY <1>1, <1>5, <2>1, <2>2, <2>4
  <2>5. CASE j \in 0 .. l /\ k \in 0 .. l
    BY <1>4, <1>7, <2>5, Zenon
  <2> QED
    BY <2>1, <2>3, <2>4, <2>5, Zenon
<1>10. q + n \in Nat
  BY <1>1
<1> QED
  BY <1>1, <1>3, <1>8, <1>9, <1>10, Zenon DEF Sound, Ascending, cs, vs

\* The first k slices.
LEMMA SoundPrefix ==
  ASSUME NEW bs, NEW p, NEW q, Sound(bs, p, q), NEW k \in Nat, k <= Len(bs)
  PROVE  Sound(SubSeq(bs, 1, k), p, After(bs, p, k))
<1> DEFINE cs == SubSeq(bs, 1, k)
           l == Len(bs)
<1>1. bs \in Seq(Slice) /\ l \in Nat /\ p \in Nat /\ q \in Nat /\ DOMAIN bs = 1 .. l /\ k <= l
  BY DEF Sound
<1>2. /\ cs \in Seq(Slice) /\ Len(cs) = k /\ DOMAIN cs = 1 .. k
      /\ \A j \in 1 .. k : cs[j] = bs[j]
  BY <1>1
<1> HIDE DEF cs, l
<1>3. \A j \in 0 .. k : After(cs, p, j) = After(bs, p, j)
  <2> SUFFICES ASSUME NEW j \in 0 .. k
               PROVE  After(cs, p, j) = After(bs, p, j)
    OBVIOUS
  <2>1. j # 0 => j \in 1 .. k
    OBVIOUS
  <2> QED
    BY <1>2, <2>1, Zenon DEF After
<1>4. ASSUME NEW j \in 1 .. k
      PROVE  cs[j].from = After(cs, p, j - 1)
  <2>1. j - 1 \in 0 .. k /\ j \in DOMAIN bs
    BY <1>1
  <2>2. bs[j].from = After(bs, p, j - 1)
    BY <2>1, Zenon DEF Sound, Tiles
  <2> QED
    BY <1>2, <1>3, <2>1, <2>2, Zenon
<1>5. k \in 0 .. l /\ \A j \in 0 .. k : j \in 0 .. l
  BY <1>1
<1>6. Ascending(cs, p) /\ After(bs, p, k) \in Nat
  BY <1>2, <1>3, <1>5, Zenon DEF Sound, Ascending, l
<1>7. k \in 0 .. k
  OBVIOUS
<1>8. Tiles(cs, p, After(bs, p, k))
  BY <1>2, <1>3, <1>4, <1>7, Zenon DEF Tiles
<1> QED
  BY <1>1, <1>2, <1>6, <1>8, Zenon DEF Sound, cs

\* The slices behind the first k, without the first n bytes.
LEMMA SoundRest ==
  ASSUME NEW bs, NEW p, NEW q, Sound(bs, p, q), NEW k \in Nat, k < Len(bs),
         NEW n \in Nat, n <= bs[k + 1].len,
         NEW cs \in Seq(Slice), Len(cs) = Len(bs) - k, cs[1] = Offset(bs[k + 1], n),
         \A j \in 2 .. Len(cs) : cs[j] = bs[k + j]
  PROVE  Sound(cs, After(bs, p, k) + n, q)
<1> DEFINE l == Len(bs)
           m == Len(cs)
           a == After(bs, p, k)
<1>1. l \in Nat /\ DOMAIN bs = 1 .. l /\ k < l /\ m = l - k /\ m \in Nat /\ m >= 1 /\ DOMAIN cs = 1 .. m
      /\ p \in Nat /\ q \in Nat
  BY DEF Sound
<1>2. /\ bs[k + 1].from = a /\ bs[k + 1].len \in Nat
      /\ After(bs, p, k + 1) = a + bs[k + 1].len /\ a \in Nat
  BY SoundStep
<1>3. cs[1].from = a + n /\ cs[1].len = bs[k + 1].len - n
  BY <1>2 DEF Offset
<1> HIDE DEF l, m, a
<1>4. \A j \in 1 .. m : After(cs, a + n, j) = After(bs, p, k + j)
  <2> SUFFICES ASSUME NEW j \in 1 .. m
               PROVE  After(cs, a + n, j) = After(bs, p, k + j)
    OBVIOUS
  <2>1. j # 0 /\ k + j # 0 /\ (j # 1 => j \in 2 .. m)
    BY <1>1
  <2>2. CASE j = 1
    <3>1. After(cs, a + n, 1) = cs[1].from + cs[1].len
      BY <2>1, <2>2, Zenon DEF After
    <3>2. cs[1].from + cs[1].len = a + bs[k + 1].len
      BY <1>2, <1>3
    <3> QED
      BY <1>2, <2>2, <3>1, <3>2, Zenon
  <2>3. CASE j \in 2 .. m
    BY <2>1, <2>3, Zenon DEF After, m
  <2> QED
    BY <2>1, <2>2, <2>3
<1>5. After(cs, a + n, 0) = a + n
  BY Zenon DEF After
<1>6. Tiles(cs, a + n, q)
  <2>1. ASSUME NEW j \in 1 .. m
        PROVE  cs[j].from = After(cs, a + n, j - 1)
    <3>1. CASE j = 1
      BY <1>3, <1>5, <3>1
    <3>2. CASE j \in 2 .. m
      <4>1. j - 1 \in 1 .. m /\ k + j \in 1 .. l /\ (k + j) - 1 = k + (j - 1)
        BY <1>1, <3>2
      <4>2. bs[k + j].from = After(bs, p, k + (j - 1))
        BY <1>1, <4>1, Zenon DEF Sound, Tiles, l
      <4> QED
        BY <1>4, <3>2, <4>1, <4>2, Zenon DEF m
    <3> QED
      BY <1>1, <3>1, <3>2
  <2>2. m \in 1 .. m /\ k + m = l /\ m # 0
    BY <1>1
  <2>3. After(bs, p, l) = q
    BY Zenon DEF Sound, Tiles, l
  <2> QED
    BY <1>1, <1>4, <2>1, <2>2, <2>3, Zenon DEF Tiles, m
<1>7. Ascending(cs, a + n)
  <2>1. \A i, j \in 0 .. l : After(bs, p, i) \in Nat /\ (i <= j => After(bs, p, i) <= After(bs, p, j))
    BY Zenon DEF Sound, Ascending, l
  <2>2. a + n <= After(bs, p, k + 1) /\ a + n \in Nat
    BY <1>2
  <2> SUFFICES ASSUME NEW i \in 0 .. m, NEW j \in 0 .. m
               PROVE  After(cs, a + n, i) \in Nat /\ (i <= j => After(cs, a + n, i) <= After(cs, a + n, j))
    BY Zenon DEF Ascending, m
  <2>3. CASE i \in 1 .. m /\ j \in 1 .. m
    <3>1. k + i \in 0 .. l /\ k + j \in 0 .. l /\ (i <= j => k + i <= k + j)
      BY <1>1, <2>3
    <3> QED
      BY <1>4, <2>1, <2>3, <3>1, Zenon
  <2>4. CASE i = 0 /\ j = 0
    BY <1>5, <2>2, <2>4
  <2>5. CASE i = 0 /\ j \in 1 .. m
    <3>1. k + 1 \in 0 .. l /\ k + j \in 0 .. l /\ k + 1 <= k + j
      BY <1>1, <2>5
    <3>2. /\ After(bs, p, k + 1) <= After(bs, p, k + j) /\ After(bs, p, k + 1) \in Nat
          /\ After(bs, p, k + j) \in Nat
      BY <2>1, <3>1, Zenon
    <3>3. After(cs, a + n, j) = After(bs, p, k + j)
      BY <1>4, <2>5, Zenon
    <3> QED
      BY <1>5, <2>2, <2>5, <3>2, <3>3
  <2>6. CASE i \in 1 .. m /\ j = 0
    <3>1. k + i \in 0 .. l /\ ~(i <= j)
      BY <1>1, <2>6
    <3> QED
      BY <1>4, <2>1, <2>6, <3>1, Zenon
  <2> QED
    BY <1>1, <2>3, <2>4, <2>5, <2>6
<1>8. a + n \in Nat
  BY <1>2
<1> QED
  BY <1>1, <1>6, <1>7, <1>8, Zenon DEF Sound, a

\* What another consumer, or the same one after a read, has: a slice that is cut and
\* the ones behind it.
LEMMA SoundCut ==
  ASSUME NEW bs, NEW p, NEW q, Sound(bs, p, q), NEW k \in Nat, k < Len(bs),
         NEW n \in Nat, n <= bs[k + 1].len
  PROVE  Sound(<<Offset(bs[k + 1], n)>> \o SubSeq(bs, k + 2, Len(bs)), After(bs, p, k) + n, q)
<1> DEFINE vs == Offset(bs[k + 1], n)
           l == Len(bs)
           ts == SubSeq(bs, k + 2, l)
           cs == <<vs>> \o ts
<1>1. bs \in Seq(Slice) /\ l \in Nat /\ k < l
  BY DEF Sound
<1>2. bs[k + 1].from \in Nat /\ bs[k + 1].len \in Nat
  BY SoundStep
<1>3. vs \in Slice
  BY <1>2 DEF Offset, Slice
<1> HIDE DEF vs
<1>4. ts \in Seq(Slice) /\ Len(ts) = l - k - 1 /\ \A j \in 1 .. l - k - 1 : ts[j] = bs[k + 1 + j]
  BY <1>1, SubSeqProperties
<1> HIDE DEF ts, l
<1>5. <<vs>> \in Seq(Slice) /\ Len(<<vs>>) = 1 /\ <<vs>>[1] = vs
  BY <1>3
<1>6. /\ cs \in Seq(Slice) /\ Len(cs) = 1 + Len(ts)
      /\ \A i \in 1 .. 1 + Len(ts) : cs[i] = IF i <= 1 THEN <<vs>>[i] ELSE ts[i - 1]
  BY <1>4, <1>5, ConcatProperties, ZenonT(30)
<1> HIDE DEF cs
<1>7. Len(cs) = l - k /\ cs[1] = vs
  BY <1>1, <1>4, <1>5, <1>6
<1>8. ASSUME NEW j \in 2 .. Len(cs)
      PROVE  cs[j] = bs[k + j]
  <2>1. /\ j \in 1 .. 1 + Len(ts) /\ ~(j <= 1) /\ j - 1 \in 1 .. l - k - 1
        /\ k + 1 + (j - 1) = k + j
    BY <1>1, <1>4, <1>7
  <2> QED
    BY <1>4, <1>6, <2>1, Zenon
<1> QED
  BY <1>6, <1>7, <1>8, SoundRest, Zenon DEF cs, ts, vs, l

\* The slices after pop_front.
LEMMA SoundTail ==
  ASSUME NEW bs, NEW p, NEW q, Sound(bs, p, q), bs # <<>>
  PROVE  /\ Len(bs) >= 1 /\ Head(bs) = bs[1] /\ bs[1].len \in Nat /\ p + bs[1].len <= q
         /\ Sound(Tail(bs), p + bs[1].len, q)
         /\ Tail(bs) = SubSeq(bs, 2, Len(bs))
<1> DEFINE l == Len(bs)
           cs == Tail(bs)
<1>1. bs \in Seq(Slice) /\ l \in Nat /\ l >= 1 /\ 0 < l /\ Head(bs) = bs[1] /\ p \in Nat /\ q \in Nat
  BY DEF Sound
<1>2. cs \in Seq(Slice) /\ Len(cs) = l - 1 /\ \A j \in 1 .. l - 1 : cs[j] = bs[j + 1]
  BY <1>1
<1>3. /\ 0 + 1 = 1 /\ After(bs, p, 0) = p
  BY DEF After
<1>4. bs[1].len \in Nat /\ p + bs[1].len = After(bs, p, 1) /\ After(bs, p, 1) <= q
  BY <1>1, <1>3, SoundStep
<1> HIDE DEF cs, l
<1>5. Sound(cs, p + bs[1].len, q)
  <2>1. CASE l = 1
    <3>1. cs = <<>>
      BY <1>2, <2>1
    <3>2. p + bs[1].len = q
      BY <1>4, <2>1, Zenon DEF Sound, Tiles, l
    <3> QED
      BY <1>1, <3>1, <3>2, SoundEmpty, Zenon
  <2>2. CASE l > 1
    <3>1. /\ bs[2] \in Slice /\ bs[2].from \in Nat /\ bs[2].len \in Nat
      BY <1>1, <2>2, SoundStep, 1 + 1 = 2 DEF l
    <3>2. cs[1] = Offset(bs[2], 0)
      <4>1. cs[1] = bs[2]
        BY <1>1, <1>2, <2>2
      <4>2. bs[2] = [from |-> bs[2].from, len |-> bs[2].len]
        BY <3>1 DEF Slice
      <4>3. bs[2].from + 0 = bs[2].from /\ bs[2].len - 0 = bs[2].len
        BY <3>1
      <4> QED
        BY <4>1, <4>2, <4>3, Zenon DEF Offset
    <3>3. \A j \in 2 .. Len(cs) : cs[j] = bs[1 + j]
      BY <1>1, <1>2
    <3>4. Sound(cs, After(bs, p, 1) + 0, q)
      <4>1. /\ 1 + 1 = 2 /\ 1 \in Nat /\ 0 \in Nat /\ 1 < Len(bs) /\ Len(cs) = Len(bs) - 1
            /\ 0 <= bs[2].len
        BY <1>1, <1>2, <2>2, <3>1 DEF l
      <4> QED
        BY <1>2, <3>2, <3>3, <4>1, SoundRest, Zenon
    <3> QED
      BY <1>1, <1>4, <3>4
  <2> QED
    BY <1>1, <2>1, <2>2
<1>6. cs = SubSeq(bs, 2, l)
  BY <1>1 DEF cs, l
<1> QED
  BY <1>1, <1>4, <1>5, <1>6 DEF cs, l

\* What self keeps when a slice is cut after r bytes.
LEMMA SoundKept ==
  ASSUME NEW bs, NEW p, NEW q, Sound(bs, p, q), NEW k \in Nat, k < Len(bs), NEW r \in Nat
  PROVE  Sound(SubSeq(bs, 1, k) \o <<[from |-> bs[k + 1].from, len |-> r]>>, p, After(bs, p, k) + r)
<1> DEFINE vs == [from |-> bs[k + 1].from, len |-> r]
           cs == SubSeq(bs, 1, k)
<1>1. bs[k + 1].from = After(bs, p, k)
  BY SoundStep
<1>2. Len(bs) \in Nat
  BY DEF Sound
<1>3. Sound(cs, p, After(bs, p, k))
  BY <1>2, SoundPrefix
<1>4. Sound(Append(cs, vs), p, After(bs, p, k) + r)
  BY <1>1, <1>3, SoundAppend
<1>5. cs \in Seq(Slice) /\ vs \in Slice
  BY <1>1, <1>3, SoundStep DEF Sound, Slice
<1> HIDE DEF cs, vs
<1>6. Append(cs, vs) = cs \o <<vs>>
  BY <1>5, AppendIsConcat
<1> QED
  BY <1>4, <1>6, Zenon DEF cs, vs

\* The places of one copy after those of another.
LEMMA PlacesConcat ==
  ASSUME NEW f \in Nat, NEW a \in Nat, NEW n \in Nat
  PROVE  /\ Places(f, a) \in Seq(Nat)
         /\ Places(f, a) \o Places(f + a, n) = Places(f, a + n)
<1> DEFINE s == Places(f, a)
           t == Places(f + a, n)
           u == Places(f, a + n)
<1>1. /\ s \in Seq(Nat) /\ Len(s) = a /\ \A k \in 1 .. a : s[k] = f + k - 1
      /\ t \in Seq(Nat) /\ Len(t) = n /\ \A k \in 1 .. n : t[k] = f + a + k - 1
      /\ u \in Seq(Nat) /\ Len(u) = a + n /\ \A k \in 1 .. a + n : u[k] = f + k - 1
  BY DEF Places
<1> HIDE DEF s, t, u
<1>2. /\ s \o t \in Seq(Nat) /\ Len(s \o t) = a + n
      /\ \A k \in 1 .. a + n : (s \o t)[k] = IF k <= a THEN s[k] ELSE t[k - a]
  BY <1>1, ConcatProperties, ZenonT(30)
<1>3. ASSUME NEW k \in 1 .. a + n
      PROVE  (s \o t)[k] = u[k]
  <2>1. CASE k <= a
    BY <1>1, <1>2, <2>1
  <2>2. CASE ~(k <= a)
    <3>1. k - a \in 1 .. n /\ f + a + (k - a) - 1 = f + k - 1
      BY <2>2
    <3> QED
      BY <1>1, <1>2, <2>2, <3>1
  <2> QED
    BY <2>1, <2>2, Zenon
<1>4. s \o t = u
  BY <1>1, <1>2, <1>3, SeqEqual, Zenon
<1> QED
  BY <1>1, <1>4 DEF s, t, u

\* The fields of a consumer and of a call.
LEMMA Fields ==
  /\ \A c \in ConsumerRecord :
       /\ c.buffers \in Seq(Slice) /\ c.bytes_consumed \in Nat /\ c.first \in Nat
       /\ c.end \in Nat /\ c.got \in Seq(Nat) /\ Len(c.buffers) \in Nat
  /\ \A a \in CallRecord :
       /\ a.who \in Nat /\ a.count \in Nat /\ a.at \in Nat /\ a.bufs \in Nat
       /\ a.num \in Nat /\ a.rem \in Nat
  BY DEF ConsumerRecord, CallRecord

\* The loops over the slices: the bytes passed grow by the length of each of them.
LEMMA PassedStep ==
  ASSUME NEW c \in ConsumerRecord, Sound(c.buffers, c.first + c.bytes_consumed, c.end),
         NEW k \in Nat
  PROVE  /\ Passed(c, 0) = 0 /\ Passed(c, Len(c.buffers)) = Left(c) /\ Left(c) \in Nat
         /\ k <= Len(c.buffers) => Passed(c, k) \in Nat /\ Passed(c, k) <= Left(c)
         /\ k < Len(c.buffers) =>
              /\ c.buffers[k + 1].len \in Nat /\ k + 1 <= Len(c.buffers)
              /\ c.buffers[k + 1].from = c.first + c.bytes_consumed + Passed(c, k)
              /\ Passed(c, k + 1) = Passed(c, k) + c.buffers[k + 1].len
<1> DEFINE bs == c.buffers
           p == c.first + c.bytes_consumed
           l == Len(bs)
           q == c.end
<1>1. p \in Nat /\ q \in Nat /\ l \in Nat /\ Sound(bs, p, q)
  BY Fields
<1>2. Passed(c, 0) = p - p /\ \A j : Passed(c, j) = After(bs, p, j) - p
  BY Zenon DEF Passed, After
<1>3. Left(c) = q - p
  BY DEF Left
<1> HIDE DEF bs, p, l, q
<1>4. After(bs, p, l) = q /\ After(bs, p, 0) = p
  BY <1>1, Zenon DEF Sound, Tiles, l, After
<1>5. \A i, j \in 0 .. l : After(bs, p, i) \in Nat /\ (i <= j => After(bs, p, i) <= After(bs, p, j))
  BY <1>1, Zenon DEF Sound, Ascending, l
<1>6. 0 \in 0 .. l /\ l \in 0 .. l /\ 0 <= l
  BY <1>1
<1>7. p <= q
  BY <1>4, <1>5, <1>6, Zenon
<1>8. ASSUME k <= l
      PROVE  Passed(c, k) \in Nat /\ Passed(c, k) <= Left(c)
  <2>1. k \in 0 .. l /\ 0 <= k
    BY <1>1, <1>8
  <2>2. After(bs, p, k) \in Nat /\ After(bs, p, k) <= q /\ p <= After(bs, p, k)
    BY <1>4, <1>5, <1>6, <1>8, <2>1, Zenon
  <2>3. Passed(c, k) = After(bs, p, k) - p
    BY <1>2, Zenon
  <2> QED
    BY <1>1, <1>3, <2>2, <2>3
<1>9. ASSUME k < l
      PROVE  /\ bs[k + 1].len \in Nat /\ k + 1 <= l
             /\ bs[k + 1].from = p + Passed(c, k)
             /\ Passed(c, k + 1) = Passed(c, k) + bs[k + 1].len
  <2>1. /\ bs[k + 1].len \in Nat /\ bs[k + 1].from = After(bs, p, k)
        /\ After(bs, p, k) \in Nat /\ After(bs, p, k + 1) = After(bs, p, k) + bs[k + 1].len
    BY <1>1, <1>9, SoundStep DEF l
  <2>2. Passed(c, k) = After(bs, p, k) - p /\ Passed(c, k + 1) = After(bs, p, k + 1) - p
    BY <1>2, Zenon
  <2>3. k + 1 <= l
    BY <1>1, <1>9
  <2> HIDE DEF Passed
  <2> QED
    BY <1>1, <2>1, <2>2, <2>3
<1>10. Passed(c, 0) = 0 /\ Passed(c, l) = Left(c) /\ Left(c) \in Nat
  BY <1>1, <1>2, <1>3, <1>4, <1>7
<1> QED
  BY <1>8, <1>9, <1>10 DEF bs, p, l, q
-----------------------------------------------------------------------------
\* The steps.

\* At first there is nothing, and new starts with nothing.
LEMMA StartsEmpty ==
  /\ ConsumerInit => ConsumerInv
  /\ ConsumerInv /\ (\E w \in BOOLEAN : StartNew(w)) => ConsumerInv'
<1>1. /\ <<>> \in Seq(ConsumerRecord) /\ DOMAIN <<>> = {} /\ NoCall \in CallRecord
      /\ 0 <= MaxUsize /\ 0 \in Nat
  BY ConsumerAssumption DEF NoCall, CallRecord
<1>2. Sound(<<>>, 0, 0)
  BY <1>1, SoundEmpty, Zenon
<1>3. ConsumerInit => ConsumerInv
  BY <1>1 DEF ConsumerInit, ConsumerInv, Calls
<1>4. ASSUME ConsumerInv, NEW w \in BOOLEAN, StartNew(w)
      PROVE  ConsumerInv'
  <2>1. /\ pc = "none" /\ pc' = "new" /\ total_len' = 0 /\ collected' = <<>>
        /\ consumers = <<>> /\ consumers' = <<>> /\ call' = call /\ call \in CallRecord
    BY <1>4 DEF StartNew, ConsumerInv
  <2> QED
    BY <1>1, <1>2, <2>1 DEF ConsumerInv, Calls
<1> QED
  BY <1>3, <1>4

\* Reader::new and Writer::new collect slices that tile the stream.
LEMMA CollectStep ==
  ASSUME ConsumerInv, NEW d \in DataDescriptor, Collect(d)
  PROVE  ConsumerInv'
<1>1. /\ pc = "new" /\ consumers = <<>> /\ Sound(collected, 0, total_len) /\ total_len \in Nat
      /\ total_len <= MaxUsize /\ call \in CallRecord /\ consumers' = <<>> /\ call' = call
  BY DEF Collect, ConsumerInv
<1>2. d.len \in Nat /\ MaxUsize \in Nat
  BY ConsumerAssumption DEF DataDescriptor
<1>3. <<>> \in Seq(ConsumerRecord) /\ DOMAIN <<>> = {}
  OBVIOUS
<1>4. CASE total_len + d.len > MaxUsize \/ ~d.mapped
  <2>1. pc' = "none" /\ total_len' = total_len
    BY <1>4 DEF Collect
  <2> QED
    BY <1>1, <1>3, <2>1 DEF ConsumerInv, Calls
<1>5. CASE ~(total_len + d.len > MaxUsize \/ ~d.mapped)
  <2>1. /\ pc' = "new" /\ total_len' = total_len + d.len
        /\ collected' = Append(collected, [from |-> total_len, len |-> d.len])
    BY <1>1, <1>5 DEF Collect
  <2>2. Sound(collected', 0, total_len')
    BY <1>1, <1>2, <2>1, SoundAppend
  <2>3. total_len' \in Nat /\ total_len' <= MaxUsize
    BY <1>1, <1>2, <1>5, <2>1
  <2> QED
    BY <1>1, <1>3, <2>1, <2>2, <2>3 DEF ConsumerInv, Calls
<1> QED
  BY <1>4, <1>5

\* The first consumer is for all of the stream.
LEMMA EndNewStep ==
  ASSUME ConsumerInv, EndNew
  PROVE  ConsumerInv'
<1> DEFINE c == Consumer(collected, 0, total_len)
           cs == <<c>>
<1>1. /\ pc' = "ready" /\ consumers' = cs /\ total_len' = total_len /\ call' = call
      /\ Sound(collected, 0, total_len) /\ total_len \in Nat /\ total_len <= MaxUsize
      /\ call \in CallRecord
  BY DEF EndNew, ConsumerInv
<1>2. /\ c.buffers = collected /\ c.bytes_consumed = 0 /\ c.first = 0 /\ c.end = total_len
      /\ c.got = <<>> /\ c \in ConsumerRecord
  BY <1>1 DEF Consumer, ConsumerRecord, Sound
<1> HIDE DEF c
<1>3. cs \in Seq(ConsumerRecord) /\ DOMAIN cs = {1} /\ cs[1] = c
  BY <1>2
<1>4. Places(0, 0) = <<>>
  BY DEF Places
<1>5. Consistent(c, 0, 0, total_len)
  <2>1. 0 + 0 = 0 /\ 0 + 0 + 0 = 0 /\ 0 <= total_len /\ total_len <= total_len
    BY <1>1
  <2> QED
    BY <1>1, <1>2, <1>4, <2>1, Zenon DEF Consistent
<1>6. Partition(cs, total_len)
  <2> HIDE DEF cs
  <2> QED
    BY <1>1, <1>2, <1>3 DEF Partition
<1> HIDE DEF cs
<1>7. \A i \in DOMAIN consumers' : Idle(i)' => Consistent(consumers'[i], 0, 0, total_len')
  BY <1>1, <1>3, <1>5, Zenon
<1>8. pc' \notin Calls /\ pc' \notin {"none", "new"} /\ pc' # "copy" /\ pc' # "pop" /\ pc' # "new"
      /\ pc' \in {"none", "new", "ready"}
  BY <1>1 DEF Calls
<1> QED
  BY <1>1, <1>3, <1>6, <1>7, <1>8, Zenon DEF ConsumerInv

\* A call begins.
LEMMA StartStep ==
  ASSUME ConsumerInv, NEW label \in {"available", "gather", "position"},
         NEW i \in DOMAIN consumers, NEW n \in Nat, Start(label, i, n)
  PROVE  ConsumerInv'
<1> DEFINE c == consumers[i]
<1>1. /\ pc = "ready" /\ pc' = label /\ UNCHANGED <<total_len, consumers>>
      /\ consumers \in Seq(ConsumerRecord)
      /\ Partition(consumers, total_len) /\ total_len \in Nat /\ total_len <= MaxUsize
      /\ \A j \in DOMAIN consumers : Consistent(consumers[j], 0, 0, total_len)
  BY DEF Start, ConsumerInv, Idle
<1>2. /\ call' \in CallRecord /\ call'.who = i /\ call'.count = n /\ call'.rem = n
      /\ call'.at = 0 /\ call'.num = 0
  <2>1. i \in Nat
    BY <1>1
  <2>2. call' = [who |-> i, count |-> n, at |-> 0, bufs |-> 0, num |-> 0, rem |-> n]
    BY Zenon DEF Start, NoCall
  <2> QED
    BY <2>1, <2>2 DEF CallRecord
<1>3. c \in ConsumerRecord
  BY <1>1
<1>4. Sound(c.buffers, c.first + c.bytes_consumed, c.end)
  <2>1. c.first + c.bytes_consumed + 0 = c.first + c.bytes_consumed
    BY <1>3, Fields
  <2> QED
    BY <1>1, <2>1, Zenon DEF Consistent
<1>5. Passed(c, 0) = 0 /\ 0 <= Len(c.buffers)
  BY <1>3, <1>4, PassedStep, Fields
<1>6. Loop(label, call', c)
  <2>1. Lesser(n, 0) = 0 /\ n - 0 = n
    BY DEF Lesser
  <2>2. label # "copy" /\ label # "pop"
    OBVIOUS
  <2> HIDE DEF c
  <2> QED
    BY <1>2, <1>5, <2>1, <2>2, Zenon DEF Loop
<1>7. /\ label \in Calls /\ label \notin {"none", "new"} /\ label # "copy" /\ label # "pop" /\ label # "new"
  BY DEF Calls
<1> QED
  BY <1>1, <1>2, <1>6, <1>7, Zenon DEF ConsumerInv

\* The consumer whose call runs.
LEMMA Running ==
  ASSUME ConsumerInv, pc \in Calls
  PROVE  /\ call.who \in DOMAIN consumers /\ consumers[call.who] \in ConsumerRecord
         /\ Loop(pc, call, consumers[call.who])
         /\ pc # "pop" =>
              Sound(Buffers, consumers[call.who].first + consumers[call.who].bytes_consumed,
                    consumers[call.who].end)
<1> DEFINE c == consumers[call.who]
           p == c.first + c.bytes_consumed
<1>1. call.who \in DOMAIN consumers /\ Loop(pc, call, c) /\ consumers \in Seq(ConsumerRecord)
  BY Zenon DEF ConsumerInv
<1>2. c \in ConsumerRecord
  BY <1>1
<1>3. p + 0 = p
  BY <1>2, Fields
<1>4. pc # "pop" => \E n : Consistent(c, n, 0, total_len)
  <2>1. pc = "copy" \/ pc = "pop" \/ pc \notin {"copy", "pop"}
    OBVIOUS
  <2> QED
    BY <1>1, <2>1, Zenon DEF ConsumerInv, Idle
<1>5. pc # "pop" => Sound(c.buffers, p, c.end)
  BY <1>3, <1>4, Zenon DEF Consistent
<1> QED
  BY <1>1, <1>2, <1>5, Zenon DEF Buffers

\* A call that has changed nothing returns.
LEMMA ReturnStep ==
  ASSUME ConsumerInv, pc \in {"available", "gather", "position"}, Return,
         UNCHANGED <<total_len, consumers>>
  PROVE  ConsumerInv'
<1>1. pc' = "ready" /\ call' \in CallRecord
  BY DEF Return, NoCall, CallRecord
<1>2. /\ pc' \notin Calls /\ pc' \notin {"none", "new"} /\ pc' # "new" /\ pc' # "copy" /\ pc' # "pop"
      /\ pc' \in {"none", "new", "ready"}
      /\ pc \notin {"none", "new"} /\ pc \notin {"copy", "pop"}
  BY <1>1 DEF Calls
<1> QED
  BY <1>1, <1>2, Zenon DEF ConsumerInv, Idle

\* A loop that changes nothing but locals goes on.
LEMMA TurnStep ==
  ASSUME ConsumerInv, pc \in {"available", "gather", "position"}, UNCHANGED <<pc, total_len, consumers>>,
         call' \in CallRecord, call'.who = call.who, Loop(pc, call', consumers[call.who])
  PROVE  ConsumerInv'
<1>1. /\ pc \notin {"none", "new"} /\ pc # "new" /\ pc # "copy" /\ pc # "pop" /\ pc \in Calls
  BY DEF Calls
<1>2. call.who \in DOMAIN consumers
  BY <1>1, Zenon DEF ConsumerInv
<1> QED
  BY <1>1, <1>2, Zenon DEF ConsumerInv, Idle

\* available_bytes has added up the slices it has passed.
LEMMA CountAvailableStep ==
  ASSUME ConsumerInv, CountAvailable
  PROVE  ConsumerInv'
<1> DEFINE c == consumers[call.who]
           k == call.at
<1>1. pc = "available" /\ UNCHANGED <<total_len, consumers>> /\ pc \in Calls /\ call \in CallRecord
  BY DEF CountAvailable, ConsumerInv, Calls
<1>2. /\ c \in ConsumerRecord /\ Sound(c.buffers, c.first + c.bytes_consumed, c.end)
      /\ k <= Len(c.buffers) /\ call.num = Passed(c, k)
  BY <1>1, Running DEF Loop, Buffers
<1>3. CASE call.at < Len(Buffers)
  <2> DEFINE m == call.num + c.buffers[k + 1].len
  <2>1. pc' = pc /\ call' = [call EXCEPT !.at = k + 1, !.num = m]
    BY <1>1, <1>3 DEF CountAvailable, Buffers
  <2>2. k \in Nat /\ call.num \in Nat
    BY <1>1, Fields
  <2>3. /\ c.buffers[k + 1].len \in Nat /\ k + 1 <= Len(c.buffers)
        /\ Passed(c, k + 1) = Passed(c, k) + c.buffers[k + 1].len
    BY <1>2, <1>3, <2>2, PassedStep, Zenon DEF Buffers
  <2>4. /\ call' \in CallRecord /\ call'.who = call.who /\ call'.at = k + 1 /\ call'.num = m
    <3>1. m \in Nat /\ k + 1 \in Nat
      BY <2>2, <2>3
    <3> HIDE DEF m, k
    <3> QED
      BY <1>1, <2>1, <3>1, Zenon DEF CallRecord
  <2>5. Loop(pc, call', c)
    <3> HIDE DEF c, k
    <3>1. /\ pc # "gather" /\ pc # "copy" /\ pc # "pop" /\ pc # "position"
      BY <1>1
    <3> QED
      BY <1>2, <2>3, <2>4, <3>1, Zenon DEF Loop
  <2> QED
    BY <1>1, <2>1, <2>4, <2>5, TurnStep
<1>4. CASE ~(call.at < Len(Buffers))
  <2>1. Return
    BY <1>4 DEF CountAvailable
  <2> QED
    BY <1>1, <2>1, ReturnStep
<1> QED
  BY <1>3, <1>4

\* consume has gathered slices up to the count.
LEMMA GatherStep ==
  ASSUME ConsumerInv, Gather
  PROVE  ConsumerInv' /\ (pc' = "ready" => AllConsumed)
<1> DEFINE c == consumers[call.who]
           k == call.at
           l == Len(c.buffers)
           n == call.count
<1>1. pc = "gather" /\ UNCHANGED <<total_len, consumers>> /\ pc \in Calls /\ call \in CallRecord
  BY DEF Gather, ConsumerInv, Calls
<1>2. /\ c \in ConsumerRecord /\ Sound(c.buffers, c.first + c.bytes_consumed, c.end)
      /\ k <= l /\ call.num = Lesser(n, Passed(c, k)) /\ call.rem = n /\ call.who \in DOMAIN consumers
  BY <1>1, Running DEF Loop, Buffers
<1>3. k \in Nat /\ n \in Nat /\ call.num \in Nat /\ l \in Nat
  BY <1>1, <1>2, Fields
<1>4. /\ Passed(c, 0) = 0 /\ Passed(c, k) \in Nat
      /\ k < l => /\ c.buffers[k + 1].len \in Nat /\ k + 1 <= l
                  /\ Passed(c, k + 1) = Passed(c, k) + c.buffers[k + 1].len
      /\ Passed(c, l) = Left(c) /\ Left(c) \in Nat
  BY <1>2, <1>3, PassedStep, Zenon
<1>5. CASE k < l /\ call.num < n
  <2> DEFINE m == call.num + Lesser(n - call.num, c.buffers[k + 1].len)
  <2>1. pc' = pc /\ call' = [call EXCEPT !.at = k + 1, !.num = m]
    BY <1>1, <1>5 DEF Gather, Buffers
  <2>2. m \in Nat /\ m = Lesser(n, Passed(c, k + 1))
    <3> HIDE DEF c, k, l, n
    <3> QED
      BY <1>2, <1>3, <1>4, <1>5 DEF Lesser
  <2>3. /\ call' \in CallRecord /\ call'.who = call.who /\ call'.at = k + 1 /\ call'.num = m
        /\ call'.rem = call.rem /\ call'.count = call.count
    <3>1. k + 1 \in Nat
      BY <1>3
    <3> HIDE DEF m, k
    <3> QED
      BY <1>1, <2>1, <2>2, <3>1, Zenon DEF CallRecord
  <2>4. Loop(pc, call', c)
    <3> HIDE DEF c, k, m
    <3>1. /\ pc # "available" /\ pc # "copy" /\ pc # "pop" /\ pc # "position"
      BY <1>1
    <3> QED
      BY <1>2, <1>4, <1>5, <2>2, <2>3, <3>1, Zenon DEF Loop, n, l
  <2>5. pc' # "ready"
    BY <1>1, <2>1
  <2> QED
    BY <1>1, <2>1, <2>3, <2>4, <2>5, TurnStep
<1>6. CASE ~(k < l /\ call.num < n) /\ k = 0
  <2>1. Return
    BY <1>6 DEF Gather, Buffers
  <2>2. ConsumerInv'
    BY <1>1, <2>1, ReturnStep
  <2>3. Lesser(n, Left(c)) = 0
    <3> DEFINE a == Left(c)
    <3>1. call.num = Lesser(n, 0)
      BY <1>2, <1>4, <1>6, Zenon
    <3>2. l = 0 => a = 0
      BY <1>4, Zenon
    <3>3. ~(0 < l /\ call.num < n) /\ a \in Nat
      BY <1>4, <1>6, Zenon
    <3> HIDE DEF a, n, l
    <3>4. Lesser(n, a) = 0
      BY <1>3, <3>1, <3>2, <3>3 DEF Lesser
    <3> QED
      BY <3>4 DEF a
  <2>4. AllConsumed
    <3>1. consumers'[call.who] = c /\ c.bytes_consumed \in Nat
      BY <1>1, <1>2, Fields
    <3>2. c.bytes_consumed - c.bytes_consumed = 0
      BY <3>1
    <3> QED
      BY <2>3, <3>1, <3>2, Zenon DEF AllConsumed
  <2> QED
    BY <2>2, <2>4
<1>7. CASE ~(k < l /\ call.num < n) /\ k # 0
  <2>1. pc' = "copy" /\ call' = [call EXCEPT !.bufs = k, !.at = 0, !.num = 0]
    BY <1>7 DEF Gather, Buffers
  <2>2. /\ call' \in CallRecord /\ call'.who = call.who /\ call'.at = 0 /\ call'.num = 0
        /\ call'.rem = n /\ call'.count = n /\ call'.bufs = k
    BY <1>1, <1>2, <1>3, <2>1, Zenon DEF CallRecord
  <2>3. Loop("copy", call', c)
    <3> HIDE DEF c, k, l, n
    <3>1. k = l \/ Passed(c, k) >= n
      BY <1>2, <1>3, <1>4, <1>7 DEF Lesser
    <3>2. 0 = Lesser(n, Passed(c, 0)) /\ n = n - 0 /\ 0 <= k
      BY <1>3, <1>4 DEF Lesser
    <3>3. /\ "copy" # "available" /\ "copy" # "gather" /\ "copy" # "pop" /\ "copy" # "position"
      OBVIOUS
    <3> QED
      BY <1>2, <2>2, <3>1, <3>2, <3>3, Zenon DEF Loop, l
  <2>4. \A i \in DOMAIN consumers : Consistent(consumers[i], 0, 0, total_len)
    BY <1>1 DEF ConsumerInv, Idle
  <2>5. /\ pc' \in Calls /\ pc' \notin {"none", "new"} /\ pc' # "pop" /\ pc' # "new"
        /\ pc \notin {"none", "new"} /\ pc' # "ready"
    BY <1>1, <2>1 DEF Calls
  <2> HIDE DEF n, k, l
  <2> QED
    BY <1>1, <1>2, <2>1, <2>2, <2>3, <2>4, <2>5, Zenon DEF ConsumerInv
<1> QED
  BY <1>5, <1>6, <1>7

\* A consumer changes what it has given and what it has left, not the places it is for.
LEMMA ConsumerChanges ==
  ASSUME NEW cs \in Seq(ConsumerRecord), NEW w \in DOMAIN cs, NEW x \in ConsumerRecord,
         NEW t \in Nat, Partition(cs, t), x.first = cs[w].first, x.end = cs[w].end
  PROVE  /\ [cs EXCEPT ![w] = x] \in Seq(ConsumerRecord)
         /\ DOMAIN [cs EXCEPT ![w] = x] = DOMAIN cs
         /\ Len([cs EXCEPT ![w] = x]) = Len(cs)
         /\ [cs EXCEPT ![w] = x][w] = x
         /\ \A i \in DOMAIN cs : i # w => [cs EXCEPT ![w] = x][i] = cs[i]
         /\ Partition([cs EXCEPT ![w] = x], t)
<1> DEFINE ds == [cs EXCEPT ![w] = x]
<1>1. /\ ds \in Seq(ConsumerRecord) /\ DOMAIN ds = DOMAIN cs /\ Len(ds) = Len(cs) /\ ds[w] = x
      /\ \A i \in DOMAIN cs : i # w => ds[i] = cs[i]
  OBVIOUS
<1> HIDE DEF ds
<1>2. \A i \in DOMAIN cs : ds[i].first = cs[i].first /\ ds[i].end = cs[i].end
  BY <1>1, Zenon
<1>3. Partition(ds, t)
  <2>1. \A p \in 0 .. t - 1 : \E i \in DOMAIN ds : ds[i].first <= p /\ p < ds[i].end
    <3> SUFFICES ASSUME NEW p \in 0 .. t - 1
                 PROVE  \E i \in DOMAIN ds : ds[i].first <= p /\ p < ds[i].end
      OBVIOUS
    <3>1. PICK i \in DOMAIN cs : cs[i].first <= p /\ p < cs[i].end
      BY Zenon DEF Partition
    <3> QED
      BY <1>1, <1>2, <3>1, Zenon
  <2>2. ASSUME NEW i \in DOMAIN ds, NEW j \in DOMAIN ds, i # j
        PROVE  ds[i].end <= ds[j].first \/ ds[j].end <= ds[i].first
    <3>1. cs[i].end <= cs[j].first \/ cs[j].end <= cs[i].first
      BY <1>1, <2>2, Zenon DEF Partition
    <3>2. /\ ds[i].first = cs[i].first /\ ds[i].end = cs[i].end
          /\ ds[j].first = cs[j].first /\ ds[j].end = cs[j].end
      BY <1>1, <1>2, Zenon
    <3> QED
      BY <3>1, <3>2, Zenon
  <2> QED
    BY <2>1, <2>2, Zenon DEF Partition
<1> QED
  BY <1>1, <1>3, Zenon DEF ds

\* Sums of places and numbers of bytes.
LEMMA Sums ==
  /\ \A i, a, s, n \in Nat :
       /\ i + (a + s) = (i + a) + s /\ a + s \in Nat /\ (a + s) + n = a + (s + n) /\ a + (s + n) \in Nat
  /\ \A i, e, n, m \in Nat : n <= m /\ m <= e - i => i + n <= e
  OBVIOUS

\* What is true when slice k + 1 has been copied, s bytes after r more were asked for.
Copied(c, count, k, s, r) ==
  LET n == Lesser(r, c.buffers[k + 1].len)
      got == c.got \o Places(c.buffers[k + 1].from, n)
  IN  /\ s + n \in Nat /\ r - n \in Nat
      /\ s + n = Lesser(count, Passed(c, k + 1)) /\ r - n = count - (s + n)
      /\ got \in Seq(Nat) /\ got = Places(c.first, c.bytes_consumed + (s + n))
      /\ c.first + c.bytes_consumed + (s + n) <= c.end

\* One slice is copied: what was given out stays a run of places.
LEMMA SliceCopied ==
  ASSUME NEW c \in ConsumerRecord, NEW count \in Nat, NEW s, NEW r \in Nat,
         NEW k \in Nat, k < Len(c.buffers), Sound(c.buffers, c.first + c.bytes_consumed, c.end),
         c.got = Places(c.first, c.bytes_consumed + s),
         s = Lesser(count, Passed(c, k)), r = count - s
  PROVE  Copied(c, count, k, s, r)
<1> DEFINE start == c.first + c.bytes_consumed
           m == Passed(c, k)
           v == c.buffers[k + 1].len
           f == c.buffers[k + 1].from
           n == Lesser(r, v)
<1>1. /\ c.first \in Nat /\ c.bytes_consumed \in Nat /\ c.end \in Nat /\ start \in Nat
      /\ Len(c.buffers) \in Nat
  BY Fields
<1>2. k <= Len(c.buffers) /\ k + 1 \in Nat /\ k + 1 <= Len(c.buffers)
  BY <1>1
<1>3. /\ v \in Nat /\ f = start + m /\ m \in Nat /\ Passed(c, k + 1) = m + v /\ Left(c) \in Nat
  BY <1>2, PassedStep, Zenon
<1>4. m + v <= c.end - start
  BY <1>2, <1>3, PassedStep, Zenon DEF Left
<1> HIDE DEF start, m, v, f, n
<1>5. /\ n \in Nat /\ s \in Nat /\ s + n \in Nat /\ r - n \in Nat /\ s + n = Lesser(count, m + v)
      /\ r - n = count - (s + n) /\ s + n <= m + v /\ (n = 0 \/ s = m)
  <2>1. s = Lesser(count, m) /\ r = count - Lesser(count, m)
    BY Zenon DEF m
  <2>2. /\ n \in Nat /\ r - n \in Nat /\ Lesser(count, m) + n = Lesser(count, m + v)
        /\ r - n = count - Lesser(count, m + v) /\ Lesser(count, m) \in Nat /\ Lesser(count, m + v) \in Nat
        /\ Lesser(count, m + v) <= m + v
        /\ n = 0 \/ Lesser(count, m) = m
    <3>1. count \in Nat /\ m \in Nat /\ v \in Nat /\ r \in Nat
      BY <1>3
    <3> QED
      BY ONLY <2>1, <3>1 DEF n, Lesser
  <2> QED
    BY <2>1, <2>2, Zenon
<1>6. /\ c.got \o Places(f, n) = Places(c.first, c.bytes_consumed + (s + n))
      /\ c.got \o Places(f, n) \in Seq(Nat)
  <2> DEFINE a == c.bytes_consumed
             i == c.first
  <2>1. a \in Nat /\ i \in Nat /\ start = i + a
    BY <1>1 DEF start
  <2> HIDE DEF a, i
  <2>2. i + (a + s) = start + s /\ a + s \in Nat /\ (a + s) + n = a + (s + n) /\ a + (s + n) \in Nat
    <3>1. i \in Nat /\ a \in Nat /\ s \in Nat /\ n \in Nat
      BY <1>5, <2>1, Zenon
    <3>2. /\ i + (a + s) = (i + a) + s /\ a + s \in Nat /\ (a + s) + n = a + (s + n)
          /\ a + (s + n) \in Nat
      BY ONLY <3>1, Sums
    <3> QED
      BY <2>1, <3>2, Zenon
  <2>3. Places(f, n) = Places(start + s, n)
    <3>1. n = 0 => Places(f, n) = <<>> /\ Places(start + s, n) = <<>>
      BY DEF Places
    <3> QED
      BY <1>3, <1>5, <3>1, Zenon
  <2>4. Places(i, a + s) \o Places(i + (a + s), n) = Places(i, (a + s) + n)
    <3> DEFINE z == a + s
    <3>1. i \in Nat /\ z \in Nat /\ n \in Nat
      BY <1>5, <2>1, <2>2, Zenon
    <3> HIDE DEF z
    <3>2. Places(i, z) \o Places(i + z, n) = Places(i, z + n)
      BY ONLY <3>1, PlacesConcat, ZenonT(30)
    <3> QED
      BY <3>2, Zenon DEF z
  <2>5. Places(i, a + (s + n)) \in Seq(Nat)
    BY ONLY <1>5, <2>1, <2>2, PlacesConcat, Zenon
  <2> QED
    BY <2>2, <2>3, <2>4, <2>5, Zenon DEF a, i
<1>7. start + (s + n) <= c.end
  <2> DEFINE e == c.end
  <2>1. e \in Nat /\ m + v <= e - start /\ start \in Nat /\ m + v \in Nat
    BY <1>1, <1>3, <1>4, Sums, Zenon
  <2> HIDE DEF e
  <2>2. start + (s + n) <= e
    BY <1>5, <2>1, Sums, Zenon
  <2> QED
    BY <2>2 DEF e
<1> QED
  BY <1>3, <1>5, <1>6, <1>7, Zenon DEF Copied, n, v, f, start

\* The slices that were gathered are copied up to the count.
LEMMA CopyStep ==
  ASSUME ConsumerInv, Copy
  PROVE  ConsumerInv' /\ (pc' = "ready" => AllConsumed)
<1> DEFINE w == call.who
           c == consumers[w]
           k == call.at
           l == Len(c.buffers)
           b == call.bufs
           r == call.rem
           s == call.num
<1>1. /\ pc = "copy" /\ pc \in Calls /\ call \in CallRecord /\ total_len' = total_len
      /\ consumers \in Seq(ConsumerRecord) /\ Partition(consumers, total_len) /\ total_len \in Nat
      /\ total_len <= MaxUsize
  BY DEF Copy, ConsumerInv, Calls
<1>2. /\ c \in ConsumerRecord /\ Sound(c.buffers, c.first + c.bytes_consumed, c.end)
      /\ w \in DOMAIN consumers
      /\ k <= b /\ b <= l /\ s = Lesser(call.count, Passed(c, k)) /\ r = call.count - s
      /\ b = l \/ Passed(c, b) >= call.count
  BY <1>1, Running DEF Loop, Buffers
<1>3. /\ k \in Nat /\ b \in Nat /\ s \in Nat /\ r \in Nat /\ l \in Nat /\ call.count \in Nat
      /\ c.first \in Nat /\ c.bytes_consumed \in Nat /\ c.end \in Nat
  BY <1>1, <1>2, Fields, Zenon
<1>4. Consistent(c, s, 0, total_len)
  BY <1>1, Zenon DEF ConsumerInv
<1>5. \A i \in DOMAIN consumers : i # w => Consistent(consumers[i], 0, 0, total_len)
  BY <1>1, Zenon DEF ConsumerInv, Idle
<1>6. CASE k < b
  <2> DEFINE vs == c.buffers[k + 1]
             n == Lesser(r, vs.len)
             x == [c EXCEPT !.got = c.got \o Places(vs.from, n)]
  <2>1. /\ pc' = pc /\ call' = [call EXCEPT !.at = k + 1, !.num = s + n, !.rem = r - n]
        /\ consumers' = [consumers EXCEPT ![w] = x]
    <3>1. pc' = pc /\ call' = [call EXCEPT !.at = k + 1, !.num = s + n, !.rem = r - n]
      BY <1>6, ZenonT(30) DEF Copy, Buffers
    <3>2. consumers' = [consumers EXCEPT ![w].got = @ \o Places(vs.from, n)]
      BY <1>6, ZenonT(30) DEF Copy, Buffers
    <3> QED
      BY <3>1, <3>2, Zenon
  <2>2. k < l /\ k + 1 <= b /\ k + 1 \in Nat
    BY <1>2, <1>3, <1>6
  <2>3. /\ s + n \in Nat /\ r - n \in Nat
        /\ s + n = Lesser(call.count, Passed(c, k + 1)) /\ r - n = call.count - (s + n)
        /\ x \in ConsumerRecord /\ x.buffers = c.buffers /\ x.first = c.first /\ x.end = c.end
        /\ x.bytes_consumed = c.bytes_consumed /\ Consistent(x, s + n, 0, total_len)
    <3> DEFINE got == c.got \o Places(vs.from, n)
    <3>1. c.got = Places(c.first, c.bytes_consumed + s) /\ c.end <= total_len
      BY <1>4, Zenon DEF Consistent
    <3> HIDE DEF w, c, k, r, s
    <3>2. /\ s + n \in Nat /\ r - n \in Nat
          /\ s + n = Lesser(call.count, Passed(c, k + 1)) /\ r - n = call.count - (s + n)
          /\ got \in Seq(Nat) /\ got = Places(c.first, c.bytes_consumed + (s + n))
          /\ c.first + c.bytes_consumed + (s + n) <= c.end
      <4>1. k < Len(c.buffers)
        BY <2>2 DEF l
      <4>2. Copied(c, call.count, k, s, r)
        BY <1>2, <1>3, <3>1, <4>1, SliceCopied, Zenon
      <4> QED
        BY <4>2, Zenon DEF Copied
    <3> HIDE DEF got, n
    <3>3. /\ x \in ConsumerRecord /\ x.buffers = c.buffers /\ x.first = c.first /\ x.end = c.end
          /\ x.bytes_consumed = c.bytes_consumed /\ x.got = got
      <4>1. x = [c EXCEPT !.got = got]
        BY Zenon DEF got
      <4> HIDE DEF x
      <4> QED
        BY <1>2, <3>2, <4>1, Zenon DEF ConsumerRecord
    <3>4. c.first + c.bytes_consumed + 0 = c.first + c.bytes_consumed
      BY <1>3
    <3>5. Consistent(x, s + n, 0, total_len)
      BY <1>2, <3>1, <3>2, <3>3, <3>4, Zenon DEF Consistent
    <3> QED
      BY <3>2, <3>3, <3>5, Zenon
  <2>4. /\ call' \in CallRecord /\ call'.who = w /\ call'.at = k + 1 /\ call'.num = s + n
        /\ call'.rem = r - n /\ call'.count = call.count /\ call'.bufs = b
    <3> HIDE DEF n, k, c, s, r
    <3> QED
      BY <1>1, <2>1, <2>2, <2>3, Zenon DEF CallRecord
  <2> HIDE DEF x
  <2>5. /\ consumers' \in Seq(ConsumerRecord) /\ DOMAIN consumers' = DOMAIN consumers
        /\ consumers'[w] = x /\ Partition(consumers', total_len)
        /\ \A i \in DOMAIN consumers : i # w => consumers'[i] = consumers[i]
    <3> HIDE DEF w
    <3> QED
      BY <1>1, <1>2, <2>1, <2>3, ConsumerChanges, Zenon DEF c
  <2>6. Loop("copy", call', x)
    <3>1. \A j : Passed(x, j) = Passed(c, j)
      BY <2>3, Zenon DEF Passed
    <3>2. /\ "copy" # "available" /\ "copy" # "gather" /\ "copy" # "pop" /\ "copy" # "position"
          /\ "copy" \notin {"available", "gather", "position"}
      OBVIOUS
    <3> HIDE DEF c, k, n, vs, s, b, r
    <3> QED
      BY <1>2, <2>2, <2>3, <2>4, <3>1, <3>2, Zenon DEF Loop, l
  <2>7. /\ pc' \in Calls /\ pc' \notin {"none", "new"} /\ pc' # "pop" /\ pc' # "new" /\ pc' = "copy"
        /\ pc' \in {"copy", "pop"} /\ pc' # "ready"
    BY <1>1, <2>1 DEF Calls
  <2>8. \A i \in DOMAIN consumers' : Idle(i)' => Consistent(consumers'[i], 0, 0, total_len')
    BY <1>1, <1>5, <2>4, <2>5, <2>7, Zenon DEF Idle
  <2> HIDE DEF w, c, k, n, vs, s, b, r
  <2> QED
    BY <1>1, <1>2, <2>3, <2>4, <2>5, <2>6, <2>7, <2>8, Zenon DEF ConsumerInv
<1>7. CASE ~(k < b)
  <2>1. k = b /\ s = Lesser(call.count, Left(c)) /\ c.bytes_consumed + s <= MaxUsize
    <3>1. k = b
      BY <1>2, <1>3, <1>7
    <3>2. /\ Passed(c, k) \in Nat /\ Passed(c, k) <= Left(c) /\ Left(c) \in Nat
          /\ k = l => Passed(c, k) = Left(c)
      BY <1>2, <1>3, <3>1, PassedStep, Zenon
    <3>3. s = Lesser(call.count, Left(c))
      <4> HIDE DEF c, k, l, b, s
      <4> QED
        BY <1>2, <1>3, <3>1, <3>2 DEF Lesser
    <3>4. c.first + c.bytes_consumed + s <= c.end /\ c.end <= total_len
      BY <1>4, Zenon DEF Consistent
    <3>5. MaxUsize \in Nat
      BY ConsumerAssumption
    <3> HIDE DEF c, s
    <3>6. c.bytes_consumed + s <= MaxUsize
      BY <1>1, <1>3, <3>4, <3>5
    <3> QED
      BY <3>1, <3>3, <3>6, Zenon
  <2>2. pc' = "pop" /\ call' = [call EXCEPT !.rem = s] /\ consumers' = consumers
    <3>1. MaxUsize \in Nat
      BY ConsumerAssumption
    <3>2. ~(c.bytes_consumed + s > MaxUsize)
      <4> HIDE DEF c, s
      <4> QED
        BY <1>3, <2>1, <3>1
    <3> QED
      BY <1>7, <3>2 DEF Copy
  <2>3. /\ call' \in CallRecord /\ call'.who = w /\ call'.num = s /\ call'.rem = s
        /\ call'.count = call.count
    <3>1. call.num = s
      OBVIOUS
    <3> HIDE DEF s, c
    <3> QED
      BY <1>1, <1>3, <2>2, <3>1, Zenon DEF CallRecord
  <2>4. s <= s /\ s - s = 0
    BY <1>3
  <2>5. Consistent(c, s, 0, total_len)
    BY <1>4
  <2>6. Loop("pop", call', c)
    <3>1. /\ "pop" # "available" /\ "pop" # "gather" /\ "pop" # "copy" /\ "pop" # "position"
          /\ "pop" \notin {"available", "gather", "position"}
      OBVIOUS
    <3> HIDE DEF c, s
    <3> QED
      BY <2>1, <2>3, <2>4, <3>1, Zenon DEF Loop
  <2>7. /\ pc' \in Calls /\ pc' \notin {"none", "new"} /\ pc' # "copy" /\ pc' # "new" /\ pc' = "pop"
        /\ pc' \in {"copy", "pop"} /\ pc' # "ready"
    BY <2>2 DEF Calls
  <2>8. \A i \in DOMAIN consumers' : Idle(i)' => Consistent(consumers'[i], 0, 0, total_len')
    BY <1>1, <1>5, <2>2, <2>3, <2>7, Zenon DEF Idle
  <2>9. consumers'[w] = c
    BY <2>2
  <2> HIDE DEF w, c, s
  <2> QED
    BY <1>1, <1>2, <2>2, <2>3, <2>4, <2>5, <2>6, <2>7, <2>8, <2>9, Zenon DEF ConsumerInv
<1> QED
  BY <1>6, <1>7

\* What consume leaves in the queue when the slice at its front is used up, ...
LEMMA PoppedWhole ==
  ASSUME NEW c \in ConsumerRecord, NEW t, NEW s \in Nat, NEW r \in Nat, r <= s, Consistent(c, s, s - r, t),
         c.buffers # <<>>, r >= Head(c.buffers).len
  PROVE  /\ Head(c.buffers).len \in Nat /\ r - Head(c.buffers).len \in Nat /\ r - Head(c.buffers).len <= s
         /\ Tail(c.buffers) \in Seq(Slice)
         /\ Sound(Tail(c.buffers), c.first + c.bytes_consumed + (s - (r - Head(c.buffers).len)), c.end)
<1> DEFINE p == c.first + c.bytes_consumed
           v == Head(c.buffers).len
<1>1. c.first \in Nat /\ c.bytes_consumed \in Nat /\ p \in Nat
  BY Fields
<1>2. Sound(c.buffers, p + (s - r), c.end)
  BY Zenon DEF Consistent
<1>3. v \in Nat /\ Sound(Tail(c.buffers), (p + (s - r)) + v, c.end)
  BY <1>2, SoundTail, Zenon
<1> HIDE DEF p, v
<1>4. (p + (s - r)) + v = p + (s - (r - v)) /\ r - v \in Nat /\ r - v <= s
  <2>1. v <= r
    BY <1>3 DEF v
  <2>2. p \in Nat /\ v \in Nat /\ s \in Nat /\ r \in Nat /\ r <= s
    BY <1>1, <1>3, Zenon
  <2> QED
    BY ONLY <2>1, <2>2
<1> QED
  BY <1>3, <1>4, Zenon DEF Sound, p, v

\* ... and when it is longer than what is left of the count, or there is none.
LEMMA PoppedPart ==
  ASSUME NEW c \in ConsumerRecord, NEW t, NEW s \in Nat, NEW r \in Nat, r <= s, Consistent(c, s, s - r, t),
         ~(c.buffers # <<>> /\ r >= Head(c.buffers).len)
  PROVE  Sound(IF c.buffers = <<>> THEN c.buffers
               ELSE <<Offset(Head(c.buffers), r)>> \o Tail(c.buffers),
               c.first + (c.bytes_consumed + s), c.end)
<1> DEFINE p == c.first + c.bytes_consumed
<1>1. c.first \in Nat /\ c.bytes_consumed \in Nat /\ p \in Nat /\ c.end \in Nat
  BY Fields
<1>2. Sound(c.buffers, p + (s - r), c.end) /\ p + s <= c.end
  BY Zenon DEF Consistent
<1>3. p + s = c.first + (c.bytes_consumed + s)
  BY <1>1
<1> HIDE DEF p
<1>4. CASE c.buffers = <<>>
  <2>1. p + (s - r) = c.end
    <3>1. Len(c.buffers) = 0
      BY <1>4
    <3> QED
      BY <1>2, <3>1, Zenon DEF Sound, Tiles, After
  <2>2. p + s = c.end
    <3> DEFINE e == c.end
    <3>1. e \in Nat /\ p \in Nat /\ s \in Nat /\ r \in Nat /\ p + (s - r) = e /\ p + s <= e
      BY <1>1, <1>2, <2>1, Zenon
    <3> HIDE DEF e
    <3>2. p + s = e
      BY ONLY <3>1
    <3> QED
      BY <3>2, Zenon DEF e
  <2>3. Sound(<<>>, c.end, c.end)
    BY <1>1, SoundEmpty, Zenon
  <2> QED
    BY <1>3, <1>4, <2>2, <2>3, Zenon
<1>5. CASE c.buffers # <<>>
  <2> DEFINE bs == c.buffers
             v == bs[1].len
             q == p + (s - r)
  <2>1. /\ Len(bs) >= 1 /\ Head(bs) = bs[1] /\ v \in Nat /\ Tail(bs) = SubSeq(bs, 2, Len(bs))
        /\ Len(bs) \in Nat
    BY <1>2, <1>5, SoundTail, Fields, Zenon
  <2>2. r <= v /\ 0 < Len(bs) /\ 0 + 1 = 1 /\ 0 + 2 = 2 /\ 0 \in Nat
    <3>1. ~(r >= v) /\ v \in Nat
      BY <1>5, <2>1, Zenon
    <3> HIDE DEF v
    <3>2. r <= v
      BY <3>1
    <3>3. 0 < Len(bs)
      BY <2>1
    <3> QED
      BY <3>2, <3>3
  <2>3. Sound(<<Offset(bs[1], r)>> \o SubSeq(bs, 2, Len(bs)), After(bs, q, 0) + r, c.end)
    <3>1. Sound(<<Offset(bs[0 + 1], r)>> \o SubSeq(bs, 0 + 2, Len(bs)), After(bs, q, 0) + r, c.end)
      <4>1. r <= bs[0 + 1].len
        BY <2>2, Zenon
      <4> QED
        BY <1>2, <2>2, <4>1, SoundCut, Zenon
    <3> QED
      BY <2>2, <3>1, Zenon
  <2>4. After(bs, q, 0) = q
    BY Zenon DEF After
  <2>5. q + r = p + s
    BY <1>1
  <2> QED
    BY <1>3, <1>5, <2>1, <2>3, <2>4, <2>5, Zenon
<1> QED
  BY <1>4, <1>5

\* What was used leaves the queue of slices.
LEMMA PopStep ==
  ASSUME ConsumerInv, Pop
  PROVE  ConsumerInv' /\ (pc' = "ready" => AllConsumed)
<1> DEFINE w == call.who
           c == consumers[w]
           r == call.rem
           s == call.num
           v == Head(c.buffers).len
<1>1. /\ pc = "pop" /\ pc \in Calls /\ call \in CallRecord /\ total_len' = total_len
      /\ consumers \in Seq(ConsumerRecord) /\ Partition(consumers, total_len) /\ total_len \in Nat
      /\ total_len <= MaxUsize
  BY DEF Pop, ConsumerInv, Calls
<1>2. /\ c \in ConsumerRecord /\ w \in DOMAIN consumers
      /\ s = Lesser(call.count, Left(c)) /\ r <= s
  BY <1>1, Running DEF Loop, Buffers
<1>3. /\ s \in Nat /\ r \in Nat /\ call.count \in Nat
      /\ c.first \in Nat /\ c.bytes_consumed \in Nat /\ c.end \in Nat
  BY <1>1, <1>2, Fields, Zenon
<1>4. Consistent(c, s, s - r, total_len)
  BY <1>1, Zenon DEF ConsumerInv
<1>5. \A i \in DOMAIN consumers : i # w => Consistent(consumers[i], 0, 0, total_len)
  BY <1>1, Zenon DEF ConsumerInv, Idle
<1>6. CASE c.buffers # <<>> /\ r >= v
  <2> DEFINE x == [c EXCEPT !.buffers = Tail(c.buffers)]
  <2>1. pc' = pc /\ call' = [call EXCEPT !.rem = r - v] /\ consumers' = [consumers EXCEPT ![w] = x]
    <3>1. pc' = pc /\ call' = [call EXCEPT !.rem = r - v]
      BY <1>6 DEF Pop
    <3>2. consumers' = [consumers EXCEPT ![w].buffers = Tail(@)]
      BY <1>6 DEF Pop
    <3> QED
      BY <3>1, <3>2
  <2>2. /\ v \in Nat /\ r - v \in Nat /\ r - v <= s /\ Tail(c.buffers) \in Seq(Slice)
        /\ Sound(Tail(c.buffers), c.first + c.bytes_consumed + (s - (r - v)), c.end)
    <3> HIDE DEF w, c, s, r
    <3> QED
      BY <1>2, <1>3, <1>4, <1>6, PoppedWhole, Zenon
  <2>3. /\ x \in ConsumerRecord /\ x.buffers = Tail(c.buffers) /\ x.first = c.first /\ x.end = c.end
        /\ x.bytes_consumed = c.bytes_consumed /\ x.got = c.got
    <3> DEFINE bs == Tail(c.buffers)
    <3>1. x = [c EXCEPT !.buffers = bs] /\ bs \in Seq(Slice)
      BY <2>2, Zenon
    <3> HIDE DEF bs, c, x
    <3>2. /\ x \in ConsumerRecord /\ x.buffers = bs /\ x.first = c.first /\ x.end = c.end
          /\ x.bytes_consumed = c.bytes_consumed /\ x.got = c.got
      BY <1>2, <3>1, Zenon DEF ConsumerRecord
    <3> QED
      BY <3>2, Zenon DEF bs
  <2> HIDE DEF x
  <2>4. /\ call' \in CallRecord /\ call'.who = w /\ call'.num = s /\ call'.rem = r - v
        /\ call'.count = call.count
    <3>1. call.num = s
      OBVIOUS
    <3> HIDE DEF v, s, r, c
    <3> QED
      BY <1>1, <2>1, <2>2, <3>1, Zenon DEF CallRecord
  <2>5. Consistent(x, s, s - (r - v), total_len)
    <3> HIDE DEF c, s, r, v
    <3> QED
      BY <1>4, <2>2, <2>3, Zenon DEF Consistent
  <2>6. Loop("pop", call', x)
    <3>1. /\ "pop" # "available" /\ "pop" # "gather" /\ "pop" # "copy" /\ "pop" # "position"
          /\ "pop" \notin {"available", "gather", "position"}
      OBVIOUS
    <3>2. Left(x) = Left(c)
      BY <2>3, Zenon DEF Left
    <3> HIDE DEF c, s, r, v
    <3> QED
      BY <1>2, <2>2, <2>4, <3>1, <3>2, Zenon DEF Loop
  <2>7. /\ consumers' \in Seq(ConsumerRecord) /\ DOMAIN consumers' = DOMAIN consumers
        /\ consumers'[w] = x /\ Partition(consumers', total_len)
        /\ \A i \in DOMAIN consumers : i # w => consumers'[i] = consumers[i]
    <3> HIDE DEF w
    <3> QED
      BY <1>1, <1>2, <2>1, <2>3, ConsumerChanges, Zenon DEF c
  <2>8. /\ pc' \in Calls /\ pc' \notin {"none", "new"} /\ pc' # "copy" /\ pc' # "new" /\ pc' = "pop"
        /\ pc' \in {"copy", "pop"} /\ pc' # "ready"
    BY <1>1, <2>1 DEF Calls
  <2>9. \A i \in DOMAIN consumers' : Idle(i)' => Consistent(consumers'[i], 0, 0, total_len')
    BY <1>1, <1>5, <2>4, <2>7, <2>8, Zenon DEF Idle
  <2> HIDE DEF w, c, s, r, v
  <2> QED
    BY <1>1, <1>2, <2>4, <2>5, <2>6, <2>7, <2>8, <2>9, Zenon DEF ConsumerInv
<1>7. CASE ~(c.buffers # <<>> /\ r >= v)
  <2> DEFINE bs == IF c.buffers = <<>> THEN c.buffers ELSE <<Offset(Head(c.buffers), r)>> \o Tail(c.buffers)
             x == [c EXCEPT !.buffers = bs, !.bytes_consumed = c.bytes_consumed + s]
  <2>1. Return /\ consumers' = [consumers EXCEPT ![w] = x]
    BY <1>7 DEF Pop
  <2>2. Sound(bs, c.first + (c.bytes_consumed + s), c.end)
    <3> HIDE DEF w, c, s, r
    <3> QED
      BY <1>2, <1>3, <1>4, <1>7, PoppedPart, Zenon
  <2> HIDE DEF bs
  <2>3. /\ x \in ConsumerRecord /\ x.buffers = bs /\ x.first = c.first /\ x.end = c.end
        /\ x.bytes_consumed = c.bytes_consumed + s /\ x.got = c.got
    <3> DEFINE m == c.bytes_consumed + s
    <3>1. x = [c EXCEPT !.buffers = bs, !.bytes_consumed = m] /\ bs \in Seq(Slice) /\ m \in Nat
      BY <1>3, <2>2 DEF Sound
    <3> HIDE DEF c, x, m
    <3>2. /\ x \in ConsumerRecord /\ x.buffers = bs /\ x.first = c.first /\ x.end = c.end
          /\ x.bytes_consumed = m /\ x.got = c.got
      BY <1>2, <3>1, Zenon DEF ConsumerRecord
    <3> QED
      BY <3>2, Zenon DEF m
  <2> HIDE DEF x
  <2>4. Consistent(x, 0, 0, total_len)
    <3>1. /\ c.bytes_consumed + s + 0 = c.bytes_consumed + s
          /\ c.first + (c.bytes_consumed + s) + 0 = c.first + (c.bytes_consumed + s)
          /\ c.first + (c.bytes_consumed + s) = c.first + c.bytes_consumed + s
      BY <1>3
    <3> HIDE DEF c, s
    <3> QED
      BY <1>4, <2>2, <2>3, <3>1, Zenon DEF Consistent
  <2>5. /\ consumers' \in Seq(ConsumerRecord) /\ DOMAIN consumers' = DOMAIN consumers
        /\ consumers'[w] = x /\ Partition(consumers', total_len)
        /\ \A i \in DOMAIN consumers : i # w => consumers'[i] = consumers[i]
    <3> HIDE DEF w
    <3> QED
      BY <1>1, <1>2, <2>1, <2>3, ConsumerChanges, Zenon DEF c
  <2>6. pc' = "ready" /\ call' \in CallRecord
    BY <2>1 DEF Return, NoCall, CallRecord
  <2>7. /\ pc' \notin Calls /\ pc' \notin {"none", "new"} /\ pc' # "new" /\ pc' # "copy" /\ pc' # "pop"
        /\ pc' \in {"none", "new", "ready"}
    BY <2>6 DEF Calls
  <2>8. \A i \in DOMAIN consumers' : Consistent(consumers'[i], 0, 0, total_len')
    BY <1>1, <1>5, <2>4, <2>5, Zenon
  <2>9. AllConsumed
    <3>1. (c.bytes_consumed + s) - c.bytes_consumed = s
      BY <1>3
    <3> QED
      BY <1>2, <2>3, <2>5, <3>1, Zenon DEF AllConsumed
  <2> HIDE DEF w, c, s, r
  <2> QED
    BY <1>1, <2>5, <2>6, <2>7, <2>8, <2>9, Zenon DEF ConsumerInv
<1> QED
  BY <1>6, <1>7

\* Of the consumers cs, consumer w becomes x, and y is new.
Divided(cs, w, x, y, t) ==
  LET ds == Append([cs EXCEPT ![w] = x], y)
  IN  /\ ds \in Seq(ConsumerRecord) /\ \A i \in DOMAIN ds : i \in DOMAIN cs \/ i = Len(cs) + 1
      /\ ds[w] = x /\ ds[Len(cs) + 1] = y /\ \A i \in DOMAIN cs : i # w => ds[i] = cs[i]
      /\ Len(ds) = Len(cs) + 1 /\ Partition(ds, t)

\* The places of one consumer are divided between two.
LEMMA PlacesDivided ==
  ASSUME NEW cs \in Seq(ConsumerRecord), NEW w \in DOMAIN cs, NEW x \in ConsumerRecord,
         NEW y \in ConsumerRecord, NEW t \in Nat, Partition(cs, t),
         x.first = cs[w].first, x.end = y.first, y.end = cs[w].end, x.first <= x.end, x.end <= y.end
  PROVE  Divided(cs, w, x, y, t)
<1> DEFINE es == [cs EXCEPT ![w] = x]
           ds == Append(es, y)
           l == Len(cs)
<1>1. /\ es \in Seq(ConsumerRecord) /\ Len(es) = l /\ es[w] = x /\ l \in Nat
      /\ \A i \in DOMAIN cs : i # w => es[i] = cs[i]
  OBVIOUS
<1>2. DOMAIN cs = 1 .. l /\ w \in 1 .. l
  OBVIOUS
<1> HIDE DEF es, l
<1>3. /\ ds \in Seq(ConsumerRecord) /\ Len(ds) = l + 1 /\ DOMAIN ds = 1 .. l + 1 /\ ds[l + 1] = y
      /\ \A i \in 1 .. l : ds[i] = es[i]
  BY <1>1
<1> HIDE DEF ds
<1>4. /\ \A i \in DOMAIN ds : i \in DOMAIN cs \/ i = l + 1
      /\ \A i \in DOMAIN cs : i \in DOMAIN ds /\ i # l + 1
      /\ l + 1 \in DOMAIN ds
  BY <1>1, <1>2, <1>3
<1>5. ds[w] = x /\ \A i \in DOMAIN cs : i # w => ds[i] = cs[i]
  BY <1>1, <1>2, <1>3, Zenon
<1>6. \A i \in DOMAIN cs : cs[i].first \in Nat /\ cs[i].end \in Nat
  <2>1. \A i \in DOMAIN cs : cs[i] \in ConsumerRecord
    OBVIOUS
  <2> QED
    BY <2>1, Fields, Zenon
<1>7. x.first \in Nat /\ x.end \in Nat /\ y.first \in Nat /\ y.end \in Nat
  BY Fields, Zenon
<1>8. ASSUME NEW p \in 0 .. t - 1
      PROVE  \E i \in DOMAIN ds : ds[i].first <= p /\ p < ds[i].end
  <2>1. PICK i \in DOMAIN cs : cs[i].first <= p /\ p < cs[i].end
    BY Zenon DEF Partition
  <2>2. CASE i # w
    BY <1>4, <1>5, <2>1, <2>2, Zenon
  <2>3. CASE i = w
    <3>1. x.first <= p /\ p < y.end
      BY <2>1, <2>3, Zenon
    <3>2. (x.first <= p /\ p < x.end) \/ (y.first <= p /\ p < y.end)
      <4> DEFINE a == x.first
                 b == x.end
                 c == y.end
      <4>1. a \in Nat /\ b \in Nat /\ c \in Nat /\ a <= p /\ p < c /\ p \in Int
        BY <1>7, <3>1
      <4> HIDE DEF a, b, c
      <4>2. (a <= p /\ p < b) \/ (b <= p /\ p < c)
        BY ONLY <4>1
      <4> QED
        BY <4>2, Zenon DEF a, b, c
    <3> QED
      BY <1>3, <1>4, <1>5, <2>3, <3>2, Zenon
  <2> QED
    BY <2>2, <2>3
<1>9. ASSUME NEW i \in DOMAIN cs, i # w
      PROVE  /\ ds[i].end <= x.first \/ x.end <= ds[i].first
             /\ ds[i].end <= y.first \/ y.end <= ds[i].first
  <2> DEFINE a == x.first
             b == x.end
             c == y.end
             f == cs[i].first
             e == cs[i].end
  <2>1. e <= a \/ c <= f
    BY <1>9, Zenon DEF Partition
  <2>2. a \in Nat /\ b \in Nat /\ c \in Nat /\ e \in Nat /\ f \in Nat /\ a <= b /\ b <= c
    BY <1>6, <1>7, Zenon
  <2>3. ds[i].first = f /\ ds[i].end = e
    BY <1>5, <1>9, Zenon
  <2> HIDE DEF a, b, c, e, f
  <2>4. (e <= a \/ b <= f) /\ (e <= b \/ c <= f)
    BY ONLY <2>1, <2>2
  <2> QED
    BY <2>3, <2>4, Zenon DEF a, b, c
<1>10. x.end <= y.first
  BY <1>7
<1>11. ASSUME NEW i \in DOMAIN ds, NEW j \in DOMAIN ds, i # j
       PROVE  ds[i].end <= ds[j].first \/ ds[j].end <= ds[i].first
  <2>1. CASE i = l + 1
    BY <1>3, <1>4, <1>5, <1>9, <1>10, <1>11, <2>1, Zenon
  <2>2. CASE j = l + 1
    BY <1>3, <1>4, <1>5, <1>9, <1>10, <1>11, <2>2, Zenon
  <2>3. CASE i \in DOMAIN cs /\ j \in DOMAIN cs
    <3>1. CASE i = w
      BY <1>5, <1>9, <1>11, <2>3, <3>1, Zenon
    <3>2. CASE j = w
      BY <1>5, <1>9, <1>11, <2>3, <3>2, Zenon
    <3>3. CASE i # w /\ j # w
      <4>1. ds[i] = cs[i] /\ ds[j] = cs[j]
        BY <1>5, <2>3, <3>3, Zenon
      <4> QED
        BY <1>11, <2>3, <4>1, Zenon DEF Partition
    <3> QED
      BY <3>1, <3>2, <3>3, Zenon
  <2> QED
    BY <1>4, <2>1, <2>2, <2>3, Zenon
<1>12. Partition(ds, t)
  BY <1>8, <1>11, Zenon DEF Partition
<1> QED
  BY <1>3, <1>4, <1>5, <1>12, Zenon DEF Divided, ds, es, l

\* split_at makes two sound consumers of one.
LEMMA SplitStep ==
  ASSUME ConsumerInv, pc = "position", Return, total_len' = total_len,
         NEW kept, NEW other, Split(kept, other),
         NEW middle, middle = consumers[call.who].first + consumers[call.who].bytes_consumed + call.count,
         Sound(kept, consumers[call.who].first + consumers[call.who].bytes_consumed, middle),
         Sound(other, middle, consumers[call.who].end), middle <= consumers[call.who].end
  PROVE  ConsumerInv' /\ Len(consumers') = Len(consumers) + 1
<1> DEFINE w == call.who
           c == consumers[w]
           x == [c EXCEPT !.buffers = kept, !.end = middle]
           y == Consumer(other, middle, c.end)
<1>1. /\ pc \in Calls /\ call \in CallRecord /\ pc \notin {"copy", "pop"} /\ pc \notin {"none", "new"}
      /\ consumers \in Seq(ConsumerRecord) /\ Partition(consumers, total_len) /\ total_len \in Nat
      /\ total_len <= MaxUsize
  BY DEF ConsumerInv, Calls
<1>2. c \in ConsumerRecord /\ w \in DOMAIN consumers
  BY <1>1, Running, Zenon
<1>3. /\ c.first \in Nat /\ c.bytes_consumed \in Nat /\ c.end \in Nat /\ call.count \in Nat
  BY <1>1, <1>2, Fields, Zenon
<1>4. \A i \in DOMAIN consumers : Consistent(consumers[i], 0, 0, total_len)
  BY <1>1, Zenon DEF ConsumerInv, Idle
<1>5. consumers' = Append([consumers EXCEPT ![w] = x], y)
  BY DEF Split
<1>6. /\ kept \in Seq(Slice) /\ other \in Seq(Slice) /\ middle \in Nat /\ c.end <= total_len
      /\ c.got = Places(c.first, c.bytes_consumed + 0)
  BY <1>2, <1>4, Zenon DEF Sound, Consistent
<1>7. /\ x \in ConsumerRecord /\ x.buffers = kept /\ x.first = c.first /\ x.end = middle
      /\ x.bytes_consumed = c.bytes_consumed /\ x.got = c.got
  <2> HIDE DEF c
  <2> QED
    BY <1>2, <1>6, Zenon DEF ConsumerRecord
<1>8. /\ y \in ConsumerRecord /\ y.buffers = other /\ y.first = middle /\ y.end = c.end
      /\ y.bytes_consumed = 0 /\ y.got = <<>>
  <2> HIDE DEF c
  <2> QED
    BY <1>3, <1>6 DEF ConsumerRecord, Consumer
<1>9. /\ c.first <= middle /\ c.first + c.bytes_consumed + 0 <= middle /\ middle <= total_len
      /\ middle + 0 + 0 = middle /\ 0 + 0 = 0
      /\ c.first + c.bytes_consumed + 0 = c.first + c.bytes_consumed
  <2> DEFINE f == c.first
             b == c.bytes_consumed
             e == c.end
             m == call.count
  <2>1. /\ f \in Nat /\ b \in Nat /\ e \in Nat /\ m \in Nat /\ middle = f + b + m /\ middle <= e
        /\ e <= total_len /\ total_len \in Nat
    BY <1>1, <1>3, <1>6, Zenon
  <2> HIDE DEF f, b, e, m
  <2>2. /\ f <= middle /\ f + b + 0 <= middle /\ middle <= total_len /\ middle + 0 + 0 = middle /\ 0 + 0 = 0
        /\ f + b + 0 = f + b
    BY ONLY <2>1
  <2> QED
    BY <2>2, Zenon DEF f, b
<1> HIDE DEF w, c, x, y
<1>10. Consistent(x, 0, 0, total_len)
  BY <1>6, <1>7, <1>9, Zenon DEF Consistent, c, w
<1>11. Consistent(y, 0, 0, total_len)
  <2>1. Places(middle, 0) = <<>>
    BY DEF Places
  <2> QED
    BY <1>6, <1>8, <1>9, <2>1, Zenon DEF Consistent, c, w
<1>12. /\ consumers' \in Seq(ConsumerRecord)
       /\ \A i \in DOMAIN consumers' : i \in DOMAIN consumers \/ i = Len(consumers) + 1
       /\ consumers'[w] = x /\ consumers'[Len(consumers) + 1] = y
       /\ \A i \in DOMAIN consumers : i # w => consumers'[i] = consumers[i]
       /\ Len(consumers') = Len(consumers) + 1
       /\ Partition(consumers', total_len)
  <2>1. x.first = consumers[w].first /\ x.end = y.first /\ y.end = consumers[w].end /\ x.first <= x.end /\ x.end <= y.end
    BY <1>7, <1>8, <1>9, Zenon DEF c, w
  <2>2. Divided(consumers, w, x, y, total_len)
    BY <1>1, <1>2, <1>7, <1>8, <2>1, PlacesDivided, Zenon
  <2> QED
    BY <1>5, <2>2, Zenon DEF Divided
<1>13. pc' = "ready" /\ call' \in CallRecord
  BY DEF Return, NoCall, CallRecord
<1>14. /\ pc' \notin Calls /\ pc' \notin {"none", "new"} /\ pc' # "new" /\ pc' # "copy" /\ pc' # "pop"
       /\ pc' \in {"none", "new", "ready"}
  BY <1>13 DEF Calls
<1>15. \A i \in DOMAIN consumers' : Consistent(consumers'[i], 0, 0, total_len')
  BY <1>4, <1>10, <1>11, <1>12, Zenon
<1> QED
  BY <1>1, <1>12, <1>13, <1>14, <1>15, Zenon DEF ConsumerInv

\* split_at cuts the slices at the offset, inside a slice or between two.
LEMMA SlicesCut ==
  ASSUME NEW c \in ConsumerRecord, Sound(c.buffers, c.first + c.bytes_consumed, c.end),
         NEW count \in Nat, NEW k \in Nat, NEW r \in Nat, k < Len(c.buffers),
         r = count - Passed(c, k), r < c.buffers[k + 1].len
  PROVE  LET bs == c.buffers
             p == c.first + c.bytes_consumed
         IN  /\ Sound(SubSeq(bs, 1, k)
                         \o (IF r > 0 THEN <<[from |-> bs[k + 1].from, len |-> r]>> ELSE <<>>),
                       p, p + count)
             /\ Sound(<<Offset(bs[k + 1], r)>> \o SubSeq(bs, k + 2, Len(bs)), p + count, c.end)
             /\ p + count <= c.end /\ count <= Left(c)
<1> DEFINE bs == c.buffers
           p == c.first + c.bytes_consumed
           a == After(bs, p, k)
           v == bs[k + 1].len
           e == c.end
<1>1. /\ p \in Nat /\ e \in Nat /\ Len(bs) \in Nat
  BY Fields
<1>2. k <= Len(bs)
  BY <1>1
<1>3. /\ a \in Nat /\ v \in Nat /\ p <= a /\ a + v <= e /\ bs[k + 1].from = a
  <2>1. /\ After(bs, p, k) \in Nat /\ v \in Nat /\ p <= a /\ After(bs, p, k + 1) <= e
        /\ After(bs, p, k + 1) = a + v /\ bs[k + 1].from = a
    BY SoundStep
  <2> QED
    BY <2>1, Zenon
<1>4. r = count - (a - p) /\ r < v
  BY Zenon DEF Passed
<1> HIDE DEF a, v, e, p
<1>5. a + r = p + count /\ r <= v /\ p + count <= e /\ count <= e - p
  <2>1. /\ p \in Nat /\ e \in Nat /\ a \in Nat /\ v \in Nat /\ r \in Nat /\ count \in Nat
        /\ p <= a /\ a + v <= e /\ r = count - (a - p) /\ r < v
    BY <1>1, <1>3, <1>4, Zenon
  <2> QED
    BY ONLY <2>1
<1>6. Sound(<<Offset(bs[k + 1], r)>> \o SubSeq(bs, k + 2, Len(bs)), a + r, e)
  <2>1. r <= bs[k + 1].len
    BY <1>5, Zenon DEF v
  <2> QED
    BY <2>1, SoundCut, Zenon DEF a, e, p
<1>7. CASE r > 0
  <2>1. Sound(SubSeq(bs, 1, k) \o <<[from |-> bs[k + 1].from, len |-> r]>>, p, a + r)
    BY SoundKept, Zenon DEF a, p
  <2> QED
    BY <1>5, <1>6, <1>7, <2>1, Zenon DEF e, p, Left
<1>8. CASE ~(r > 0)
  <2>1. Sound(SubSeq(bs, 1, k), p, a)
    BY <1>2, SoundPrefix, Zenon DEF a, p
  <2>2. SubSeq(bs, 1, k) \o <<>> = SubSeq(bs, 1, k)
    <3>1. SubSeq(bs, 1, k) \in Seq(Slice)
      BY <2>1, Zenon DEF Sound
    <3> QED
      BY <3>1, ConcatEmptySeq
  <2>3. a = p + count
    BY <1>3, <1>5, <1>8
  <2> QED
    BY <1>5, <1>6, <1>8, <2>1, <2>2, <2>3, Zenon DEF e, p, Left
<1> QED
  BY <1>7, <1>8

\* split_at: position finds the slice to cut, and the split follows.  It splits just when
\* the offset is not behind the end.
LEMMA PositionStep ==
  ASSUME ConsumerInv, Position
  PROVE  /\ ConsumerInv'
         /\ pc' = "ready" =>
              (Len(consumers') > Len(consumers) <=> call.count <= Left(consumers[call.who]))
<1> DEFINE w == call.who
           c == consumers[w]
           k == call.at
           r == call.rem
           l == Len(c.buffers)
           p == c.first + c.bytes_consumed
<1>1. /\ pc = "position" /\ UNCHANGED total_len /\ pc \in Calls /\ call \in CallRecord
      /\ Len(consumers) \in Nat
  BY DEF Position, ConsumerInv, Calls
<1>2. /\ c \in ConsumerRecord /\ Sound(c.buffers, p, c.end)
      /\ k <= l /\ r = call.count - Passed(c, k)
  BY <1>1, Running DEF Loop, Buffers
<1>3. /\ k \in Nat /\ r \in Nat /\ call.count \in Nat /\ l \in Nat /\ c.first \in Nat
      /\ c.bytes_consumed \in Nat /\ c.end \in Nat
  BY <1>1, <1>2, Fields, Zenon
<1>4. /\ Passed(c, l) = Left(c) /\ Passed(c, k) \in Nat /\ Left(c) \in Nat
      /\ k < l => /\ c.buffers[k + 1].len \in Nat /\ k + 1 <= l
                  /\ Passed(c, k + 1) = Passed(c, k) + c.buffers[k + 1].len
  BY <1>2, <1>3, PassedStep, Zenon
<1>5. CASE k < l /\ r >= c.buffers[k + 1].len
  <2> DEFINE v == c.buffers[k + 1].len
  <2>1. UNCHANGED <<pc, consumers>> /\ call' = [call EXCEPT !.at = k + 1, !.rem = r - v]
    BY <1>5 DEF Position, Buffers
  <2>2. r - v \in Nat /\ k + 1 \in Nat /\ r - v = call.count - Passed(c, k + 1)
    <3> DEFINE m == Passed(c, k)
               n == call.count
    <3>1. /\ r \in Nat /\ v \in Nat /\ m \in Nat /\ n \in Nat /\ k \in Nat /\ r >= v /\ r = n - m
          /\ Passed(c, k + 1) = m + v
      BY <1>2, <1>3, <1>4, <1>5, Zenon
    <3> HIDE DEF r, v, k, c, m, n
    <3>2. r - v \in Nat /\ k + 1 \in Nat /\ r - v = n - (m + v)
      BY ONLY <3>1
    <3> QED
      BY <3>1, <3>2, Zenon DEF n
  <2>3. call' \in CallRecord /\ call'.who = call.who /\ call'.at = k + 1 /\ call'.rem = r - v
        /\ call'.count = call.count
    <3> HIDE DEF v, k, r
    <3> QED
      BY <1>1, <2>1, <2>2, Zenon DEF CallRecord
  <2>4. Loop(pc, call', c)
    <3> HIDE DEF c, k, r, v
    <3>1. pc # "gather" /\ pc # "copy" /\ pc # "pop" /\ pc # "available"
      BY <1>1
    <3> QED
      BY <1>4, <1>5, <2>2, <2>3, <3>1, Zenon DEF Loop, l
  <2>5. pc' # "ready"
    BY <1>1, <2>1
  <2> QED
    BY <1>1, <2>1, <2>3, <2>4, <2>5, TurnStep, Zenon
<1>6. CASE ~(k < l /\ r >= c.buffers[k + 1].len)
  <2>1. /\ Return
        /\ k < l => Split(KeptBuffers, OtherBuffers)
        /\ ~(k < l) /\ r = 0 => Split(Buffers, <<>>)
        /\ ~(k < l) /\ r # 0 => consumers' = consumers
    BY <1>6 DEF Position, Buffers
  <2> DEFINE middle == p + call.count
  <2>2. CASE k < l
    <3>1. r < c.buffers[k + 1].len
      <4> DEFINE v == c.buffers[k + 1].len
      <4>1. v \in Nat /\ ~(r >= v)
        BY <1>4, <1>6, <2>2, Zenon
      <4> HIDE DEF v, r
      <4>2. r < v
        BY <1>3, <4>1
      <4> QED
        BY <4>2, Zenon DEF v
    <3>2. /\ Sound(KeptBuffers, p, middle) /\ Sound(OtherBuffers, middle, c.end)
          /\ middle <= c.end /\ call.count <= Left(c)
      <4>1. /\ Sound(SubSeq(c.buffers, 1, k)
                        \o (IF r > 0 THEN <<[from |-> c.buffers[k + 1].from, len |-> r]>> ELSE <<>>),
                      p, middle)
            /\ Sound(<<Offset(c.buffers[k + 1], r)>> \o SubSeq(c.buffers, k + 2, Len(c.buffers)), middle, c.end)
            /\ middle <= c.end /\ call.count <= Left(c)
        <5> HIDE DEF w, c, k, r
        <5> QED
          BY <1>2, <1>3, <2>2, <3>1, SlicesCut, Zenon
      <4> QED
        BY <4>1 DEF KeptBuffers, OtherBuffers, Buffers
    <3>3. ConsumerInv' /\ Len(consumers') = Len(consumers) + 1
      BY <1>1, <2>1, <2>2, <3>2, SplitStep, Zenon
    <3>4. Len(consumers') > Len(consumers)
      BY <1>1, <3>3
    <3> QED
      BY <3>2, <3>3, <3>4, Zenon
  <2>3. CASE ~(k < l) /\ r = 0
    <3>1. k = l
      BY <1>2, <1>3, <2>3
    <3>2. call.count = Left(c) /\ middle = c.end
      <4>1. 0 = call.count - Left(c)
        BY <1>2, <1>4, <2>3, <3>1, Zenon
      <4>2. call.count = Left(c)
        BY <1>3, <1>4, <4>1
      <4>3. call.count = c.end - p
        BY <4>2, Zenon DEF Left
      <4> QED
        BY <1>3, <4>2, <4>3
    <3>3. Sound(Buffers, p, middle) /\ Sound(<<>>, middle, c.end) /\ middle <= c.end
      <4>1. Sound(<<>>, c.end, c.end) /\ c.end <= c.end
        BY <1>3, SoundEmpty
      <4> QED
        BY <1>2, <3>2, <4>1, Zenon DEF Buffers
    <3>4. ConsumerInv' /\ Len(consumers') = Len(consumers) + 1
      BY <1>1, <2>1, <2>3, <3>3, SplitStep, Zenon
    <3>5. Len(consumers') > Len(consumers) /\ call.count <= Left(c)
      BY <1>1, <1>4, <3>2, <3>4
    <3> QED
      BY <3>4, <3>5, Zenon
  <2>4. CASE ~(k < l) /\ r # 0
    <3>1. k = l
      BY <1>2, <1>3, <2>4
    <3>2. ~(call.count <= Left(c))
      <4>1. r = call.count - Left(c)
        BY <1>2, <1>4, <3>1, Zenon
      <4> HIDE DEF r, c
      <4> QED
        BY <1>3, <1>4, <2>4, <4>1
    <3>3. consumers' = consumers /\ ConsumerInv'
      BY <1>1, <2>1, <2>4, ReturnStep
    <3>4. ~(Len(consumers') > Len(consumers))
      BY <1>1, <3>3
    <3> QED
      BY <3>2, <3>3, <3>4, Zenon
  <2> QED
    BY <2>2, <2>3, <2>4, Zenon
<1> QED
  BY <1>5, <1>6, Zenon

\* Every step keeps the invariant.
LEMMA ConsumerStep ==
  ConsumerInv /\ [ConsumerNext]_consumerVars => ConsumerInv'
<1> SUFFICES ASSUME ConsumerInv, [ConsumerNext]_consumerVars PROVE ConsumerInv'
  OBVIOUS
<1>1. ASSUME NEW d \in DataDescriptor, Collect(d) PROVE ConsumerInv'
  BY <1>1, CollectStep
<1>2. ASSUME NEW i \in DOMAIN consumers, Start("available", i, 0) PROVE ConsumerInv'
  BY <1>2, StartStep
<1>3. ASSUME NEW i \in DOMAIN consumers, NEW n \in 0 .. MaxCount,
             Start("gather", i, n) \/ Start("position", i, n)
      PROVE  ConsumerInv'
  <2>1. n \in Nat
    BY ConsumerAssumption
  <2> QED
    BY <1>3, <2>1, StartStep
<1>4. CASE UNCHANGED consumerVars
  BY <1>4 DEF consumerVars, ConsumerInv, Idle
<1> QED
  BY <1>1, <1>2, <1>3, <1>4, StartsEmpty, EndNewStep, CountAvailableStep, GatherStep, CopyStep,
     PopStep, PositionStep, Zenon DEF ConsumerNext

\* The invariant holds of every behaviour of new, available_bytes, consume and split_at.
LEMMA ConsumerInvariance == ConsumerSpec => []ConsumerInv
<1>1. ConsumerInit => ConsumerInv
  BY StartsEmpty
<1> QED
  BY <1>1, ConsumerStep, PTL DEF ConsumerSpec
-----------------------------------------------------------------------------
\* Reader and Writer give out every byte of the chain once and in order, for chains, reads
\* and splits of any number and size (descriptor_utils.rs, new, consume and split_at).
THEOREM EachByteOnce == ConsumerSpec => []BytesPartitioned
<1>1. ConsumerInv => BytesPartitioned
  <2> SUFFICES ASSUME ConsumerInv, pc = "ready"
               PROVE  /\ \A p \in 0 .. total_len - 1 : \E i \in DOMAIN consumers :
                           consumers[i].first <= p /\ p < consumers[i].end
                      /\ \A i, j \in DOMAIN consumers : i # j =>
                           consumers[i].end <= consumers[j].first \/ consumers[j].end <= consumers[i].first
                      /\ \A i \in DOMAIN consumers :
                           /\ consumers[i].got = Places(consumers[i].first, consumers[i].bytes_consumed)
                           /\ Tiles(consumers[i].buffers, consumers[i].first + consumers[i].bytes_consumed,
                                    consumers[i].end)
    BY Zenon DEF BytesPartitioned
  <2>1. pc \notin {"none", "new"} /\ pc \notin {"copy", "pop"} /\ consumers \in Seq(ConsumerRecord)
    BY DEF ConsumerInv
  <2>2. Partition(consumers, total_len) /\ \A i \in DOMAIN consumers : Consistent(consumers[i], 0, 0, total_len)
    BY <2>1, Zenon DEF ConsumerInv, Idle
  <2>3. ASSUME NEW i \in DOMAIN consumers
        PROVE  /\ consumers[i].got = Places(consumers[i].first, consumers[i].bytes_consumed)
               /\ Tiles(consumers[i].buffers, consumers[i].first + consumers[i].bytes_consumed, consumers[i].end)
    <3>1. consumers[i] \in ConsumerRecord
      BY <2>1
    <3>2. /\ consumers[i].bytes_consumed + 0 = consumers[i].bytes_consumed
          /\ consumers[i].first + consumers[i].bytes_consumed + 0
               = consumers[i].first + consumers[i].bytes_consumed
      BY <3>1, Fields
    <3> QED
      BY <2>2, <3>2, Zenon DEF Consistent, Sound
  <2> QED
    BY <2>2, <2>3, Zenon DEF Partition
<1> QED
  BY <1>1, ConsumerInvariance, PTL

\* available_bytes is exact and does not overflow (descriptor_utils.rs:31, whose comment
\* says that the constructors rule an overflow out).
THEOREM AvailableIsExact == ConsumerSpec => []AvailableExact
<1>1. ConsumerInv => AvailableExact
  <2> SUFFICES ASSUME ConsumerInv, pc = "available"
               PROVE  /\ call.num <= MaxUsize
                      /\ call.at = Len(Buffers) => call.num = Left(consumers[call.who])
    BY Zenon DEF AvailableExact
  <2> DEFINE c == consumers[call.who]
  <2>1. pc \in Calls /\ pc \notin {"copy", "pop"} /\ call \in CallRecord /\ total_len \in Nat /\ total_len <= MaxUsize
    BY DEF ConsumerInv, Calls
  <2>2. /\ c \in ConsumerRecord /\ call.who \in DOMAIN consumers /\ call.at <= Len(c.buffers)
        /\ Sound(c.buffers, c.first + c.bytes_consumed, c.end) /\ call.num = Passed(c, call.at)
    BY <2>1, Running DEF Loop, Buffers
  <2>3. /\ call.num \in Nat /\ call.at \in Nat /\ c.first \in Nat /\ c.bytes_consumed \in Nat
        /\ c.end \in Nat /\ c.end <= total_len
    <3>1. Consistent(c, 0, 0, total_len)
      BY <2>1, <2>2, Zenon DEF ConsumerInv, Idle
    <3> QED
      BY <2>1, <2>2, <3>1, Fields, Zenon DEF Consistent
  <2>4. call.num <= Left(c) /\ (call.at = Len(c.buffers) => call.num = Left(c)) /\ Left(c) \in Nat
    BY <2>2, <2>3, PassedStep, Zenon
  <2>5. Left(c) <= c.end
    BY <2>3 DEF Left
  <2>6. MaxUsize \in Nat
    BY ConsumerAssumption
  <2> HIDE DEF c
  <2>7. call.num <= MaxUsize
    BY <2>1, <2>3, <2>4, <2>5, <2>6
  <2> QED
    BY <2>4, <2>7, Zenon DEF c, Buffers
<1> QED
  BY <1>1, ConsumerInvariance, PTL

\* consume transfers what was asked for or all that is left (descriptor_utils.rs, consume
\* under Reader::read and Writer::write).
THEOREM ReadsInFull == ConsumerSpec => ConsumesAll
<1> DEFINE A == pc' = "ready" /\ pc \in {"gather", "copy", "pop"} =>
                  consumers'[call.who].bytes_consumed - consumers[call.who].bytes_consumed
                    = Lesser(call.count, Left(consumers[call.who]))
<1>1. ConsumerInv /\ [ConsumerNext]_consumerVars => [A]_consumerVars
  <2> SUFFICES ASSUME ConsumerInv, ConsumerNext, pc' = "ready", pc \in {"gather", "copy", "pop"}
               PROVE  AllConsumed
    BY DEF AllConsumed
  <2>1. pc # "none" /\ pc # "new" /\ pc # "ready" /\ pc # "available" /\ pc # "position"
    OBVIOUS
  <2>2. Gather \/ Copy \/ Pop
    BY <2>1, Zenon DEF ConsumerNext, StartNew, Collect, EndNew, Start, CountAvailable, Position
  <2> QED
    BY <2>2, GatherStep, CopyStep, PopStep, Zenon
<1> HIDE DEF A
<1>2. ConsumerSpec => [][A]_consumerVars
  BY <1>1, ConsumerInvariance, PTL DEF ConsumerSpec
<1> QED
  BY <1>2 DEF A, ConsumesAll

\* split_at succeeds for an offset up to and including the end of the stream, and for no
\* other (descriptor_utils.rs, split_at).
THEOREM SplitsWithinStream == ConsumerSpec => SplitExact
<1> DEFINE A == pc' = "ready" /\ pc = "position" =>
                  (Len(consumers') > Len(consumers) <=> call.count <= Left(consumers[call.who]))
<1>1. ConsumerInv /\ [ConsumerNext]_consumerVars => [A]_consumerVars
  <2> SUFFICES ASSUME ConsumerInv, ConsumerNext, pc' = "ready", pc = "position"
               PROVE  Len(consumers') > Len(consumers) <=> call.count <= Left(consumers[call.who])
    BY Zenon
  <2>1. pc # "none" /\ pc # "new" /\ pc # "ready" /\ pc # "available" /\ pc # "gather" /\ pc # "copy" /\ pc # "pop"
    OBVIOUS
  <2>2. Position
    BY <2>1, Zenon DEF ConsumerNext, StartNew, Collect, EndNew, Start, CountAvailable, Gather, Copy, Pop
  <2> QED
    BY <2>2, PositionStep, Zenon
<1> HIDE DEF A
<1>2. ConsumerSpec => [][A]_consumerVars
  BY <1>1, ConsumerInvariance, PTL DEF ConsumerSpec
<1> QED
  BY <1>2 DEF A, SplitExact
=============================================================================
