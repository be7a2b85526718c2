------------------------ MODULE DescriptorChainProofs ------------------------
(***************************************************************************)
(* The walk over a descriptor chain follows the links, is bounded, stops   *)
(* early only for a fault of the driver and stays ended once it has ended, *)
(* for every queue size and every content of the tables.                   *)
(***************************************************************************)
EXTENDS DescriptorChain, FiniteSetTheorems, TLAPS

\* The tables hold descriptors, and a chain at an end stays there.
TablesOK ==
  /\ DOMAIN tables.main \subseteq Nat /\ DOMAIN tables.indirect \subseteq Nat
  /\ \A i \in DOMAIN tables.main : tables.main[i] \in Descriptors(QSize)
  /\ \A i \in DOMAIN tables.indirect : tables.indirect[i] \in Descriptors(MaxTable)

Ended == Resolved(chain) = chain /\ ~Yields(chain)

\* The indices of table t among the places ys.
IndicesIn(ys, t) == {ys[k][2] : k \in {j \in DOMAIN ys : ys[j][1] = t}}

LastOf(ys) == ys[Len(ys)]

\* Place k of ys points to the one after it (LinksFollowed, for any places).
LinkAt(ys, k) ==
  IF ys[k][1] = ys[k + 1][1] THEN Desc(ys[k]).next = ys[k + 1][2]
  ELSE /\ ys[k + 1] = <<"indirect", 0>>
       /\ Desc(ys[k]).next # NoNext /\ Desc(<<"main", Desc(ys[k]).next>>).indirect

LinksIn(ys) == \A k \in 1 .. Len(ys) - 1 : LinkAt(ys, k)

\* The last descriptor returned has a next one.
Moving(ys) == ys # <<>> => Desc(LastOf(ys)).next # NoNext

\* The chain c is where the last of the places ys points to, or at the start of the
\* indirect table that is found there.
Linked(ys, c) ==
  ys # <<>> =>
    /\ c.ttl > 0 => Desc(LastOf(ys)).next # NoNext
    /\ Desc(LastOf(ys)).next # NoNext =>
         IF LastOf(ys)[1] = c.desc_table THEN Desc(LastOf(ys)).next = c.next_index
         ELSE /\ LastOf(ys)[1] = "main" /\ c.desc_table = "indirect" /\ c.next_index = 0
              /\ Desc(<<"main", Desc(LastOf(ys)).next>>).indirect

\* The walk of a table goes round in a loop, or each of its steps found a new index:
\* ttl and the number of those make up the size of the table.
Visited(ys, c) ==
  /\ c.desc_table = "main" => \A k \in DOMAIN ys : ys[k][1] = "main"
  /\ IndicesIn(ys, c.desc_table) \subseteq 0 .. c.queue_size - 1
  /\ Moving(ys) => \/ c.next_index \in IndicesIn(ys, c.desc_table)
                   \/ c.ttl + Cardinality(IndicesIn(ys, c.desc_table)) = c.queue_size

IInv ==
  /\ TypeOK
  /\ TablesOK
  /\ ChainBounded
  /\ LinksFollowed
  /\ Linked(yielded, chain)
  /\ Visited(yielded, chain)
  /\ chain.is_indirect <=> chain.desc_table = "indirect"
  /\ result = "none" => Ended

ChainType == [desc_table : {"main", "indirect"}, queue_size : 0 .. QSize + MaxTable,
              next_index : Nat, ttl : 0 .. QSize + MaxTable, yielded_bytes : 0 .. ByteMod - 1,
              is_indirect : BOOLEAN]

\* What a read returns: lengths and links are numbers.
LEMMA ReadType ==
  ASSUME TablesOK, NEW c \in ChainType, CanRead(c)
  PROVE  /\ Read(c).len \in Nat
         /\ Read(c).next # NoNext => Read(c).next \in Nat
<1>1. /\ DataLens \subseteq Nat /\ TableLens \subseteq Nat
  BY ChainAssumption
<1>2. Read(c) \in Descriptors(QSize) \/ Read(c) \in Descriptors(MaxTable)
  BY DEF TablesOK, CanRead, Read, ChainType
<1> QED
  <2>1. ASSUME NEW m \in Nat, Read(c) \in Descriptors(m)
        PROVE  /\ Read(c).len \in Nat
               /\ Read(c).next # NoNext => Read(c).next \in Nat
    <3>1. /\ Read(c).len \in DataLens \/ Read(c).len \in TableLens
          /\ Read(c).next \in {NoNext} \union 0 .. m
      BY <2>1, Zenon DEF Descriptors
    <3>2. Read(c).next = NoNext \/ Read(c).next \in 0 .. m
      BY <3>1
    <3>3. Read(c).next \in 0 .. m => Read(c).next \in Nat
      OBVIOUS
    <3> QED
      BY <1>1, <3>1, <3>2, <3>3, Zenon
  <2> QED
    BY <1>2, <2>1, ChainAssumption

\* What switch_to_indirect_table leaves: a chain that cannot switch again and has
\* no more steps than the indirect table has entries.
LEMMA SwitchKeeps ==
  ASSUME TablesOK, NEW c \in ChainType, CanRead(c), CanSwitch(c, Read(c))
  PROVE  /\ Switched(c, Read(c)) \in ChainType
         /\ Switched(c, Read(c)).ttl = Switched(c, Read(c)).queue_size
         /\ Switched(c, Read(c)).is_indirect
         /\ Switched(c, Read(c)).desc_table = "indirect"
         /\ Switched(c, Read(c)).next_index = 0
         /\ Resolved(Switched(c, Read(c))) = Switched(c, Read(c))
<1> DEFINE n == Read(c).len \div DescSize
<1>1. n \in 0 .. QSize + MaxTable
  <2>1. Read(c).len \in Nat /\ n <= MaxTable
    BY ReadType DEF CanSwitch
  <2>2. n \in Nat
    BY <2>1 DEF DescSize
  <2> QED
    BY <2>1, <2>2, ChainAssumption
<1>2. Switched(c, Read(c)) = [c EXCEPT !.desc_table = "indirect", !.queue_size = n,
                                       !.next_index = 0, !.ttl = n, !.is_indirect = TRUE]
  BY DEF Switched
<1> HIDE DEF n
<1>3. /\ Switched(c, Read(c)) \in ChainType
      /\ Switched(c, Read(c)).ttl = Switched(c, Read(c)).queue_size
      /\ Switched(c, Read(c)).is_indirect
      /\ Switched(c, Read(c)).desc_table = "indirect"
      /\ Switched(c, Read(c)).next_index = 0
  <2>1. /\ c.yielded_bytes \in 0 .. ByteMod - 1
        /\ DOMAIN c = {"desc_table", "queue_size", "next_index", "ttl", "yielded_bytes", "is_indirect"}
    BY DEF ChainType
  <2>2. Switched(c, Read(c)) =
          [desc_table |-> "indirect", queue_size |-> n, next_index |-> 0, ttl |-> n,
           yielded_bytes |-> c.yielded_bytes, is_indirect |-> TRUE]
    BY <1>2, <2>1, Zenon DEF ChainType
  <2> QED
    BY <1>1, <2>1, <2>2 DEF ChainType
<1> QED
  BY <1>3 DEF Resolved, CanSwitch

\* The places of a table after one more was returned.
LEMMA IndicesGrow ==
  ASSUME NEW S, NEW ys \in Seq(S), NEW t, NEW i
  PROVE  IndicesIn(Append(ys, <<t, i>>), t) = IndicesIn(ys, t) \union {i}
<1> DEFINE n == Len(ys)
           zs == Append(ys, <<t, i>>)
<1>1. /\ n \in Nat /\ DOMAIN ys = 1 .. n /\ DOMAIN zs = 1 .. n + 1
      /\ \A k \in 1 .. n : zs[k] = ys[k]
      /\ zs[n + 1] = <<t, i>>
  OBVIOUS
<1>2. 1 .. n + 1 = (1 .. n) \union {n + 1}
  BY <1>1
<1> HIDE DEF n, zs
<1>3. ASSUME NEW x
      PROVE  x \in IndicesIn(zs, t) <=> x \in IndicesIn(ys, t) \union {i}
  <2>1. x \in IndicesIn(zs, t) <=> \E k \in 1 .. n + 1 : zs[k][1] = t /\ x = zs[k][2]
    BY <1>1, Zenon DEF IndicesIn
  <2>2. x \in IndicesIn(ys, t) <=> \E k \in 1 .. n : ys[k][1] = t /\ x = ys[k][2]
    BY <1>1, Zenon DEF IndicesIn
  <2> QED
    BY <1>1, <1>2, <2>1, <2>2
<1> QED
  BY <1>3 DEF zs

\* Switching to an indirect table keeps the chain where the last descriptor points.
LEMMA ResolvedLinked ==
  ASSUME IInv
  PROVE  Linked(yielded, Resolved(chain)) /\ Visited(yielded, Resolved(chain))
<1> DEFINE c == Resolved(chain)
           d == Read(chain)
<1>1. CASE CanRead(chain) /\ d.indirect /\ CanSwitch(chain, d)
  <2>0. chain \in ChainType /\ yielded \in Seq({"main", "indirect"} \X Nat)
    BY DEF IInv, TypeOK, ChainType
  <2>1. c = Switched(chain, d)
    BY <1>1, Zenon DEF Resolved
  <2>2. /\ c \in ChainType /\ c.ttl = c.queue_size /\ c.desc_table = "indirect"
        /\ c.next_index = 0
    BY <1>1, <2>0, <2>1, SwitchKeeps, Zenon DEF IInv
  <2>3. chain.desc_table = "main" /\ chain.ttl > 0
    BY <1>1, <2>0 DEF IInv, CanSwitch, CanRead, ChainType
  <2>4. \A k \in DOMAIN yielded : yielded[k][1] = "main"
    BY <2>3 DEF IInv, Visited
  <2> HIDE DEF c
  <2>5. Linked(yielded, c)
    <3>1. SUFFICES ASSUME yielded # <<>>
                   PROVE  /\ Desc(LastOf(yielded)).next # NoNext
                          /\ LastOf(yielded)[1] = "main"
                          /\ Desc(<<"main", Desc(LastOf(yielded)).next>>).indirect
      BY <2>2 DEF Linked
    <3>2. Len(yielded) \in DOMAIN yielded
      BY <2>0, <3>1
    <3>3. LastOf(yielded)[1] = "main"
      BY <2>4, <3>2 DEF LastOf
    <3>4. Desc(LastOf(yielded)).next # NoNext /\ Desc(LastOf(yielded)).next = chain.next_index
      BY <2>3, <3>1, <3>3 DEF IInv, Linked
    <3> QED
      BY <1>1, <2>3, <3>3, <3>4 DEF Desc, Read
  <2>6. Visited(yielded, c)
    <3>1. IndicesIn(yielded, "indirect") = {}
      BY <2>4 DEF IndicesIn
    <3>2. Cardinality(IndicesIn(yielded, "indirect")) = 0
      BY <3>1, FS_EmptySet
    <3>3. c.ttl + Cardinality(IndicesIn(yielded, "indirect")) = c.queue_size
      BY <2>2, <3>2, ChainAssumption DEF ChainType
    <3> QED
      BY <2>2, <3>1, <3>3 DEF Visited
  <2> QED
    BY <2>5, <2>6 DEF c
<1>2. CASE ~(CanRead(chain) /\ d.indirect /\ CanSwitch(chain, d))
  BY <1>2 DEF Resolved, IInv
<1> QED
  BY <1>1, <1>2

\* The descriptor returned is linked to the one before it, and the chain to it.
LEMMA YieldLinked ==
  ASSUME IInv, NEW c \in ChainType, Linked(yielded, c), Visited(yielded, c), Yields(c),
         NEW ys, ys = Append(yielded, <<c.desc_table, c.next_index>>),
         NEW e, e = Advanced(c, Read(c))
  PROVE  LinksIn(ys) /\ Linked(ys, e) /\ Visited(ys, e)
<1> DEFINE n == Len(yielded)
           t == c.desc_table
           i == c.next_index
           d == Read(c)
<1>1. /\ yielded \in Seq({"main", "indirect"} \X Nat) /\ n \in Nat
      /\ DOMAIN yielded = 1 .. n /\ (yielded = <<>> <=> n = 0)
  BY DEF IInv, TypeOK
<1>2. /\ Len(ys) = n + 1 /\ DOMAIN ys = 1 .. n + 1
      /\ \A k \in 1 .. n : ys[k] = yielded[k]
      /\ ys[n + 1] = <<t, i>> /\ LastOf(ys) = <<t, i>> /\ ys # <<>>
  BY <1>1 DEF LastOf
<1>3. /\ c.ttl > 0 /\ i < c.queue_size /\ d = Desc(<<t, i>>)
      /\ {i, c.ttl, c.queue_size} \subseteq Nat
  BY ChainAssumption DEF Yields, CanRead, Read, Desc, ChainType
<1>4. /\ e.desc_table = t /\ e.queue_size = c.queue_size
      /\ d.next # NoNext => e.next_index = d.next /\ e.ttl = c.ttl - 1
      /\ d.next = NoNext => e.ttl = 0
  BY DEF Advanced, ChainType
<1>5. ASSUME NEW k \in 1 .. n
      PROVE  LinkAt(ys, k)
  <2>1. CASE k < n
    <3>1. k \in 1 .. n - 1 /\ k + 1 \in 1 .. n
      BY <1>1, <2>1
    <3>2. ys[k] = yielded[k] /\ ys[k + 1] = yielded[k + 1]
      BY <1>2, <3>1
    <3> QED
      BY <3>1, <3>2 DEF IInv, LinksFollowed, Table, LinkAt
  <2>2. CASE k = n
    <3>1. ys[k] = LastOf(yielded) /\ ys[k + 1] = <<t, i>> /\ yielded # <<>>
      BY <1>1, <1>2, <2>2 DEF LastOf
    <3>2. Desc(ys[k]).next # NoNext
      BY <1>3, <3>1 DEF Linked
    <3> QED
      BY <3>1, <3>2 DEF Linked, LinkAt
  <2>3. n \in Nat
    BY <1>1
  <2> HIDE DEF n, t, i, d
  <2>4. k < n \/ k = n
    BY <2>3
  <2> QED
    BY <2>1, <2>2, <2>4, Zenon
<1>6. Linked(ys, e)
  <2>1. Desc(LastOf(ys)) = d /\ LastOf(ys)[1] = t
    BY <1>2, <1>3
  <2> HIDE DEF d, t, i
  <2>2. e.ttl > 0 => d.next # NoNext
    BY <1>4
  <2>3. d.next # NoNext => LastOf(ys)[1] = e.desc_table /\ d.next = e.next_index
    BY <1>4, <2>1
  <2> QED
    BY <2>1, <2>2, <2>3, Zenon DEF Linked
<1>7. e.desc_table = "main" => \A k \in DOMAIN ys : ys[k][1] = "main"
  BY <1>1, <1>2, <1>4 DEF Visited
<1>8. IndicesIn(ys, t) = IndicesIn(yielded, t) \union {i}
  BY <1>1, IndicesGrow
<1>9. IndicesIn(ys, t) \subseteq 0 .. c.queue_size - 1
  BY <1>3, <1>8 DEF Visited
<1>10. ASSUME Moving(ys)
       PROVE  \/ e.next_index \in IndicesIn(ys, t)
              \/ e.ttl + Cardinality(IndicesIn(ys, t)) = c.queue_size
  <2>1. d.next # NoNext /\ e.next_index = d.next /\ e.ttl = c.ttl - 1
    BY <1>2, <1>3, <1>4, <1>10 DEF Moving
  <2>2. CASE i \in IndicesIn(yielded, t)
    <3>1. PICK k \in 1 .. n : yielded[k][1] = t /\ yielded[k][2] = i
      BY <1>1, <2>2, Zenon DEF IndicesIn
    <3>2. yielded[k] \in {"main", "indirect"} \X Nat
      BY <1>1, <3>1
    <3>3. ys[k] = <<t, i>> /\ ys[k][1] = t
      BY <1>2, <3>1, <3>2
    <3>4. k + 1 \in DOMAIN ys /\ t \in {"main", "indirect"}
      BY <1>1, <1>2 DEF ChainType
    <3> HIDE DEF t, i, d, n
    <3>5. ys[k + 1][1] = t
      <4>1. CASE t = "main"
        BY <1>4, <1>7, <3>4, <4>1, Zenon
      <4>2. CASE t = "indirect"
        <5>1. ys[k][1] # ys[k + 1][1] => ys[k + 1] = <<"indirect", 0>>
          BY <1>5, <3>1, Zenon DEF LinkAt
        <5>2. <<"indirect", 0>>[1] = "indirect"
          OBVIOUS
        <5> QED
          BY <3>3, <4>2, <5>1, <5>2, Zenon
      <4> QED
        BY <3>4, <4>1, <4>2
    <3>6. d.next = ys[k + 1][2]
      <4>1. Desc(ys[k]) = d
        BY <1>3, <3>3, Zenon
      <4> QED
        BY <1>5, <3>3, <3>5, <4>1, Zenon DEF LinkAt
    <3> QED
      BY <2>1, <3>4, <3>5, <3>6, Zenon DEF IndicesIn
  <2>3. CASE i \notin IndicesIn(yielded, t)
    <3>1. Moving(yielded)
      BY <1>3 DEF Moving, Linked
    <3>2. c.ttl + Cardinality(IndicesIn(yielded, t)) = c.queue_size
      BY <2>3, <3>1 DEF Visited
    <3>3. IsFiniteSet(IndicesIn(yielded, t))
      <4>1. IsFiniteSet(0 .. c.queue_size - 1)
        BY <1>3, FS_Interval
      <4> QED
        BY <4>1, FS_Subset, Zenon DEF Visited
    <3>4. Cardinality(IndicesIn(ys, t)) = Cardinality(IndicesIn(yielded, t)) + 1
      BY <1>8, <2>3, <3>3, FS_AddElement
    <3>5. Cardinality(IndicesIn(yielded, t)) \in Nat
      BY <3>3, FS_CardinalityType
    <3>6. c.ttl \in Nat /\ c.queue_size \in Nat
      BY <1>3
    <3> HIDE DEF t, i, d, n
    <3> QED
      BY <2>1, <3>2, <3>4, <3>5, <3>6
  <2> QED
    BY <2>2, <2>3
<1>11. Visited(ys, e)
  BY <1>4, <1>7, <1>9, <1>10 DEF Visited
<1>12. LinksIn(ys)
  <2>1. Len(ys) - 1 = n
    BY <1>1, <1>2
  <2> HIDE DEF n, t, i, d
  <2> QED
    BY <1>5, <2>1, Zenon DEF LinksIn
<1> QED
  BY <1>6, <1>11, <1>12

\* A chain that next cannot take further is at its end.
LEMMA EndedStays ==
  ASSUME NEW c, chain' = c, UNCHANGED tables, Resolved(c) = c, ~Yields(c)
  PROVE  Ended'
BY Zenon DEF Ended, Resolved, Yields, CanRead, Read, CanSwitch, Switched, AddsUp

\* The places returned do not depend on anything but the tables.
LEMMA LinksKept ==
  ASSUME UNCHANGED tables,
         LinksIn(yielded'), Linked(yielded', chain'), Visited(yielded', chain')
  PROVE  (LinksFollowed /\ Linked(yielded, chain) /\ Visited(yielded, chain))'
BY Zenon DEF LinksFollowed, LinksIn, LinkAt, Linked, Visited, Moving, LastOf, IndicesIn, Table, Desc

\* Every call of next keeps the invariant.
LEMMA ChainStep ==
  ASSUME IInv, NextDescriptor
  PROVE  IInv'
<1> DEFINE c == Resolved(chain)
           n == Len(yielded)
<1>1. chain \in ChainType /\ n \in Nat /\ yielded \in Seq({"main", "indirect"} \X Nat)
  BY DEF IInv, TypeOK, ChainType
<1>2. /\ c \in ChainType
      /\ Resolved(c) = c
      /\ c.is_indirect <=> c.desc_table = "indirect"
      /\ ~c.is_indirect => n + c.ttl <= QSize
      /\ c.is_indirect => n + c.ttl <= QSize - 1 + c.queue_size
  <2>1. CASE CanRead(chain) /\ Read(chain).indirect /\ CanSwitch(chain, Read(chain))
    <3>1. c = Switched(chain, Read(chain))
      BY <2>1 DEF Resolved
    <3>2. /\ c \in ChainType /\ c.ttl = c.queue_size /\ c.is_indirect
          /\ c.desc_table = "indirect" /\ Resolved(c) = c
      BY <1>1, <2>1, <3>1, SwitchKeeps DEF IInv
    <3>3. n <= QSize - 1
      BY <1>1, <2>1, ChainAssumption DEF IInv, ChainBounded, CanSwitch, CanRead, ChainType
    <3> HIDE DEF c
    <3> QED
      BY <1>1, <3>2, <3>3, ChainAssumption DEF ChainType
  <2>2. CASE ~(CanRead(chain) /\ Read(chain).indirect /\ CanSwitch(chain, Read(chain)))
    <3>1. c = chain
      BY <2>2 DEF Resolved
    <3> HIDE DEF c
    <3> QED
      BY <1>1, <2>2, <3>1 DEF IInv, ChainBounded, Resolved
  <2> QED
    BY <2>1, <2>2
<1>3. UNCHANGED tables /\ TablesOK'
  BY DEF NextDescriptor, IInv, TablesOK
<1>0. Linked(yielded, c) /\ Visited(yielded, c)
  BY ResolvedLinked
<1>4. CASE Yields(c)
  <2> DEFINE d == Read(c)
  <2>1. /\ chain' = Advanced(c, d) /\ result' = "some" /\ d = Read(c)
        /\ yielded' = Append(yielded, <<c.desc_table, c.next_index>>)
    BY <1>4 DEF NextDescriptor
  <2>2. /\ d.len \in Nat /\ (d.next # NoNext => d.next \in Nat)
        /\ c.yielded_bytes + d.len < ByteMod /\ c.ttl > 0
    BY <1>2, <1>4, ReadType DEF Yields, AddsUp, CanRead, IInv
  <2> HIDE DEF c, d
  <2>3. /\ chain' \in ChainType
        /\ chain'.is_indirect = c.is_indirect /\ chain'.desc_table = c.desc_table
        /\ chain'.queue_size = c.queue_size /\ chain'.ttl <= c.ttl - 1
    <3>1. c.yielded_bytes + d.len \in 0 .. ByteMod - 1
      BY <1>2, <2>2, ChainAssumption DEF ChainType
    <3>2. c.ttl - 1 \in 0 .. QSize + MaxTable /\ 0 \in 0 .. QSize + MaxTable /\ 0 <= c.ttl - 1
      BY <1>2, <2>2, ChainAssumption, SMTT(30) DEF ChainType
    <3>3. chain' =
            [desc_table |-> c.desc_table, queue_size |-> c.queue_size,
             next_index |-> IF d.next # NoNext THEN d.next ELSE c.next_index,
             ttl |-> IF d.next # NoNext THEN c.ttl - 1 ELSE 0,
             yielded_bytes |-> c.yielded_bytes + d.len, is_indirect |-> c.is_indirect]
      BY <1>2, <2>1, Zenon DEF Advanced, ChainType
    <3>4. /\ c.desc_table \in {"main", "indirect"} /\ c.queue_size \in 0 .. QSize + MaxTable
          /\ (IF d.next # NoNext THEN d.next ELSE c.next_index) \in Nat
          /\ (IF d.next # NoNext THEN c.ttl - 1 ELSE 0) \in 0 .. QSize + MaxTable
          /\ (IF d.next # NoNext THEN c.ttl - 1 ELSE 0) <= c.ttl - 1
          /\ c.is_indirect \in BOOLEAN
      BY <1>2, <2>2, <3>2 DEF ChainType
    <3> QED
      BY <3>1, <3>3, <3>4 DEF ChainType
  <2>4. <<c.desc_table, c.next_index>> \in {"main", "indirect"} \X Nat
    BY <1>2 DEF ChainType
  <2>5. yielded' \in Seq({"main", "indirect"} \X Nat) /\ Len(yielded') = n + 1
    BY <1>1, <2>1, <2>4
  <2>6. TypeOK'
    BY <2>1, <2>3, <2>5 DEF TypeOK, ChainType
  <2>7. ChainBounded'
    <3> HIDE DEF n
    <3>1. n \in Nat /\ c.ttl \in Nat /\ c.queue_size \in Nat /\ chain'.ttl \in Nat /\ QSize \in Nat
      BY <1>1, <1>2, <2>3, ChainAssumption DEF ChainType
    <3> QED
      BY <1>2, <2>3, <2>5, <3>1, SMTT(30) DEF ChainBounded
  <2>8. (LinksFollowed /\ Linked(yielded, chain) /\ Visited(yielded, chain))'
    <3>1. LinksIn(yielded') /\ Linked(yielded', chain') /\ Visited(yielded', chain')
      BY <1>0, <1>2, <1>4, <2>1, YieldLinked, Zenon
    <3> QED
      BY <1>3, <3>1, LinksKept
  <2> QED
    BY <1>2, <1>3, <2>1, <2>3, <2>6, <2>7, <2>8 DEF IInv
<1>5. CASE ~Yields(c)
  <2>1. chain' = c /\ result' = "none" /\ yielded' = yielded
    BY <1>5 DEF NextDescriptor
  <2>2. Ended'
    BY <1>2, <1>3, <1>5, <2>1, EndedStays
  <2> HIDE DEF c
  <2>3. TypeOK'
    BY <1>1, <1>2, <2>1 DEF TypeOK, ChainType
  <2>4. (LinksFollowed /\ Linked(yielded, chain) /\ Visited(yielded, chain))'
    BY <1>0, <1>3, <2>1, LinksKept DEF IInv, LinksFollowed, LinksIn, LinkAt, Table
  <2> QED
    BY <1>2, <1>3, <2>1, <2>2, <2>3, <2>4 DEF IInv, ChainBounded
<1> QED
  BY <1>4, <1>5

\* The invariant holds on every walk.
THEOREM ChainInvariance == Spec => []IInv
<1>1. Init => IInv
  <2>1. ASSUME Init
        PROVE  IInv
    <3>1. TablesOK
      BY <2>1, ChainAssumption DEF Init, TablesOK
    <3>2. PICK head \in 0 .. QSize : chain = NewChain(head)
      BY <2>1 DEF Init
    <3>3. /\ chain \in ChainType /\ chain.ttl = QSize /\ ~chain.is_indirect
          /\ chain.desc_table = "main"
      BY <3>2, ChainAssumption DEF NewChain, ChainType
    <3>4. yielded = <<>> /\ result = "new" /\ Len(yielded) = 0
      BY <2>1 DEF Init
    <3>5. TypeOK /\ ChainBounded
      BY <3>3, <3>4, ChainAssumption DEF TypeOK, ChainType, ChainBounded
    <3>6. LinksFollowed /\ Linked(yielded, chain)
      BY <3>4 DEF LinksFollowed, Linked
    <3>7. Visited(yielded, chain)
      <4>1. IndicesIn(yielded, "main") = {}
        BY <3>4 DEF IndicesIn
      <4>2. chain.ttl + Cardinality(IndicesIn(yielded, "main")) = chain.queue_size
        BY <3>2, <4>1, FS_EmptySet, ChainAssumption DEF NewChain
      <4> QED
        BY <3>3, <3>4, <4>1, <4>2 DEF Visited
    <3> QED
      BY <3>1, <3>3, <3>4, <3>5, <3>6, <3>7 DEF IInv
  <2> QED
    BY <2>1
<1>2. IInv /\ UNCHANGED vars => IInv'
  <2>1. ASSUME IInv, UNCHANGED vars
        PROVE  IInv'
    <3>1. (TypeOK /\ TablesOK /\ ChainBounded)'
      BY <2>1, Zenon DEF IInv, TypeOK, TablesOK, ChainBounded, vars
    <3>2. (result = "none" => Ended)' /\ (chain.is_indirect <=> chain.desc_table = "indirect")'
      BY <2>1 DEF IInv, Ended, Resolved, Yields, CanRead, Read, CanSwitch, Switched, AddsUp, vars
    <3>3. (LinksFollowed /\ Linked(yielded, chain) /\ Visited(yielded, chain))'
      BY <2>1, LinksKept DEF IInv, LinksFollowed, LinksIn, LinkAt, Table, vars
    <3> QED
      BY <3>1, <3>2, <3>3 DEF IInv
  <2> QED
    BY <2>1
<1>3. IInv /\ [Next]_vars => IInv'
  BY <1>2, ChainStep DEF Next
<1> QED
  BY <1>1, <1>3, PTL DEF Spec

\* The bytes of a chain never leave their 32 bits, and the counters never go below zero.
THEOREM TypeCorrect == Spec => []TypeOK
BY ChainInvariance, PTL DEF IInv

\* next returns at most QSize descriptors, and at most QSize - 1 more than an
\* indirect table has entries, whatever the driver put in the tables.
THEOREM ChainIsBounded == Spec => []ChainBounded
BY ChainInvariance, PTL DEF IInv

\* next never resumes a chain it has ended.
THEOREM EndIsFinal == Spec => NoneIsFinal
<1>1. ASSUME IInv, Next, result = "none"
      PROVE  result' = "none" /\ UNCHANGED yielded
  BY <1>1 DEF IInv, Ended, Next, NextDescriptor
<1>2. IInv /\ [Next]_vars => [result = "none" => result' = "none" /\ UNCHANGED yielded]_vars
  BY <1>1
<1> QED
  BY <1>2, ChainInvariance, PTL DEF Spec, NoneIsFinal

\* Every descriptor returned is where the one before it points to.
THEOREM LinksAreFollowed == Spec => []LinksFollowed
BY ChainInvariance, PTL DEF IInv

\* A walk that ends before the end of the chain has met a fault of the driver: next would
\* have switched to a well-formed indirect table and returned a descriptor that adds up.
\* When ttl is used up, every index of the table has been returned, the next one too.
LEMMA FaultFound == IInv => StopsOnlyForFault
<1> DEFINE i == chain.next_index
           t == chain.desc_table
           m == chain.queue_size
           c == [chain EXCEPT !.ttl = 1]
           d == Read(c)
<1>1. SUFFICES ASSUME IInv, result = "none", Moving(yielded), CanRead(c),
                      d.indirect => /\ ~c.is_indirect
                                    /\ d.len % DescSize = 0
                                    /\ ~(d.len > MaxTable * DescSize),
                      ~d.indirect => AddsUp(c, d)
               PROVE  \E k \in 1 .. Len(yielded) : yielded[k] = <<t, i>>
  BY Zenon DEF StopsOnlyForFault, LastOf, Moving
<1>2. /\ chain \in ChainType /\ yielded \in Seq({"main", "indirect"} \X Nat)
      /\ DOMAIN yielded = 1 .. Len(yielded)
  BY <1>1 DEF IInv, TypeOK, ChainType
<1>3. /\ i \in Nat /\ m \in Nat /\ chain.ttl \in Nat /\ i < m
      /\ CanRead(chain) <=> chain.ttl > 0
      /\ Read(chain) = d /\ (AddsUp(chain, d) <=> AddsUp(c, d))
      /\ c.is_indirect = chain.is_indirect
  <2>1. /\ c.desc_table = t /\ c.next_index = i /\ c.queue_size = m
        /\ c.yielded_bytes = chain.yielded_bytes /\ c.is_indirect = chain.is_indirect
    BY <1>2 DEF ChainType
  <2> HIDE DEF c
  <2>2. i \in Nat /\ m \in Nat /\ chain.ttl \in Nat
    BY <1>2, ChainAssumption DEF ChainType
  <2> QED
    BY <1>1, <2>1, <2>2 DEF CanRead, Read, AddsUp
<1> HIDE DEF c, d
<1>4. chain.ttl = 0
  <2>1. SUFFICES ASSUME CanRead(chain)
                 PROVE  FALSE
    BY <1>3
  <2>2. Resolved(chain) = chain /\ ~Yields(chain)
    BY <1>1 DEF IInv, Ended
  <2>3. CASE d.indirect
    <3>1. d.len \in Nat
      BY <1>1, <1>2, <1>3, <2>1, ReadType DEF IInv
    <3>2. d.len \div DescSize <= MaxTable
      BY <1>1, <2>3, <3>1, ChainAssumption DEF DescSize
    <3>3. CanSwitch(chain, d)
      BY <1>1, <1>3, <2>3, <3>2 DEF CanSwitch
    <3>4. Switched(chain, d).is_indirect
      BY <1>1, <1>2, <1>3, <2>1, <3>3, SwitchKeeps DEF IInv
    <3>5. Resolved(chain) = Switched(chain, d)
      BY <1>3, <2>1, <2>3, <3>3, Zenon DEF Resolved
    <3> QED
      BY <1>1, <1>3, <2>2, <2>3, <3>4, <3>5, Zenon
  <2>4. CASE ~d.indirect
    BY <1>1, <1>3, <2>1, <2>2, <2>4 DEF Yields
  <2> QED
    BY <2>3, <2>4
<1>5. i \in IndicesIn(yielded, t)
  <2>1. CASE 0 + Cardinality(IndicesIn(yielded, t)) = m
    <3>1. IndicesIn(yielded, t) \subseteq 0 .. m - 1
      BY <1>1 DEF IInv, Visited
    <3>2. IsFiniteSet(0 .. m - 1) /\ Cardinality(0 .. m - 1) = m
      <4>1. 0 \in Int /\ m - 1 \in Int /\ ~(0 > m - 1) /\ m - 1 - 0 + 1 = m
        BY <1>3
      <4> QED
        BY <4>1, FS_Interval, Zenon
    <3>3. Cardinality(IndicesIn(yielded, t)) = m
      <4>1. Cardinality(IndicesIn(yielded, t)) \in Nat
        BY <3>1, <3>2, FS_Subset, FS_CardinalityType
      <4> QED
        BY <2>1, <4>1
    <3>4. IndicesIn(yielded, t) = 0 .. m - 1
      BY <3>1, <3>2, <3>3, FS_Subset, Zenon
    <3> QED
      BY <1>3, <3>4
  <2> QED
    BY <1>1, <1>4, <2>1 DEF IInv, Visited
<1>6. PICK k \in 1 .. Len(yielded) : yielded[k][1] = t /\ yielded[k][2] = i
  BY <1>2, <1>5, Zenon DEF IndicesIn
<1>7. yielded[k] \in {"main", "indirect"} \X Nat
  BY <1>2, <1>6
<1> QED
  BY <1>6, <1>7

\* next ends a walk early, or gives none at all, only for a fault of the driver: a legal
\* chain, whatever its length, is returned to its last descriptor, and an indirect table
\* that is not nested and has a length next accepts is walked.
THEOREM StopsForFaultsOnly == Spec => []StopsOnlyForFault
BY ChainInvariance, FaultFound, PTL
=============================================================================
