------------------------- MODULE VsockPacketProofs -------------------------
(***************************************************************************)
(* Vsock packets stay within the chain they were found in, for every size  *)
(* of the header and of the payload, every guest memory and every driver.  *)
(***************************************************************************)
EXTENDS VsockPacket, TLAPS

Kinds == {"tx", "rx", "new"}

\* The chain begins with descriptor d, in which the header is.
HeadIs(d) ==
  /\ chain = <<d>> /\ HeadAccepts(d, kind = "rx")
  /\ header_slice = {Slice(d.addr, PKT_HEADER_SIZE)}

\* Half-way through the chain: the length that was checked is still the one in the
\* packet, which is why it may be used after the driver wrote to memory.
ParseInv ==
  pc = "data" =>
    /\ kind \in {"tx", "rx"} /\ data_slice = {}
    /\ \E d \in Descriptors : HeadIs(d)
    /\ kind = "tx" => header.len = announced /\ announced \in 1 .. MaxData

\* The agreement of the copies does not depend on where the device is.
AgreeInv == \A f \in agree : header[f] = mem[f]

IInv == TypeOK /\ ParseInv /\ AgreeInv /\ SlicesInChain /\ PayloadAsAnnounced

\* The constants.
LEMMA Sizes ==
  /\ PKT_HEADER_SIZE \in Nat /\ PKT_HEADER_SIZE > 0 /\ MaxData \in Nat /\ AddrMod \in Nat
  /\ MaxLen \in Nat /\ DefaultHeader \in Headers /\ DefaultHeader.len = 0
BY VsockAssumption DEF DefaultHeader, Headers

\* Without a packet there is nothing to be wrong.
LEMMA ClearedInv ==
  ASSUME Cleared, kind' \in Kinds, pc' \in {"none", "failed"}
  PROVE  IInv'
<1>1. TypeOK'
  BY Sizes DEF Cleared, TypeOK, Kinds
<1>2. AgreeInv'
  BY DEF Cleared, AgreeInv
<1> QED
  BY <1>1, <1>2 DEF IInv, ParseInv, SlicesInChain, PayloadAsAnnounced, Built

\* The packet is complete: its payload was found in the last of one or two descriptors.
LEMMA LocateStep ==
  ASSUME IInv, pc = "data", NEW d \in Descriptors, HeadIs(d),
         NEW s \in Slices, NEW cs \in Seq(Descriptors),
         Locate(s), GetSlice(s) => chain' = cs,
         \/ cs = <<d>> /\ Within(s, d, PKT_HEADER_SIZE)
         \/ \E e \in Descriptors : cs = <<d, e>> /\ e.write = (kind = "rx") /\ Within(s, e, 0),
         kind = "tx" => s.len = header.len,
         kind = "rx" => IF Len(cs) = 1 THEN s.len = d.len - PKT_HEADER_SIZE ELSE s.len <= MaxData
  PROVE  IInv'
<1>1. CASE ~GetSlice(s)
  <2>1. Fail(kind)
    BY <1>1 DEF Locate
  <2> QED
    BY <2>1, ClearedInv DEF Fail, IInv, TypeOK, Kinds
<1>2. CASE GetSlice(s)
  <2>1. /\ pc' = "ready" /\ data_slice' = {s} /\ chain' = cs
        /\ UNCHANGED <<kind, header_slice, header, mem, announced, agree>>
    BY <1>2 DEF Locate
  <2>2. TypeOK'
    BY <2>1 DEF IInv, TypeOK
  <2>3. ParseInv' /\ AgreeInv'
    BY <2>1 DEF IInv, ParseInv, AgreeInv
  <2>4. /\ kind \in {"tx", "rx"}
        /\ kind = "tx" => header.len = announced /\ announced \in 1 .. MaxData
    BY DEF IInv, ParseInv
  <2>5. /\ cs[1] = d /\ Len(cs) \in {1, 2}
        /\ \A i \in 1 .. Len(cs) : cs[i].write = (kind = "rx")
        /\ IF Len(cs) = 1 THEN Within(s, cs[1], PKT_HEADER_SIZE) ELSE Within(s, cs[2], 0)
    <3>1. d.write = (kind = "rx")
      BY DEF HeadIs, HeadAccepts
    <3>2. CASE cs = <<d>> /\ Within(s, d, PKT_HEADER_SIZE)
      BY <3>1, <3>2
    <3>3. CASE \E e \in Descriptors : cs = <<d, e>> /\ e.write = (kind = "rx") /\ Within(s, e, 0)
      BY <3>1, <3>3
    <3> QED
      BY <3>2, <3>3
  <2>6. \E t \in header_slice :
          Within(t, cs[1], 0) /\ t.len = PKT_HEADER_SIZE /\ GetSlice(t)
    <3>1. d.addr \in Nat /\ d.len \in Nat /\ d.len >= PKT_HEADER_SIZE
      BY Sizes DEF Descriptors, HeadIs, HeadAccepts
    <3>2. Within(Slice(d.addr, PKT_HEADER_SIZE), d, 0)
      BY <3>1, Sizes DEF Within, Slice
    <3> QED
      BY <2>5, <3>2 DEF HeadIs, HeadAccepts, Slice
  <2>7. SlicesInChain'
    BY <1>2, <2>1, <2>5, <2>6 DEF SlicesInChain, GetSlice, Within
  <2>8. PayloadAsAnnounced'
    <3>1. s.len <= MaxData \/ kind = "rx"
      BY <2>4, Sizes
    <3> QED
      BY <2>1, <2>4, <2>5, <3>1, Sizes DEF PayloadAsAnnounced
  <2> QED
    BY <2>2, <2>3, <2>7, <2>8 DEF IInv
<1> QED
  BY <1>1, <1>2

\* A first descriptor that is accepted holds the header.
LEMMA HeadSlice ==
  ASSUME NEW d \in Descriptors, NEW write \in BOOLEAN, HeadAccepts(d, write)
  PROVE  /\ Slice(d.addr, PKT_HEADER_SIZE) \in Slices
         /\ Within(Slice(d.addr, PKT_HEADER_SIZE), d, 0)
         /\ GetSlice(Slice(d.addr, PKT_HEADER_SIZE))
         /\ Slice(d.addr, PKT_HEADER_SIZE).len = PKT_HEADER_SIZE
<1>1. d.addr \in Nat /\ d.len \in Nat /\ d.len >= PKT_HEADER_SIZE
  BY Sizes DEF Descriptors, HeadAccepts
<1> QED
  BY <1>1, Sizes DEF Slice, Slices, Within, HeadAccepts

\* from_tx_virtq_chain up to the check of len.
LEMMA TxHeadStep ==
  ASSUME IInv, NEW d \in Descriptors, NEW h \in Headers, TxHead(d, h)
  PROVE  IInv'
<1>1. CASE ~(HeadAccepts(d, FALSE) /\ h.len <= MaxData)
  BY <1>1, ClearedInv DEF TxHead, Fail, Kinds
<1>2. CASE HeadAccepts(d, FALSE) /\ h.len <= MaxData
  <2>1. /\ kind' = "tx" /\ pc' = (IF h.len = 0 THEN "ready" ELSE "data")
        /\ header_slice' = {Slice(d.addr, PKT_HEADER_SIZE)} /\ data_slice' = {}
        /\ header' = h /\ mem' = h /\ announced' = h.len /\ agree' = Fields
        /\ chain' = <<d>>
    BY <1>2 DEF TxHead
  <2>2. h.len \in 0 .. MaxLen /\ h.len \in Nat
    BY Sizes DEF Headers
  <2>3. Slice(d.addr, PKT_HEADER_SIZE) \in Slices
    BY <1>2, HeadSlice
  <2>4. TypeOK'
    <3>1. chain' \in Seq(Descriptors)
      BY <2>1
    <3> QED
      BY <2>1, <2>2, <2>3, <3>1 DEF TypeOK
  <2>5. ParseInv'
    <3>1. HeadIs(d)'
      BY <1>2, <2>1 DEF HeadIs, HeadAccepts, GetSlice
    <3>2. h.len # 0 => h.len \in 1 .. MaxData
      BY <1>2, <2>2, Sizes
    <3> QED
      BY <2>1, <3>1, <3>2 DEF ParseInv
  <2>6. AgreeInv'
    BY <2>1 DEF AgreeInv
  <2>7. SlicesInChain'
    <3>1. chain'[1] = d /\ Len(chain') = 1 /\ d.write = FALSE
      BY <1>2, <2>1 DEF HeadAccepts
    <3>2. /\ Within(Slice(d.addr, PKT_HEADER_SIZE), d, 0)
          /\ GetSlice(Slice(d.addr, PKT_HEADER_SIZE))
          /\ Slice(d.addr, PKT_HEADER_SIZE).len = PKT_HEADER_SIZE
      BY <1>2, HeadSlice
    <3>3. \A i \in 1 .. Len(chain') : chain'[i].write = (kind' = "rx")
      <4>1. d.write = (kind' = "rx")
        BY <2>1, <3>1
      <4>2. \A i \in 1 .. Len(chain') : chain'[i] = d
        BY <3>1
      <4> QED
        BY <4>1, <4>2, Zenon
    <3>4. \E t \in header_slice' :
            Within(t, chain'[1], 0) /\ t.len = PKT_HEADER_SIZE /\ GetSlice(t)
      BY <2>1, <3>1, <3>2
    <3> QED
      BY <2>1, <3>3, <3>4 DEF SlicesInChain, Within, GetSlice
  <2>8. PayloadAsAnnounced'
    BY <2>1 DEF PayloadAsAnnounced, Built
  <2> QED
    BY <2>4, <2>5, <2>6, <2>7, <2>8 DEF IInv
<1> QED
  BY <1>1, <1>2

\* from_rx_virtq_chain up to the header slice.
LEMMA RxHeadStep ==
  ASSUME IInv, NEW d \in Descriptors, NEW h \in Headers, RxHead(d, h)
  PROVE  IInv'
<1>1. CASE ~HeadAccepts(d, TRUE)
  BY <1>1, ClearedInv DEF RxHead, Fail, Kinds
<1>2. CASE HeadAccepts(d, TRUE)
  <2>1. /\ kind' = "rx" /\ pc' = "data"
        /\ header_slice' = {Slice(d.addr, PKT_HEADER_SIZE)} /\ data_slice' = {}
        /\ header' = DefaultHeader /\ mem' = h /\ announced' = 0 /\ agree' = {}
        /\ chain' = <<d>>
    BY <1>2 DEF RxHead
  <2>2. TypeOK'
    <3>1. chain' \in Seq(Descriptors)
      BY <2>1
    <3>2. Slice(d.addr, PKT_HEADER_SIZE) \in Slices
      BY <1>2, HeadSlice
    <3> QED
      BY <2>1, <3>1, <3>2, Sizes DEF TypeOK
  <2>3. ParseInv'
    <3>1. HeadIs(d)'
      BY <1>2, <2>1 DEF HeadIs, HeadAccepts, GetSlice
    <3> QED
      BY <2>1, <3>1 DEF ParseInv
  <2>4. AgreeInv' /\ SlicesInChain' /\ PayloadAsAnnounced'
    BY <2>1 DEF AgreeInv, SlicesInChain, PayloadAsAnnounced, Built
  <2> QED
    BY <2>2, <2>3, <2>4 DEF IInv
<1> QED
  BY <1>1, <1>2

\* What is behind the header in its descriptor, if len bytes are left there.
LEMMA BehindHeaderStep ==
  ASSUME IInv, pc = "data", NEW d \in Descriptors, HeadIs(d),
         NEW len \in Nat, len + PKT_HEADER_SIZE <= d.len, LocateBehindHeader(d, len),
         kind = "tx" => len = header.len,
         kind = "rx" => len = d.len - PKT_HEADER_SIZE
  PROVE  IInv'
<1> DEFINE s == Slice(d.addr + PKT_HEADER_SIZE, len)
<1>1. CASE ~(d.addr + PKT_HEADER_SIZE < AddrMod)
  <2>1. Fail(kind)
    BY <1>1 DEF LocateBehindHeader
  <2> QED
    BY <2>1, ClearedInv DEF Fail, IInv, TypeOK, Kinds
<1>2. CASE d.addr + PKT_HEADER_SIZE < AddrMod
  <2>1. Locate(s) /\ chain' = chain
    BY <1>2 DEF LocateBehindHeader
  <2>2. d.addr \in Nat /\ d.len \in Nat
    BY Sizes DEF Descriptors
  <2>3. s \in Slices /\ Within(s, d, PKT_HEADER_SIZE) /\ s.len = len
    BY <2>2, Sizes DEF Slice, Slices, Within
  <2>4. chain = <<d>> /\ chain \in Seq(Descriptors) /\ Len(chain) = 1
    BY DEF HeadIs, IInv, TypeOK
  <2> HIDE DEF s
  <2> QED
    BY <2>1, <2>3, <2>4, LocateStep
<1> QED
  BY <1>1, <1>2

\* A second descriptor, or what is behind the header: the rest of
\* from_tx_virtq_chain.
LEMMA TxDataStep ==
  ASSUME IInv, TxData
  PROVE  IInv'
<1>1. PICK d \in Descriptors : HeadIs(d)
  BY DEF IInv, ParseInv, TxData
<1>2. pc = "data" /\ kind = "tx" /\ chain[1] = d /\ chain = <<d>>
  BY <1>1 DEF TxData, HeadIs
<1>3. header.len \in Nat /\ d.len \in Nat /\ PKT_HEADER_SIZE \in Nat
  BY Sizes DEF IInv, TypeOK, Headers, Descriptors
<1>4. CASE ~d.next /\ d.len - PKT_HEADER_SIZE >= header.len
  <2>1. LocateBehindHeader(d, header.len)
    BY <1>2, <1>4 DEF TxData
  <2>2. header.len + PKT_HEADER_SIZE <= d.len
    BY <1>3, <1>4
  <2> QED
    BY <1>1, <1>2, <1>3, <2>1, <2>2, BehindHeaderStep
<1>5. CASE Fail("tx")
  BY <1>5, ClearedInv DEF Fail, Kinds
<1>6. ASSUME NEW e \in LastDescriptors, ~e.write, e.len >= header.len,
             Locate(Slice(e.addr, header.len)), chain' = <<d, e>>
      PROVE  IInv'
  <2> DEFINE s == Slice(e.addr, header.len)
  <2>1. e \in Descriptors /\ e.addr \in Nat /\ e.len \in Nat /\ e.write \in BOOLEAN
    BY Sizes DEF LastDescriptors, Descriptors
  <2>2. s \in Slices /\ Within(s, e, 0) /\ s.len = header.len
    BY <1>3, <1>6, <2>1 DEF Slice, Slices, Within
  <2>3. chain' = <<d, e>> /\ <<d, e>> \in Seq(Descriptors)
    BY <1>6, <2>1
  <2>4. e.write = (kind = "rx")
    <3>1. e.write = FALSE /\ kind # "rx"
      BY <1>2, <1>6, <2>1
    <3> QED
      BY <3>1
  <2>5. Locate(s)
    BY <1>6
  <2> DEFINE cs == <<d, e>>
  <2>6. \E f \in Descriptors : cs = <<d, f>> /\ f.write = (kind = "rx") /\ Within(s, f, 0)
    BY <2>1, <2>2, <2>4, Zenon
  <2>7. chain' = cs /\ cs \in Seq(Descriptors)
    BY <2>3
  <2> HIDE DEF s, cs
  <2> QED
    BY <1>1, <1>2, <2>2, <2>5, <2>6, <2>7, LocateStep
<1> QED
  BY <1>2, <1>4, <1>5, <1>6 DEF TxData

\* The rest of from_rx_virtq_chain.
LEMMA RxDataStep ==
  ASSUME IInv, RxData
  PROVE  IInv'
<1>1. PICK d \in Descriptors : HeadIs(d)
  BY DEF IInv, ParseInv, RxData
<1>2. pc = "data" /\ kind = "rx" /\ chain[1] = d /\ chain = <<d>>
  BY <1>1 DEF RxData, HeadIs
<1>3. d.len \in Nat /\ PKT_HEADER_SIZE \in Nat
  BY Sizes DEF Descriptors
<1>4. CASE ~d.next /\ d.len > PKT_HEADER_SIZE
  <2>1. LocateBehindHeader(d, d.len - PKT_HEADER_SIZE)
    BY <1>2, <1>4 DEF RxData
  <2>2. /\ d.len - PKT_HEADER_SIZE \in Nat
        /\ d.len - PKT_HEADER_SIZE + PKT_HEADER_SIZE <= d.len
    BY <1>3, <1>4
  <2> QED
    BY <1>1, <1>2, <2>1, <2>2, BehindHeaderStep
<1>5. CASE Fail("rx")
  BY <1>5, ClearedInv DEF Fail, Kinds
<1>6. ASSUME NEW e \in LastDescriptors, e.write, e.len <= MaxData,
             Locate(Slice(e.addr, e.len)), chain' = <<d, e>>
      PROVE  IInv'
  <2> DEFINE s == Slice(e.addr, e.len)
  <2>1. e \in Descriptors /\ e.addr \in Nat /\ e.len \in Nat /\ e.write \in BOOLEAN
    BY Sizes DEF LastDescriptors, Descriptors
  <2>2. s \in Slices /\ Within(s, e, 0) /\ s.len <= MaxData
    BY <1>6, <2>1 DEF Slice, Slices, Within
  <2>3. chain' = <<d, e>> /\ <<d, e>> \in Seq(Descriptors) /\ Len(<<d, e>>) = 2
    BY <1>6, <2>1
  <2>4. e.write = (kind = "rx")
    <3>1. e.write = TRUE /\ kind = "rx"
      BY <1>2, <1>6, <2>1
    <3> QED
      BY <3>1
  <2>5. Locate(s)
    BY <1>6
  <2> DEFINE cs == <<d, e>>
  <2>6. \E f \in Descriptors : cs = <<d, f>> /\ f.write = (kind = "rx") /\ Within(s, f, 0)
    BY <2>1, <2>2, <2>4, Zenon
  <2>7. /\ chain' = cs /\ cs \in Seq(Descriptors)
        /\ IF Len(cs) = 1 THEN s.len = d.len - PKT_HEADER_SIZE ELSE s.len <= MaxData
    BY <2>2, <2>3
  <2> HIDE DEF s, cs
  <2> QED
    BY <1>1, <1>2, <2>2, <2>5, <2>6, <2>7, LocateStep
<1> QED
  BY <1>2, <1>4, <1>5, <1>6 DEF RxData

\* VsockPacket::new.
LEMMA NewStep ==
  ASSUME IInv, NEW len, NEW lens \in SUBSET Nat, NEW h \in Headers, New(len, lens, h)
  PROVE  IInv'
<1>1. CASE len # PKT_HEADER_SIZE
  BY <1>1, ClearedInv DEF New, Fail, Kinds
<1>2. CASE len = PKT_HEADER_SIZE
  <2>1. /\ kind' = "new" /\ pc' = "ready"
        /\ header_slice' = {Slice(0, PKT_HEADER_SIZE)} /\ data_slice' = {Slice(0, l) : l \in lens}
        /\ header' = DefaultHeader /\ mem' = h /\ announced' = 0 /\ agree' = {}
        /\ chain' = <<>>
    BY <1>2 DEF New
  <2>2. header_slice' \subseteq Slices /\ data_slice' \subseteq Slices
    <3>1. Slice(0, PKT_HEADER_SIZE) \in Slices /\ \A l \in lens : Slice(0, l) \in Slices
      BY Sizes DEF Slice, Slices
    <3> QED
      BY <2>1, <3>1
  <2>3. TypeOK'
    BY <2>1, <2>2, Sizes DEF TypeOK
  <2> QED
    BY <2>1, <2>3 DEF IInv, ParseInv, AgreeInv, SlicesInChain, PayloadAsAnnounced
<1> QED
  BY <1>1, <1>2

\* What is done to the header of a packet, by either side, leaves the slices alone.
LEMMA HeaderStep ==
  ASSUME IInv, pc \in {"data", "ready", "raw"}, pc' \in {"data", "ready", "raw"},
         pc' = "data" <=> pc = "data",
         UNCHANGED <<kind, header_slice, data_slice, chain, announced>>,
         pc = "data" => UNCHANGED header,
         header' \in Headers, mem' \in Headers, agree' \subseteq Fields, AgreeInv'
  PROVE  IInv'
<1>1. TypeOK'
  BY DEF IInv, TypeOK
<1>2. ParseInv'
  BY DEF IInv, ParseInv, HeadIs, HeadAccepts, GetSlice
<1>3. Built' <=> Built
  BY DEF Built
<1>4. SlicesInChain'
  BY <1>3 DEF IInv, SlicesInChain, Within, GetSlice
<1>5. PayloadAsAnnounced'
  BY <1>3 DEF IInv, PayloadAsAnnounced
<1> QED
  BY <1>1, <1>2, <1>4, <1>5 DEF IInv

\* set_header_field!, for a value of the field's type.
LEMMA SetFieldStep ==
  ASSUME IInv, NEW f \in Fields, NEW v, SetHeaderField(f, v),
         f = "len" => v \in 0 .. MaxLen, f = "flags" => v \in SUBSET Flags
  PROVE  IInv'
<1>1. /\ header \in Headers /\ mem \in Headers /\ agree \subseteq Fields
      /\ \A g \in agree : header[g] = mem[g]
  BY DEF IInv, TypeOK, AgreeInv
<1>2. /\ pc = "ready" /\ header' = [header EXCEPT ![f] = v] /\ mem' = [mem EXCEPT ![f] = v]
      /\ agree' = agree \cup {f}
      /\ UNCHANGED <<kind, pc, header_slice, data_slice, chain, announced>>
  BY DEF SetHeaderField
<1>3. header' \in Headers /\ mem' \in Headers
  BY <1>1, <1>2 DEF Headers, Fields
<1>4. \A g \in Fields : /\ header'[g] = IF g = f THEN v ELSE header[g]
                        /\ mem'[g] = IF g = f THEN v ELSE mem[g]
  BY <1>1, <1>2 DEF Headers, Fields
<1>5. AgreeInv'
  BY <1>1, <1>2, <1>4 DEF AgreeInv
<1>6. agree' \subseteq Fields
  BY <1>1, <1>2
<1> QED
  BY <1>2, <1>3, <1>5, <1>6, HeaderStep

\* Every step keeps the invariant.
LEMMA PacketStep == IInv /\ [Next]_vars => IInv'
<1> SUFFICES ASSUME IInv, [Next]_vars
             PROVE  IInv'
  OBVIOUS
<1>1. /\ header \in Headers /\ mem \in Headers /\ agree \subseteq Fields
      /\ AgreeInv /\ DefaultHeader \in Headers
  BY Sizes DEF IInv, TypeOK
<1>2. ASSUME NEW d \in Descriptors, NEW h \in Headers, TxHead(d, h) \/ RxHead(d, h)
      PROVE  IInv'
  BY <1>2, TxHeadStep, RxHeadStep
<1>3. CASE TxData \/ RxData
  BY <1>3, TxDataStep, RxDataStep
<1>4. ASSUME NEW len \in 0 .. MaxLen, NEW l \in 0 .. MaxLen, NEW h \in Headers,
             New(len, {}, h) \/ New(len, {l}, h)
      PROVE  IInv'
  <2>1. {} \in SUBSET Nat /\ {l} \in SUBSET Nat
    BY Sizes
  <2> QED
    BY <1>4, <2>1, NewStep
<1>5. ASSUME NEW len \in 0 .. MaxLen, SetLen(len)
      PROVE  IInv'
  BY <1>5, SetFieldStep DEF SetLen, Fields
<1>6. ASSUME NEW flags \in SUBSET Flags, SetFlags(flags)
      PROVE  IInv'
  BY <1>6, SetFieldStep DEF SetFlags, Fields
<1>7. ASSUME NEW flag \in Flags, SetFlag(flag)
      PROVE  IInv'
  <2>1. header.flags \cup {flag} \in SUBSET Flags
    BY <1>1 DEF Headers
  <2> QED
    BY <1>6, <1>7, <2>1 DEF SetFlag
<1>8. ASSUME NEW h \in Headers, WriteRaw(h)
      PROVE  IInv'
  <2>1. AgreeInv'
    BY <1>8 DEF WriteRaw, AgreeInv
  <2> QED
    BY <1>1, <1>8, <2>1, HeaderStep DEF WriteRaw, packetVars
<1>9. ASSUME NEW h \in Headers, DriverWrites(h)
      PROVE  IInv'
  <2>1. AgreeInv'
    BY <1>1, <1>9 DEF DriverWrites, packetVars, AgreeInv
  <2>2. agree' \subseteq Fields
    BY <1>1, <1>9 DEF DriverWrites
  <2> QED
    BY <1>1, <1>9, <2>1, <2>2, HeaderStep DEF DriverWrites, packetVars
<1>10. CASE ReadBack
  <2>1. AgreeInv'
    BY <1>10 DEF ReadBack, AgreeInv
  <2> QED
    BY <1>1, <1>10, <2>1, HeaderStep DEF ReadBack
<1>11. CASE ZeroHeader
  <2>1. AgreeInv'
    BY <1>11 DEF ZeroHeader, packetVars, AgreeInv
  <2> QED
    BY <1>1, <1>11, <2>1, HeaderStep DEF ZeroHeader, packetVars
<1>12. CASE Drop
  BY <1>12, ClearedInv DEF Drop, Kinds
<1>13. CASE UNCHANGED vars
  BY <1>13 DEF vars, packetVars, IInv, TypeOK, ParseInv, HeadIs, HeadAccepts, AgreeInv,
               SlicesInChain, PayloadAsAnnounced, Built, Within, GetSlice
<1> QED
  BY <1>2, <1>3, <1>4, <1>5, <1>6, <1>7, <1>8, <1>9, <1>10, <1>11, <1>12, <1>13 DEF Next

\* The invariant holds in every state that a chain, a driver and a device can reach.
THEOREM PacketInvariance == Spec => []IInv
<1>1. Init => IInv
  <2> SUFFICES ASSUME Init
               PROVE  IInv
    OBVIOUS
  <2>1. TypeOK
    BY Sizes DEF Init, TypeOK
  <2> QED
    BY <2>1 DEF Init, IInv, ParseInv, AgreeInv, SlicesInChain, PayloadAsAnnounced, Built
<1> QED
  BY <1>1, PacketStep, PTL DEF Spec

\* All state keeps its type.
THEOREM TypeCorrect == Spec => []TypeOK
BY PacketInvariance, PTL DEF IInv

\* from_tx_virtq_chain and from_rx_virtq_chain never make a packet that reaches beyond
\* its descriptors or beyond guest memory.
THEOREM SlicesStayInChain == Spec => []SlicesInChain
BY PacketInvariance, PTL DEF IInv

\* The length that was checked is the length that is used.
THEOREM PayloadIsAsAnnounced == Spec => []PayloadAsAnnounced
BY PacketInvariance, PTL DEF IInv

\* The setters, set_header_from_raw and a cleared header keep both copies the same.
THEOREM HeaderCopiesAgree == Spec => []CopiesAgree
<1>1. IInv => CopiesAgree
  BY DEF IInv, AgreeInv, CopiesAgree
<1> QED
  BY <1>1, PacketInvariance, PTL
=============================================================================
