---------------------------- MODULE VsockPacket ----------------------------
(***************************************************************************)
(* A vsock packet over the memory of a descriptor chain: how it is found   *)
(* in a TX chain, in an RX chain or in two buffers of the host, and how    *)
(* its header is kept twice, in the VsockPacket and in memory that the     *)
(* driver may write at any time.                                           *)
(*                                                                         *)
(* The header is reduced to two fields: len, which decides on the payload, *)
(* and flags, which set_flag reads before it writes; the other eight are   *)
(* read and set as these are.  A copy of the header from memory is one     *)
(* step: the driver may write any header, so a copy torn between two       *)
(* writes is the copy of some header it could have written.                *)
(***************************************************************************)
EXTENDS Integers, Sequences

CONSTANTS
  PKT_HEADER_SIZE,
  MaxData,    \* max_data_size
  AddrMod,    \* the modulus of guest addresses (2^64 in the code)
  MaxLen,     \* the largest length of a descriptor (2^32 - 1 in the code)
  Regions,    \* the regions of guest memory, from start up to, not including, end
  Flags       \* the bits of the flags field

ASSUME VsockAssumption ==
  /\ PKT_HEADER_SIZE \in Nat \ {0} /\ MaxData \in Nat /\ AddrMod \in Nat /\ MaxLen \in Nat
  /\ Regions \subseteq [start : Nat, end : 0 .. AddrMod]

Descriptors == [addr : 0 .. AddrMod - 1, len : 0 .. MaxLen, write : BOOLEAN, next : BOOLEAN]
LastDescriptors == {d \in Descriptors : ~d.next}   \* the link of a second one is not looked at
Headers == [len : 0 .. MaxLen, flags : SUBSET Flags]
Fields == {"len", "flags"}
DefaultHeader == [len |-> 0, flags |-> {}]

VARIABLES
  kind,           \* how the packet was made: "tx", "rx" or "new"
  pc,             \* "none", "data" (looking for the payload), "ready", "raw", "failed"
  header_slice,   \* VsockPacket::header_slice (a set of at most one slice)
  data_slice,     \* VsockPacket::data_slice (a set of at most one slice)
  header,         \* VsockPacket::header
  mem,            \* the header in memory
  chain,          \* the descriptors the packet was made of
  announced,      \* the length in the header when the chain was parsed
  agree           \* fields nobody wrote since the device last read or wrote them

packetVars == <<header_slice, data_slice, header>>
vars == <<kind, pc, packetVars, mem, chain, announced, agree>>

Slice(addr, len) == [addr |-> addr, len |-> len]

Cleared ==
  /\ header_slice' = {} /\ data_slice' = {}
  /\ header' = DefaultHeader /\ mem' = DefaultHeader
  /\ chain' = <<>> /\ announced' = 0 /\ agree' = {}

Init ==
  /\ kind = "new" /\ pc = "none"
  /\ header_slice = {} /\ data_slice = {}
  /\ header = DefaultHeader /\ mem = DefaultHeader
  /\ chain = <<>> /\ announced = 0 /\ agree = {}

\* GuestMemory::get_slice: the bytes are in one region.
GetSlice(s) ==
  \E r \in Regions : r.start <= s.addr /\ s.addr < r.end /\ s.addr + s.len <= r.end

\* An error of from_tx_virtq_chain, from_rx_virtq_chain or new: there is no packet.
Fail(k) == kind' = k /\ pc' = "failed" /\ Cleared
-----------------------------------------------------------------------------
\* Finding the packet.

\* The first descriptor has the right direction and holds a header.
HeadAccepts(d, write) ==
  /\ d.write = write
  /\ d.len >= PKT_HEADER_SIZE
  /\ GetSlice(Slice(d.addr, PKT_HEADER_SIZE))

\* The payload is at s, if that is in memory.
Locate(s) ==
  IF GetSlice(s)
  THEN /\ pc' = "ready" /\ data_slice' = {s}
       /\ UNCHANGED <<kind, header_slice, header, mem, announced, agree>>
  ELSE Fail(kind)

\* What follows the header in its own descriptor; the address is added up with
\* checked_add.
LocateBehindHeader(d, len) ==
  IF d.addr + PKT_HEADER_SIZE < AddrMod
  THEN Locate(Slice(d.addr + PKT_HEADER_SIZE, len)) /\ UNCHANGED chain
  ELSE Fail(kind)

\* from_tx_virtq_chain up to the check of len: the header is read once.
TxHead(d, h) ==
  /\ pc = "none"
  /\ IF HeadAccepts(d, FALSE) /\ h.len <= MaxData
     THEN /\ kind' = "tx"
          /\ pc' = IF h.len = 0 THEN "ready" ELSE "data"
          /\ header_slice' = {Slice(d.addr, PKT_HEADER_SIZE)} /\ data_slice' = {}
          /\ header' = h /\ mem' = h /\ announced' = h.len /\ agree' = Fields
          /\ chain' = <<d>>
     ELSE Fail("tx")

\* Bug: the length of the payload is read from memory again.
TxDataRereads ==
  /\ pc = "data" /\ kind = "tx"
  /\ LET head == chain[1]
     IN  IF ~head.next
         THEN IF head.len - PKT_HEADER_SIZE >= mem.len
              THEN LocateBehindHeader(head, mem.len)
              ELSE Fail("tx")
         ELSE \/ Fail("tx")
              \/ \E d \in LastDescriptors :
                   IF ~d.write /\ d.len >= mem.len
                   THEN Locate(Slice(d.addr, mem.len)) /\ chain' = <<head, d>>
                   ELSE Fail("tx")

\* The rest of from_tx_virtq_chain: the payload is behind the header or in a second
\* descriptor, which desc_chain.next() may fail to find.
TxData ==
  /\ pc = "data" /\ kind = "tx"
  /\ LET head == chain[1]
     IN  IF ~head.next
         THEN IF head.len - PKT_HEADER_SIZE >= header.len
              THEN LocateBehindHeader(head, header.len)
              ELSE Fail("tx")
         ELSE \/ Fail("tx")
              \/ \E d \in LastDescriptors :
                   IF ~d.write /\ d.len >= header.len
                   THEN Locate(Slice(d.addr, header.len)) /\ chain' = <<head, d>>
                   ELSE Fail("tx")

\* from_rx_virtq_chain up to the header slice; what is in memory there (h) is not
\* looked at.
RxHead(d, h) ==
  /\ pc = "none"
  /\ IF HeadAccepts(d, TRUE)
     THEN /\ kind' = "rx" /\ pc' = "data"
          /\ header_slice' = {Slice(d.addr, PKT_HEADER_SIZE)} /\ data_slice' = {}
          /\ header' = DefaultHeader /\ mem' = h /\ announced' = 0 /\ agree' = {}
          /\ chain' = <<d>>
     ELSE Fail("rx")

\* Bug: the header is not subtracted from the length.
RxDataWhole ==
  /\ pc = "data" /\ kind = "rx"
  /\ LET head == chain[1]
     IN  IF ~head.next
         THEN IF head.len > PKT_HEADER_SIZE
              THEN LocateBehindHeader(head, head.len)
              ELSE Fail("rx")
         ELSE \/ Fail("rx")
              \/ \E d \in LastDescriptors :
                   IF d.write /\ d.len <= MaxData
                   THEN Locate(Slice(d.addr, d.len)) /\ chain' = <<head, d>>
                   ELSE Fail("rx")

\* The rest of from_rx_virtq_chain: all that is behind the header, or all of a
\* second descriptor.
RxData ==
  /\ pc = "data" /\ kind = "rx"
  /\ LET head == chain[1]
     IN  IF ~head.next
         THEN IF head.len > PKT_HEADER_SIZE
              THEN LocateBehindHeader(head, head.len - PKT_HEADER_SIZE)
              ELSE Fail("rx")
         ELSE \/ Fail("rx")
              \/ \E d \in LastDescriptors :
                   IF d.write /\ d.len <= MaxData
                   THEN Locate(Slice(d.addr, d.len)) /\ chain' = <<head, d>>
                   ELSE Fail("rx")

\* VsockPacket::new: a buffer of the host for the header, and one for data if lens
\* has a length for it.
New(len, lens, h) ==
  /\ pc = "none"
  /\ IF len = PKT_HEADER_SIZE
     THEN /\ kind' = "new" /\ pc' = "ready"
          /\ header_slice' = {Slice(0, PKT_HEADER_SIZE)}
          /\ data_slice' = {Slice(0, l) : l \in lens}
          /\ header' = DefaultHeader /\ mem' = h /\ announced' = 0 /\ agree' = {}
          /\ chain' = <<>>
     ELSE Fail("new")
-----------------------------------------------------------------------------
\* Working on the header.

\* Bug: the field is set in the packet only.
SetHeaderFieldCopy(f, v) ==
  /\ pc = "ready"
  /\ header' = [header EXCEPT ![f] = v]
  /\ agree' = agree \cup {f}
  /\ UNCHANGED <<kind, pc, header_slice, data_slice, mem, chain, announced>>

\* set_header_field!: both copies.
SetHeaderField(f, v) ==
  /\ pc = "ready"
  /\ header' = [header EXCEPT ![f] = v]
  /\ mem' = [mem EXCEPT ![f] = v]
  /\ agree' = agree \cup {f}
  /\ UNCHANGED <<kind, pc, header_slice, data_slice, chain, announced>>

SetLen(len) == SetHeaderField("len", len)
SetFlags(flags) == SetHeaderField("flags", flags)

\* The flags set before are those of the packet, not those in memory.
SetFlag(flag) == SetFlags(header.flags \cup {flag})

\* set_header_from_raw: write all of the header to memory and read it back.
WriteRaw(h) ==
  /\ pc = "ready" /\ pc' = "raw"
  /\ mem' = h /\ agree' = {}
  /\ UNCHANGED <<kind, packetVars, chain, announced>>

ReadBack ==
  /\ pc = "raw" /\ pc' = "ready"
  /\ header' = mem /\ agree' = Fields
  /\ UNCHANGED <<kind, header_slice, data_slice, mem, chain, announced>>

\* The device clears the header in memory through header_slice(), as the example of
\* from_rx_virtq_chain does.  It does so with a packet whose own header is still the default:
\* that is the usage documented, nothing in the code asks for it.
ZeroHeader ==
  /\ pc = "ready" /\ header = DefaultHeader
  /\ mem' = DefaultHeader /\ agree' = Fields
  /\ UNCHANGED <<kind, pc, packetVars, chain, announced>>

\* The packet is gone: the chain goes back to the driver.
Drop == pc \in {"ready", "failed"} /\ kind' = "new" /\ pc' = "none" /\ Cleared

\* The driver writes into the header.
DriverWrites(h) ==
  /\ pc \in {"data", "ready", "raw"} /\ kind # "new"
  /\ mem' = h /\ agree' = {f \in agree : h[f] = mem[f]}
  /\ UNCHANGED <<kind, pc, packetVars, chain, announced>>

Next ==
  \/ \E d \in Descriptors, h \in Headers : TxHead(d, h) \/ RxHead(d, h)
  \/ TxData \/ RxData
  \/ \E len, l \in 0 .. MaxLen, h \in Headers : New(len, {}, h) \/ New(len, {l}, h)
  \/ \E len \in 0 .. MaxLen : SetLen(len)
  \/ \E flags \in SUBSET Flags : SetFlags(flags)
  \/ \E flag \in Flags : SetFlag(flag)
  \/ \E h \in Headers : WriteRaw(h) \/ DriverWrites(h)
  \/ ReadBack \/ ZeroHeader \/ Drop

Spec == Init /\ [][Next]_vars
-----------------------------------------------------------------------------
\* Properties.

Slices == [addr : Nat, len : Nat]

TypeOK ==
  /\ kind \in {"tx", "rx", "new"} /\ pc \in {"none", "data", "ready", "raw", "failed"}
  /\ header_slice \subseteq Slices /\ data_slice \subseteq Slices
  /\ header \in Headers /\ mem \in Headers
  /\ chain \in Seq(Descriptors) /\ announced \in 0 .. MaxLen /\ agree \subseteq Fields

Built == pc \in {"ready", "raw"}

\* All bytes of slice s are bytes of descriptor d, from the given offset on.
Within(s, d, offset) ==
  d.addr + offset <= s.addr /\ s.addr + s.len <= d.addr + d.len

\* The slices of a packet are bytes the driver gave for this direction, in guest
\* memory, and the payload of a packet in one descriptor begins behind its header:
\* from_tx_virtq_chain and from_rx_virtq_chain take lengths from the descriptors and
\* from the header, and no combination reaches beyond a descriptor.
SlicesInChain ==
  Built /\ kind # "new" =>
    /\ \A i \in 1 .. Len(chain) : chain[i].write = (kind = "rx")
    /\ \E s \in header_slice :
         Within(s, chain[1], 0) /\ s.len = PKT_HEADER_SIZE /\ GetSlice(s)
    /\ \A s \in data_slice :
         /\ GetSlice(s)
         /\ IF Len(chain) = 1 THEN Within(s, chain[1], PKT_HEADER_SIZE) ELSE Within(s, chain[2], 0)

\* The payload of a TX packet is as long as the header said when it was read and at
\* most max_data_size, whatever the driver and the device write into the header later.
\* That of an RX packet is at most max_data_size in a descriptor of its own; behind the
\* header it is all that the descriptor has left, which nothing else bounds.
PayloadAsAnnounced ==
  Built =>
    /\ kind = "tx" => /\ announced = 0 <=> data_slice = {}
                      /\ \A s \in data_slice : s.len = announced /\ s.len <= MaxData
    /\ kind = "rx" => \E s \in data_slice :
                        IF Len(chain) = 1 THEN s.len = chain[1].len - PKT_HEADER_SIZE
                                          ELSE s.len <= MaxData

\* A field that the device has read or set is the same in the packet and in memory
\* until the driver writes it: the setters keep both copies, set_header_from_raw
\* takes what memory says, and a new header that was cleared first agrees as a whole.
CopiesAgree ==
  pc = "ready" => \A f \in agree : header[f] = mem[f]
=============================================================================
