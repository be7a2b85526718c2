----------------------------- MODULE BlkDevice -----------------------------
(***************************************************************************)
(* The block device: Request::parse turns a descriptor chain into a        *)
(* request, StdIoBackend::process_request executes it on the backing file, *)
(* writes the status byte and returns the used length.  Guest memory may   *)
(* end inside a buffer and the file may fail at any byte, so a request may *)
(* stop half-way.                                                          *)
(*                                                                         *)
(* The device owns the file and works on one request at a time; the turns  *)
(* of the loops are the steps of this module.  The next descriptor of the  *)
(* chain, or the end of it, and the content of guest memory at the moment  *)
(* it is read are whatever the driver made them.                           *)
(*                                                                         *)
(* Lengths and file positions are in units, SectorUnits to a sector; the   *)
(* file may end with part of a sector.                                     *)
(***************************************************************************)
EXTENDS Integers, Sequences

CONSTANTS
  SectorUnits,   \* SECTOR_SIZE
  FileLen,       \* length of the backing file
  SegUnits,      \* DiscardWriteZeroes::LEN
  IdLen,         \* VIRTIO_BLK_ID_BYTES
  MaxU32,        \* u32::MAX
  FeatureSets,   \* the feature sets that were negotiated
  Sectors,       \* the sectors a driver names in a request
  Buffers,       \* the buffers it offers: length, and the part that is in guest memory
  Segments,      \* the segments it asks to discard or zero
  Data,          \* what a unit that it writes may contain; 0 is a unit of zeroes
  MaxData        \* bound: data descriptors of a request

ASSUME BlkAssumption ==
  /\ {SectorUnits, SegUnits, IdLen, MaxU32, MaxData} \subseteq Nat \ {0} /\ FileLen \in Nat
  /\ MaxU32 % SectorUnits # 0 /\ IdLen < MaxU32
  /\ \A f \in FeatureSets : f \subseteq {"RO", "FLUSH", "DISCARD", "WRITE_ZEROES"}
  /\ Sectors \subseteq Nat /\ Data \subseteq Nat /\ 0 \in Data
  /\ Buffers \subseteq [len : Nat, mapped : Nat] /\ \A b \in Buffers : b.mapped <= b.len
  /\ Segments \subseteq [sector : Nat, num_sectors : Nat, flags : SUBSET {"unmap", "reserved"}]

VARIABLES
  file,        \* StdIoBackend::inner
  features,
  device_id,   \* is there one?
  pc,          \* the loop that is running; "idle" between requests
  request,     \* the request as far as it is parsed
  call,        \* locals of process_request and execute, and the cursor of the file
  \* history
  moved,       \* the units the running call has moved to or from guest memory, in order
  segs         \* the segments it has acted on

vars == <<file, features, device_id, pc, request, call, moved, segs>>

RequestTypes == {"In", "Out", "Flush", "GetDeviceID", "Discard", "WriteZeroes", "Unsupported"}

\* What the part of the file behind its last whole sector contains, and the device id.
Remainder == -1
IdUnit(k) == -1 - k

\* status: the part of the status buffer that is in guest memory.
NoRequest == [type |-> "Unsupported", sector |-> 0, data |-> <<>>, status |-> 0]

\* at: data buffers the loop has passed; crt: units of the current one that were taken as
\* segments; used: the length that is returned; file_failed (history): the file failed, not
\* guest memory.  The cursor is where new left it, until execute seeks.
NoCall == [at |-> 0, crt |-> 0, bytes_to_mem |-> 0, status |-> "OK", used |-> 0,
           position |-> FileLen, file_failed |-> FALSE]

\* Bug: the size is rounded up to whole sectors.
NumSectorsUp == (FileLen + SectorUnits - 1) \div SectorUnits

\* StdIoBackend::new: only whole sectors count.
num_sectors == FileLen \div SectorUnits

\* The first unit that is not part of a whole sector.
Visible == SectorUnits * (FileLen \div SectorUnits)

Init ==
  /\ file \in {f \in [0 .. FileLen - 1 -> Data \union {Remainder}] :
                 \A u \in DOMAIN f : f[u] = Remainder <=> u >= Visible}
  /\ features \in FeatureSets /\ device_id \in BOOLEAN
  /\ pc = "idle" /\ request = NoRequest /\ call = NoCall /\ moved = <<>> /\ segs = <<>>
-----------------------------------------------------------------------------
\* Request::parse.  A descriptor is a buffer with the flag w (VRING_DESC_F_WRITE).

CheckDataDesc(w, type) == type = "In" => w

\* Bug: the address is not looked up.
CheckStatusDescUnmapped(b, w) == w /\ b.len >= 1

CheckStatusDesc(b, w) == w /\ b.len >= 1 /\ b.mapped >= 1

\* The units in the first k data buffers; each buffer knows how many come before it.
Passed(data, k) == IF k = 0 THEN 0 ELSE data[k].from + data[k].len

TotalDataLen(r) == Passed(r.data, Len(r.data))

\* The head of a chain; parse fails at once if it is writable or not in guest memory.
Header == [type : RequestTypes, sector : Sectors, w : BOOLEAN, mapped : BOOLEAN]

ParseHeader(h) ==
  /\ pc = "idle"
  /\ ~h.w /\ h.mapped
  /\ h.type = "Flush" => h.sector = 0
  /\ pc' = "parse"
  /\ request' = [NoRequest EXCEPT !.type = h.type, !.sector = h.sector]
  /\ UNCHANGED <<file, features, device_id, call, moved, segs>>

\* parse returns an error.
Reject == pc' = "idle" /\ request' = NoRequest

\* A descriptor that has a next one holds data.
ParseData(b, w) ==
  /\ pc = "parse" /\ Len(request.data) < MaxData
  /\ IF CheckDataDesc(w, request.type)
     THEN /\ request' = [request EXCEPT !.data =
               Append(@, [from |-> TotalDataLen(request), len |-> b.len, mapped |-> b.mapped])]
          /\ UNCHANGED pc
     ELSE Reject
  /\ UNCHANGED <<file, features, device_id, call, moved, segs>>

\* The last descriptor is for the status.
ParseStatus(b, w) ==
  /\ pc = "parse"
  /\ IF CheckStatusDesc(b, w)
     THEN pc' = "execute" /\ request' = [request EXCEPT !.status = b.mapped]
     ELSE Reject
  /\ UNCHANGED <<file, features, device_id, call, moved, segs>>

\* The walk over the chain stops at a descriptor that has a next one.
ParseCut ==
  /\ pc = "parse" /\ Reject
  /\ UNCHANGED <<file, features, device_id, call, moved, segs>>
-----------------------------------------------------------------------------
\* StdIoBackend::execute.

CheckAccess(count, sector) == count + sector <= num_sectors

\* Bug: a read-only device refuses only plain writes.
CheckRequestWrites(type) ==
  IF "RO" \in features /\ type = "Out" THEN "IOERR"
  ELSE IF \/ type = "Flush" /\ "FLUSH" \notin features
          \/ type = "Discard" /\ "DISCARD" \notin features
          \/ type = "WriteZeroes" /\ "WRITE_ZEROES" \notin features
       THEN "UNSUPP"
       ELSE "OK"

CheckRequest(type) ==
  IF "RO" \in features /\ type # "In" THEN "IOERR"
  ELSE IF \/ type = "Flush" /\ "FLUSH" \notin features
          \/ type = "Discard" /\ "DISCARD" \notin features
          \/ type = "WriteZeroes" /\ "WRITE_ZEROES" \notin features
       THEN "UNSUPP"
       ELSE "OK"

\* The status of a request of a type that check_request lets pass, when execute returns
\* without or before its loop over the data.
CheckType(r, syncs) ==
  LET total == TotalDataLen(r)
      whole == total % SectorUnits = 0 /\ CheckAccess(total \div SectorUnits, r.sector)
  IN  CASE r.type = "In" -> IF whole /\ total <= MaxU32 THEN "OK" ELSE "IOERR"
        [] r.type = "Out" -> IF whole THEN "OK" ELSE "IOERR"
        [] r.type = "Flush" -> IF syncs THEN "OK" ELSE "IOERR"
        [] r.type = "GetDeviceID" ->
             IF ~device_id THEN "UNSUPP" ELSE IF total = IdLen THEN "OK" ELSE "IOERR"
        [] r.type \in {"Discard", "WriteZeroes"} -> "OK"
        [] r.type = "Unsupported" -> "UNSUPP"

\* The loop over the data that a type has.
LoopOf(type) ==
  CASE type \in {"In", "Out", "GetDeviceID"} -> "transfer"
    [] type \in {"Discard", "WriteZeroes"} -> "buffers"
    [] OTHER -> "status"

\* Bug: the file is not positioned.
ExecuteNoSeek(seeks, syncs) ==
  /\ pc = "execute"
  /\ LET status == IF CheckRequest(request.type) # "OK" THEN CheckRequest(request.type)
                   ELSE CheckType(request, syncs)
     IN  /\ pc' = IF status = "OK" THEN LoopOf(request.type) ELSE "status"
         /\ call' = [call EXCEPT !.status = status]
  /\ UNCHANGED <<file, features, device_id, request, moved, segs>>

\* execute up to its loop: the file is positioned, which may fail, then come the checks.
Execute(seeks, syncs) ==
  /\ pc = "execute"
  /\ LET status == IF ~seeks THEN "IOERR"
                   ELSE IF CheckRequest(request.type) # "OK" THEN CheckRequest(request.type)
                   ELSE CheckType(request, syncs)
     IN  /\ pc' = IF status = "OK" THEN LoopOf(request.type) ELSE "status"
         /\ call' = [call EXCEPT !.status = status,
                                 !.position = IF seeks THEN request.sector * SectorUnits ELSE @]
  /\ UNCHANGED <<file, features, device_id, request, moved, segs>>

\* The data buffer the loop is at.
Buffer == request.data[call.at + 1]

\* execute returns an error, or, with "OK", comes to its end.
Answer(status) == pc' = "status" /\ call' = [call EXCEPT !.status = status]

\* Bug: a buffer counts in full although its transfer failed.
TurnCountsAll(n) ==
  IF n = Buffer.len
  THEN /\ call' = [call EXCEPT !.at = @ + 1, !.position = @ + n,
                               !.bytes_to_mem = IF request.type = "Out" THEN @ ELSE @ + n]
       /\ UNCHANGED pc
  ELSE /\ call' = [call EXCEPT !.status = "IOERR", !.file_failed = n < Buffer.mapped,
                               !.bytes_to_mem = IF request.type = "Out" THEN @ ELSE @ + Buffer.len]
       /\ pc' = "status"

\* A turn of the loop in which n units are moved.  If guest memory ended, those before the
\* end are counted (PartialBuffer); if the file failed, those before the failure are not.
Turn(n) ==
  IF n = Buffer.len
  THEN /\ call' = [call EXCEPT !.at = @ + 1, !.position = @ + n,
                               !.bytes_to_mem = IF request.type = "Out" THEN @ ELSE @ + n]
       /\ UNCHANGED pc
  ELSE /\ call' = [call EXCEPT !.status = "IOERR", !.file_failed = n < Buffer.mapped,
                               !.bytes_to_mem = IF request.type = "Out" \/ n < Buffer.mapped
                                                THEN @ ELSE @ + n]
       /\ pc' = "status"

\* There is a buffer for the loop of a request of this type.
AtBuffer(type) == pc = "transfer" /\ request.type = type /\ call.at < Len(request.data)

\* read_exact_volatile_from moves units from the file to a buffer.
In ==
  /\ AtBuffer("In")
  /\ \E n \in 0 .. Buffer.mapped :
       /\ call.position + n <= FileLen
       /\ moved' = moved \o [k \in 1 .. n |-> file[call.position + k - 1]]
       /\ Turn(n)
  /\ UNCHANGED <<file, features, device_id, request, segs>>

\* The file after the units of s were written at p, which may make it longer.
Written(f, p, s) ==
  [u \in DOMAIN f \union p .. p + Len(s) - 1 |->
     IF u \in p .. p + Len(s) - 1 THEN s[u - p + 1] ELSE f[u]]

\* write_all_volatile_to moves units from a buffer to the file.
Out ==
  /\ AtBuffer("Out")
  /\ \E n \in 0 .. Buffer.mapped : \E s \in [1 .. n -> Data] :
       /\ file' = Written(file, call.position, s)
       /\ moved' = moved \o s
       /\ Turn(n)
  /\ UNCHANGED <<features, device_id, request, segs>>

\* The id is copied from memory of the device: nothing but guest memory can fail.
GetDeviceID ==
  /\ AtBuffer("GetDeviceID")
  /\ moved' = moved \o [k \in 1 .. Buffer.mapped |-> IdUnit(call.bytes_to_mem + k)]
  /\ Turn(Buffer.mapped)
  /\ UNCHANGED <<file, features, device_id, request, segs>>

EndTransfer ==
  /\ pc = "transfer" /\ call.at = Len(request.data)
  /\ Answer("OK")
  /\ UNCHANGED <<file, features, device_id, request, moved, segs>>
-----------------------------------------------------------------------------
\* The loop of Discard and WriteZeroes over the data buffers.  A buffer that leaves guest
\* memory may also leave the address space, which is seen before any of its segments.
StartBuffer(overflow) ==
  /\ pc = "buffers"
  /\ IF call.at = Len(request.data) THEN Answer("OK")
     ELSE IF Buffer.len % SegUnits # 0 \/ (overflow /\ Buffer.mapped < Buffer.len)
     THEN Answer("IOERR")
     ELSE pc' = "segments" /\ UNCHANGED call
  /\ UNCHANGED <<file, features, device_id, request, moved, segs>>

EndBuffer ==
  /\ pc = "segments" /\ Buffer.len - call.crt < SegUnits
  /\ pc' = "buffers" /\ call' = [call EXCEPT !.at = @ + 1, !.crt = 0]
  /\ UNCHANGED <<file, features, device_id, request, moved, segs>>

Zeroed(f, from, n) == [u \in DOMAIN f |-> IF u \in from .. from + n - 1 THEN 0 ELSE f[u]]

ValidFlags(type) == IF type = "WriteZeroes" THEN {"unmap"} ELSE {}

\* The loop goes on with the next segment.
NextSegment == pc' = pc /\ call' = [call EXCEPT !.crt = @ + SegUnits]

\* Bug: a hole that cannot be punched is ignored for write zeroes too.
HandleDiscardWriteZeroesHint(seg, hole, n) ==
  LET length == seg.num_sectors * SectorUnits
      hint == request.type = "Discard" \/ "unmap" \in seg.flags
      zeroed == IF hint /\ hole THEN length ELSE IF hint THEN 0 ELSE n
  IN  IF ~(seg.flags \subseteq ValidFlags(request.type))
      THEN Answer("UNSUPP") /\ UNCHANGED <<file, segs>>
      ELSE IF ~CheckAccess(seg.num_sectors, seg.sector)
      THEN Answer("IOERR") /\ UNCHANGED <<file, segs>>
      ELSE /\ file' = Zeroed(file, seg.sector * SectorUnits, zeroed)
           /\ segs' = Append(segs, seg)
           /\ IF hint \/ zeroed = length THEN NextSegment ELSE Answer("IOERR")

\* handle_discard_write_zeroes.  hole: punch_hole succeeds; n: what write_all_zeroes_at
\* writes before it fails.  A failing hole is ignored for a discard and replaced by writing
\* zeroes otherwise.
HandleDiscardWriteZeroes(seg, hole, n) ==
  LET length == seg.num_sectors * SectorUnits
      discard == request.type = "Discard"
      zeroed == IF hole /\ (discard \/ "unmap" \in seg.flags) THEN length
                ELSE IF discard THEN 0 ELSE n
  IN  IF ~(seg.flags \subseteq ValidFlags(request.type))
      THEN Answer("UNSUPP") /\ UNCHANGED <<file, segs>>
      ELSE IF ~CheckAccess(seg.num_sectors, seg.sector)
      THEN Answer("IOERR") /\ UNCHANGED <<file, segs>>
      ELSE /\ file' = Zeroed(file, seg.sector * SectorUnits, zeroed)
           /\ segs' = Append(segs, seg)
           /\ IF discard \/ zeroed = length THEN NextSegment ELSE Answer("IOERR")

\* A turn of the loop over the segments of a buffer.
ReadSegment(seg, hole) ==
  /\ pc = "segments" /\ Buffer.len - call.crt >= SegUnits
  /\ IF call.crt + SegUnits > Buffer.mapped
     THEN Answer("IOERR") /\ UNCHANGED <<file, segs>>
     ELSE \E n \in 0 .. seg.num_sectors * SectorUnits : HandleDiscardWriteZeroes(seg, hole, n)
  /\ UNCHANGED <<features, device_id, request, moved>>
-----------------------------------------------------------------------------
\* process_request after execute: a status that cannot be written, or a used length above
\* u32::MAX, is an error of the call.
WriteStatus ==
  /\ pc = "status" /\ pc' = "done"
  /\ call' = [call EXCEPT !.used = call.bytes_to_mem + 1,
                          !.status = IF request.status = 0 \/ call.bytes_to_mem + 1 > MaxU32
                                     THEN "error" ELSE @]
  /\ UNCHANGED <<file, features, device_id, request, moved, segs>>

\* The device hands the chain back and is ready for the next one.
Complete ==
  /\ pc = "done" /\ pc' = "idle"
  /\ request' = NoRequest /\ call' = NoCall /\ moved' = <<>> /\ segs' = <<>>
  /\ UNCHANGED <<file, features, device_id>>

Next ==
  \/ \E h \in Header : ParseHeader(h)
  \/ \E b \in Buffers, w \in BOOLEAN : ParseData(b, w) \/ ParseStatus(b, w)
  \/ ParseCut
  \/ \E seeks, syncs \in BOOLEAN : Execute(seeks, syncs)
  \/ In \/ Out \/ GetDeviceID \/ EndTransfer
  \/ \E overflow \in BOOLEAN : StartBuffer(overflow)
  \/ \E seg \in Segments, hole \in BOOLEAN : ReadSegment(seg, hole)
  \/ EndBuffer
  \/ WriteStatus \/ Complete

Spec == Init /\ [][Next]_vars
-----------------------------------------------------------------------------
RequestBuffer == [from : Nat, len : Nat, mapped : Nat]

RequestRecord == [type : RequestTypes, sector : Nat, data : Seq(RequestBuffer), status : Nat]

\* The locals of a call for a request with l data buffers.
CallRecord(l) ==
  [at : 0 .. l, crt : Nat, bytes_to_mem : 0 .. MaxU32, status : {"OK", "IOERR", "UNSUPP", "error"},
   used : 0 .. MaxU32 + 1, position : Nat, file_failed : BOOLEAN]

\* The file keeps its length and the device knows where it is; results are a status and a
\* used length of 32 bits.
TypeOK ==
  /\ file \in [0 .. FileLen - 1 -> Data \union {Remainder}]
  /\ features \in FeatureSets /\ device_id \in BOOLEAN
  /\ pc \in {"idle", "parse", "execute", "transfer", "buffers", "segments", "status", "done"}
  /\ request \in RequestRecord /\ call \in CallRecord(Len(request.data))
  /\ moved \in Seq(Int) /\ segs \in Seq(Segments)

\* A request that parse accepted always gets a status byte and a used length: the
\* checks made while parsing are the ones process_request relies on much later.
AlwaysAnswered == pc = "done" => call.status # "error"

\* The first unit that a read or write names.
Start == request.sector * SectorUnits

Units(seg) == seg.sector * SectorUnits .. (seg.sector + seg.num_sectors) * SectorUnits - 1

\* VIRTIO_BLK_S_OK means that the whole request was done: the sectors that a read or write
\* names hold what was moved, in order, the id was copied in full, and all ranges of a write
\* zeroes request read as zeroes whatever the unmap flag and the support for holes.
OkMeansDone ==
  pc = "done" /\ call.status = "OK" =>
    /\ request.type \in {"In", "Out"} =>
         moved = [k \in 1 .. TotalDataLen(request) |-> file[Start + k - 1]]
    /\ request.type = "GetDeviceID" => moved = [k \in 1 .. IdLen |-> IdUnit(k)]
    /\ request.type \in {"Discard", "WriteZeroes"} =>
         Len(segs) * SegUnits = TotalDataLen(request)
    /\ request.type = "WriteZeroes" =>
         \A k \in DOMAIN segs : \A u \in Units(segs[k]) : file[u] = 0

\* The used length is one more than the units written to the buffers, also when a
\* buffer runs out of guest memory half-way; when the file fails it may only be less.
UsedLengthIsWritten ==
  pc = "done" =>
    LET written == IF request.type \in {"In", "GetDeviceID"} THEN Len(moved) ELSE 0
    IN  call.used <= written + 1 /\ (~call.file_failed => call.used = written + 1)

\* The part of the file behind the last whole sector is never read, written or
\* zeroed ("the remainder will not be visible to the guest").
RemainderInvisible ==
  /\ \A u \in DOMAIN file : file[u] = Remainder <=> u >= Visible
  /\ \A k \in DOMAIN moved : moved[k] # Remainder

\* The units the request may change.
Named ==
  CASE request.type = "Out" -> Start .. Start + TotalDataLen(request) - 1
    [] request.type \in {"Discard", "WriteZeroes"} -> UNION {Units(segs[k]) : k \in DOMAIN segs}
    [] OTHER -> {}

\* No request changes a sector it does not name, whether it succeeds, is refused or
\* fails half-way, and a read-only device never changes the file.
OnlyNamedChange ==
  [][\A u \in DOMAIN file : file'[u] # file[u] => "RO" \notin features /\ u \in Named']_vars
=============================================================================
