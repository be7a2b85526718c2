-------------------------- MODULE BlkDeviceProofs --------------------------
(***************************************************************************)
(* Block requests are answered, done when they are answered with OK,       *)
(* reported with their true length, and kept within the sectors they name, *)
(* for every file, request, guest memory and failure of the file.          *)
(***************************************************************************)
EXTENDS BlkDevice, SequenceTheorems, TLAPS

\* The data buffers follow each other in the stream of the request, and no buffer has more
\* in guest memory than its length.
DataSound(data) ==
  /\ data \in Seq(RequestBuffer)
  /\ \A k \in DOMAIN data :
       data[k].from = Passed(data, k - 1) /\ data[k].mapped <= data[k].len
  /\ \A j, k \in 0 .. Len(data) :
       Passed(data, j) \in Nat /\ (j <= k => Passed(data, j) <= Passed(data, k))

\* The first n units that the request moves, if f is the file.
Content(f, n) ==
  [k \in 1 .. n |-> IF request.type = "GetDeviceID" THEN IdUnit(k) ELSE f[Start + k - 1]]

\* The n of them behind the first p.
Piece(f, p, n) == [k \in 1 .. n |-> Content(f, p + n)[p + k]]

\* In the loop of a read, write or id request: the units of the buffers passed were moved,
\* the counter and the cursor agree with them, and the rest stays in the visible sectors.
Transferring ==
  /\ request.type \in {"In", "Out", "GetDeviceID"}
  /\ CheckRequest(request.type) = "OK"
  /\ call.status = "OK" /\ ~call.file_failed
  /\ moved = Content(file, Passed(request.data, call.at))
  /\ call.bytes_to_mem = IF request.type = "Out" THEN 0 ELSE Passed(request.data, call.at)
  /\ request.type = "GetDeviceID" => TotalDataLen(request) = IdLen
  /\ request.type # "GetDeviceID" =>
       /\ call.position = Start + Passed(request.data, call.at)
       /\ Start + TotalDataLen(request) <= Visible
  /\ request.type = "In" => TotalDataLen(request) < MaxU32

\* The segments acted on are in the visible sectors, and zero if that was asked for.
SegmentsDone ==
  \A k \in DOMAIN segs : \A u \in Units(segs[k]) :
    /\ u \in 0 .. Visible - 1
    /\ request.type = "WriteZeroes" => file[u] = 0

\* In the loops of a discard or write zeroes request: each segment that was passed has been
\* acted on, and a whole number of segments is left of the buffer.
Segmenting ==
  /\ request.type \in {"Discard", "WriteZeroes"}
  /\ CheckRequest(request.type) = "OK"
  /\ call.status = "OK" /\ ~call.file_failed /\ call.bytes_to_mem = 0
  /\ moved = <<>>
  /\ SegmentsDone
  /\ Len(segs) * SegUnits = Passed(request.data, call.at) + call.crt
  /\ pc = "buffers" => call.crt = 0
  /\ pc = "segments" =>
       /\ call.at < Len(request.data)
       /\ \E m \in Nat : Buffer.len - call.crt = m * SegUnits

\* What an answer of OK means.
Done ==
  /\ request.type \in {"In", "Out", "GetDeviceID"} => moved = Content(file, TotalDataLen(request))
  /\ request.type = "GetDeviceID" => TotalDataLen(request) = IdLen
  /\ request.type \in {"Discard", "WriteZeroes"} =>
       SegmentsDone /\ Len(segs) * SegUnits = TotalDataLen(request)

\* The units written to the buffers.
WrittenLen == IF request.type \in {"In", "GetDeviceID"} THEN Len(moved) ELSE 0

\* After execute: its answer is true and there is room for one more byte in the length.
Answered ==
  /\ call.status \in {"OK", "IOERR", "UNSUPP"}
  /\ call.status = "OK" => Done
  /\ call.bytes_to_mem < MaxU32
  /\ call.bytes_to_mem <= WrittenLen
  /\ ~call.file_failed => call.bytes_to_mem = WrittenLen
  /\ pc = "done" => call.used = call.bytes_to_mem + 1

\* The inductive invariant.
BlkInv ==
  /\ TypeOK
  /\ DataSound(request.data)
  /\ RemainderInvisible
  /\ pc \in {"idle", "parse", "execute"} => call = NoCall /\ moved = <<>> /\ segs = <<>>
  /\ pc \notin {"idle", "parse"} => request.status >= 1
  /\ pc = "transfer" => Transferring
  /\ pc \in {"buffers", "segments"} => Segmenting
  /\ pc \in {"status", "done"} => Answered
-----------------------------------------------------------------------------
\* Facts about sizes.

\* The constants are numbers.
LEMMA Sizes ==
  /\ SectorUnits \in Nat \ {0} /\ SegUnits \in Nat \ {0} /\ FileLen \in Nat
  /\ IdLen \in Nat /\ MaxU32 \in Nat /\ 0 < MaxU32 /\ IdLen < MaxU32
BY BlkAssumption

\* The visible part is in the file.
LEMMA VisibleInFile == Visible \in Nat /\ Visible <= FileLen /\ num_sectors \in Nat
                         /\ Visible = num_sectors * SectorUnits
<1>1. FileLen \div SectorUnits \in Nat
  BY Sizes
<1>2. SectorUnits * (FileLen \div SectorUnits) <= FileLen
  BY Sizes
<1> DEFINE q == FileLen \div SectorUnits
<1> HIDE DEF q
<1>3. q \in Nat /\ SectorUnits * q <= FileLen
  BY <1>1, <1>2 DEF q
<1>4. SectorUnits * q \in Nat /\ SectorUnits * q = q * SectorUnits
  BY <1>3, Sizes
<1> QED
  BY <1>3, <1>4, Zenon DEF Visible, num_sectors, q

\* A range of sectors in units.
LEMMA SectorRange ==
  ASSUME NEW a \in Nat, NEW n \in Nat
  PROVE  /\ a * SectorUnits \in Nat /\ n * SectorUnits \in Nat
         /\ (a + n) * SectorUnits = a * SectorUnits + n * SectorUnits
BY Sizes

\* Sectors that check_access lets pass are visible.
LEMMA AccessInside ==
  ASSUME NEW a \in Nat, NEW n \in Nat, CheckAccess(n, a)
  PROVE  a * SectorUnits + n * SectorUnits <= Visible
<1>1. a + n \in Nat /\ a + n <= num_sectors
  BY VisibleInFile DEF CheckAccess
<1>2. (a + n) * SectorUnits <= num_sectors * SectorUnits
  BY <1>1, Sizes, VisibleInFile
<1> QED
  BY <1>2, SectorRange, VisibleInFile

\* So are those of a read or write, whose length is a number of whole sectors.
LEMMA WholeInside ==
  ASSUME NEW a \in Nat, NEW t \in Nat, t % SectorUnits = 0, CheckAccess(t \div SectorUnits, a)
  PROVE  a * SectorUnits + t <= Visible
<1> DEFINE q == t \div SectorUnits
<1>1. q \in Nat /\ t = SectorUnits * q
  BY Sizes
<1>2. a * SectorUnits + q * SectorUnits <= Visible
  BY <1>1, AccessInside
<1> HIDE DEF q
<1>3. q * SectorUnits = t
  BY <1>1, Sizes
<1> QED
  BY <1>2, <1>3
-----------------------------------------------------------------------------
\* Facts about the data of a request.

\* The units before and behind a buffer.
LEMMA DataStep ==
  ASSUME NEW data, DataSound(data), NEW k \in Nat, k < Len(data)
  PROVE  /\ data[k + 1] \in RequestBuffer
         /\ data[k + 1].len \in Nat /\ data[k + 1].mapped \in Nat
         /\ data[k + 1].mapped <= data[k + 1].len
         /\ Passed(data, k) \in Nat /\ Passed(data, k + 1) \in Nat
         /\ Passed(data, k + 1) = Passed(data, k) + data[k + 1].len
         /\ Passed(data, k + 1) <= Passed(data, Len(data))
<1>1. data \in Seq(RequestBuffer) /\ Len(data) \in Nat /\ DOMAIN data = 1 .. Len(data)
  BY DEF DataSound
<1>2. /\ k + 1 \in DOMAIN data /\ k \in 0 .. Len(data) /\ k + 1 \in 0 .. Len(data)
      /\ Len(data) \in 0 .. Len(data) /\ k + 1 <= Len(data) /\ (k + 1) - 1 = k /\ k + 1 # 0
  BY <1>1
<1>3. data[k + 1] \in RequestBuffer
  BY <1>1, <1>2
<1>4. data[k + 1].len \in Nat /\ data[k + 1].mapped \in Nat
  BY <1>3 DEF RequestBuffer
<1>5. data[k + 1].from = Passed(data, k) /\ data[k + 1].mapped <= data[k + 1].len
  BY <1>2, Zenon DEF DataSound
<1>6. Passed(data, k) \in Nat /\ Passed(data, k + 1) \in Nat /\ Passed(data, k + 1) <= Passed(data, Len(data))
  BY <1>2, Zenon DEF DataSound
<1>7. Passed(data, k + 1) = data[k + 1].from + data[k + 1].len
  BY <1>2, Zenon DEF Passed
<1> QED
  BY <1>3, <1>4, <1>5, <1>6, <1>7, Zenon

\* All the data.
LEMMA DataTotal ==
  ASSUME NEW data, DataSound(data), NEW k \in 0 .. Len(data)
  PROVE  /\ Len(data) \in Nat /\ Passed(data, k) \in Nat /\ Passed(data, Len(data)) \in Nat
         /\ Passed(data, k) <= Passed(data, Len(data)) /\ Passed(data, 0) = 0
<1>1. Len(data) \in Nat
  BY DEF DataSound
<1>2. Len(data) \in 0 .. Len(data) /\ k <= Len(data)
  BY <1>1
<1> QED
  BY <1>1, <1>2, Zenon DEF DataSound, Passed

\* No data.
LEMMA NoData == DataSound(<<>>)
<1>1. <<>> \in Seq(RequestBuffer) /\ Len(<<>>) = 0 /\ DOMAIN <<>> = {}
  OBVIOUS
<1>2. \A j \in 0 .. Len(<<>>) : j = 0
  BY <1>1
<1>3. Passed(<<>>, 0) = 0
  BY Zenon DEF Passed
<1> QED
  BY <1>1, <1>2, <1>3 DEF DataSound

\* parse adds a buffer at the end of the stream.
LEMMA DataAppend ==
  ASSUME NEW data, DataSound(data), NEW b \in Buffers
  PROVE  DataSound(Append(data, [from |-> Passed(data, Len(data)), len |-> b.len, mapped |-> b.mapped]))
<1> DEFINE l == Len(data)
           x == [from |-> Passed(data, l), len |-> b.len, mapped |-> b.mapped]
           new == Append(data, x)
<1>1. data \in Seq(RequestBuffer) /\ l \in Nat /\ Passed(data, l) \in Nat
  <2>1. data \in Seq(RequestBuffer) /\ l \in Nat
    BY DEF DataSound
  <2>2. l \in 0 .. l
    BY <2>1
  <2> QED
    BY <2>1, <2>2, Zenon DEF DataSound
<1>2. b.len \in Nat /\ b.mapped \in Nat /\ b.mapped <= b.len
  BY BlkAssumption
<1>3. x \in RequestBuffer /\ x.from = Passed(data, l) /\ x.len = b.len /\ x.mapped = b.mapped
  BY <1>1, <1>2 DEF RequestBuffer
<1> HIDE DEF x
<1>4. /\ new \in Seq(RequestBuffer) /\ Len(new) = l + 1 /\ DOMAIN new = 1 .. l + 1
      /\ new[l + 1] = x /\ \A k \in 1 .. l : new[k] = data[k]
  BY <1>1, <1>3
<1> HIDE DEF new, l
<1>5. \A k \in 0 .. l : Passed(new, k) = Passed(data, k)
  BY <1>1, <1>4 DEF Passed
<1>6. Passed(new, l + 1) = Passed(data, l) + x.len /\ x.len \in Nat
  BY <1>1, <1>2, <1>3, <1>4 DEF Passed
<1>7. \A k \in DOMAIN new : new[k].from = Passed(new, k - 1) /\ new[k].mapped <= new[k].len
  <2>1. ASSUME NEW k \in 1 .. l
        PROVE  new[k].from = Passed(new, k - 1) /\ new[k].mapped <= new[k].len
    <3>1. k \in DOMAIN data /\ k - 1 \in 0 .. l
      BY <1>1 DEF l
    <3> QED
      BY <1>4, <1>5, <3>1 DEF DataSound
  <2>2. l + 1 - 1 = l /\ l \in 0 .. l
    BY <1>1
  <2>3. new[l + 1].from = Passed(new, (l + 1) - 1) /\ new[l + 1].mapped <= new[l + 1].len
    BY <1>2, <1>3, <1>4, <1>5, <2>2
  <2> QED
    BY <1>1, <1>4, <2>1, <2>3
<1>8. ASSUME NEW j \in 0 .. l + 1, NEW k \in 0 .. l + 1
      PROVE  Passed(new, j) \in Nat /\ (j <= k => Passed(new, j) <= Passed(new, k))
  <2>1. \A i \in 0 .. l : Passed(data, i) \in Nat /\ Passed(data, i) <= Passed(data, l)
    <3>1. ASSUME NEW i \in 0 .. l
          PROVE  Passed(data, i) \in Nat /\ Passed(data, i) <= Passed(data, l)
      BY DataTotal DEF l
    <3> QED
      BY <3>1
  <2>2. CASE j \in 0 .. l /\ k \in 0 .. l
    BY <1>5, <2>2 DEF DataSound, l
  <2>3. CASE j \in 0 .. l /\ k = l + 1
    BY <1>1, <1>5, <1>6, <2>1, <2>3
  <2>4. CASE j = l + 1
    BY <1>1, <1>6, <2>4
  <2> QED
    BY <1>1, <2>2, <2>3, <2>4
<1>9. DataSound(new)
  BY <1>4, <1>7, <1>8 DEF DataSound
<1> QED
  BY <1>9 DEF new, x, l
-----------------------------------------------------------------------------
\* Facts about the file and the units moved.

\* A file of the right length whose remainder is where it was.
FileOK(f) ==
  /\ f \in [0 .. FileLen - 1 -> Data \union {Remainder}]
  /\ \A u \in 0 .. FileLen - 1 : f[u] = Remainder <=> u >= Visible

\* What a driver writes is not the remainder.
LEMMA DataIsNumber == Data \subseteq Nat /\ 0 \in Data /\ Remainder \notin Data /\ Remainder \in Int
BY BlkAssumption DEF Remainder

\* A write to visible sectors changes what it covers and nothing else.
LEMMA WrittenInside ==
  ASSUME NEW f, FileOK(f), NEW p \in Nat, NEW n \in Nat, NEW s \in [1 .. n -> Data],
         p + n <= Visible
  PROVE  /\ FileOK(Written(f, p, s))
         /\ \A u \in 0 .. FileLen - 1 :
              Written(f, p, s)[u] = IF p <= u /\ u < p + n THEN s[u - p + 1] ELSE f[u]
<1>1. s \in Seq(Data) /\ Len(s) = n
  OBVIOUS
<1> DEFINE g == Written(f, p, s)
<1>2. DOMAIN f = 0 .. FileLen - 1 /\ Visible \in Nat /\ Visible <= FileLen /\ FileLen \in Nat
  BY VisibleInFile, Sizes DEF FileOK
<1>3. DOMAIN f \union p .. p + n - 1 = 0 .. FileLen - 1
  BY <1>2
<1>4. g = [u \in 0 .. FileLen - 1 |-> IF u \in p .. p + n - 1 THEN s[u - p + 1] ELSE f[u]]
  BY <1>1, <1>3, Zenon DEF Written
<1> HIDE DEF g
<1>5. ASSUME NEW u \in 0 .. FileLen - 1
      PROVE  /\ g[u] = IF p <= u /\ u < p + n THEN s[u - p + 1] ELSE f[u]
             /\ g[u] \in Data \union {Remainder}
             /\ g[u] = Remainder <=> u >= Visible
  <2>1. g[u] = IF u \in p .. p + n - 1 THEN s[u - p + 1] ELSE f[u]
    BY <1>4
  <2>2. u \in p .. p + n - 1 <=> p <= u /\ u < p + n
    OBVIOUS
  <2>3. CASE u \in p .. p + n - 1
    <3>1. u - p + 1 \in 1 .. n /\ ~(u >= Visible)
      BY <1>2, <2>3
    <3>2. s[u - p + 1] \in Data
      BY <3>1
    <3> QED
      BY <2>1, <2>2, <2>3, <3>1, <3>2, DataIsNumber, Zenon
  <2>4. CASE u \notin p .. p + n - 1
    BY <2>1, <2>2, <2>4, Zenon DEF FileOK
  <2> QED
    BY <2>3, <2>4
<1>6. g \in [0 .. FileLen - 1 -> Data \union {Remainder}]
  BY <1>4, <1>5
<1>7. FileOK(g) /\ \A u \in 0 .. FileLen - 1 : g[u] = IF p <= u /\ u < p + n THEN s[u - p + 1] ELSE f[u]
  BY <1>5, <1>6, Zenon DEF FileOK
<1> QED
  BY <1>7 DEF g

\* So does making zeroes.
LEMMA ZeroedInside ==
  ASSUME NEW f, FileOK(f), NEW p \in Nat, NEW n \in Nat, p + n <= Visible
  PROVE  /\ FileOK(Zeroed(f, p, n))
         /\ \A u \in 0 .. FileLen - 1 :
              Zeroed(f, p, n)[u] = IF p <= u /\ u < p + n THEN 0 ELSE f[u]
<1> DEFINE g == Zeroed(f, p, n)
<1>1. DOMAIN f = 0 .. FileLen - 1 /\ Visible \in Nat /\ Visible <= FileLen /\ FileLen \in Nat
  BY VisibleInFile, Sizes DEF FileOK
<1>2. g = [u \in 0 .. FileLen - 1 |-> IF u \in p .. p + n - 1 THEN 0 ELSE f[u]]
  BY <1>1, Zenon DEF Zeroed
<1> HIDE DEF g
<1>3. ASSUME NEW u \in 0 .. FileLen - 1
      PROVE  /\ g[u] = IF p <= u /\ u < p + n THEN 0 ELSE f[u]
             /\ g[u] \in Data \union {Remainder}
             /\ g[u] = Remainder <=> u >= Visible
  <2>1. g[u] = IF u \in p .. p + n - 1 THEN 0 ELSE f[u]
    BY <1>2
  <2>2. /\ u \in p .. p + n - 1 <=> p <= u /\ u < p + n
        /\ u \in p .. p + n - 1 => ~(u >= Visible)
    BY <1>1
  <2>3. CASE u \in p .. p + n - 1
    BY <2>1, <2>2, <2>3, DataIsNumber, Zenon
  <2>4. CASE u \notin p .. p + n - 1
    BY <2>1, <2>2, <2>4, Zenon DEF FileOK
  <2> QED
    BY <2>3, <2>4
<1>4. g \in [0 .. FileLen - 1 -> Data \union {Remainder}]
  BY <1>2, <1>3
<1>5. FileOK(g) /\ \A u \in 0 .. FileLen - 1 : g[u] = IF p <= u /\ u < p + n THEN 0 ELSE f[u]
  BY <1>3, <1>4, Zenon DEF FileOK
<1> QED
  BY <1>5 DEF g

\* Units moved one buffer after the other are a longer piece of the same content.
LEMMA MovedOn ==
  ASSUME NEW p \in Nat, NEW n \in Nat, NEW c \in [1 .. p + n -> Int],
         NEW m \in [1 .. p -> Int], \A k \in 1 .. p : m[k] = c[k],
         NEW t \in [1 .. n -> Int], \A k \in 1 .. n : t[k] = c[p + k]
  PROVE  m \o t = c /\ m \o t \in Seq(Int) /\ Len(m \o t) = p + n
<1>1. m \in Seq(Int) /\ Len(m) = p
  OBVIOUS
<1>2. t \in Seq(Int) /\ Len(t) = n
  OBVIOUS
<1>3. p \in Nat /\ n \in Nat
  OBVIOUS
<1> DEFINE s == m \o t
<1>4. /\ s \in Seq(Int) /\ Len(s) = Len(m) + Len(t)
      /\ \A k \in 1 .. Len(m) + Len(t) : s[k] = IF k <= Len(m) THEN m[k] ELSE t[k - Len(m)]
  BY ONLY <1>1, <1>2, ConcatProperties, ZenonT(30)
<1> HIDE DEF s
<1>5. ASSUME NEW k \in 1 .. p + n
      PROVE  s[k] = c[k]
  <2>1. s[k] = IF k <= p THEN m[k] ELSE t[k - p]
    BY <1>1, <1>2, <1>4
  <2>2. CASE k <= p
    BY <2>1, <2>2
  <2>3. CASE ~(k <= p)
    <3>1. k - p \in 1 .. n /\ p + (k - p) = k
      BY <2>3
    <3> QED
      BY <2>1, <2>3, <3>1, Zenon
  <2> QED
    BY <2>2, <2>3
<1>6. c \in Seq(Int) /\ Len(c) = p + n
  OBVIOUS
<1>7. s = c
  BY <1>1, <1>2, <1>4, <1>5, <1>6
<1> QED
  BY <1>1, <1>2, <1>4, <1>7, Zenon DEF s
-----------------------------------------------------------------------------
\* The steps.

\* The file is right, and stays so if it has no new content.
LEMMA FileIsOK == BlkInv => FileOK(file) /\ DOMAIN file = 0 .. FileLen - 1
BY DEF BlkInv, TypeOK, RemainderInvisible, FileOK

LEMMA InitInv == Init => BlkInv
<1> SUFFICES ASSUME Init
             PROVE  BlkInv
  OBVIOUS
<1>1. NoRequest \in RequestRecord
  BY DEF NoRequest, RequestTypes, RequestRecord
<1>2. NoRequest.data = <<>> /\ Len(NoRequest.data) = 0
  BY DEF NoRequest
<1>3. NoCall \in CallRecord(0)
  BY Sizes DEF NoCall, CallRecord
<1>4. TypeOK
  BY <1>1, <1>2, <1>3 DEF Init, TypeOK
<1>5. RemainderInvisible
  BY DEF Init, RemainderInvisible
<1> QED
  BY <1>2, <1>4, <1>5, NoData DEF Init, BlkInv

\* What does not change while a request is parsed.
LEMMA ParseKeeps ==
  ASSUME BlkInv, UNCHANGED <<file, features, device_id, call, moved, segs>>,
         pc \in {"idle", "parse"}, pc' \in {"idle", "parse", "execute"},
         request' \in RequestRecord,
         DataSound(request'.data), pc' = "execute" => request'.status >= 1
  PROVE  BlkInv'
<1>1. call = NoCall /\ moved = <<>> /\ segs = <<>>
  BY DEF BlkInv
<1>2. Len(request'.data) \in Nat
  BY DEF RequestRecord
<1>3. NoCall \in CallRecord(Len(request'.data))
  BY <1>2, Sizes DEF NoCall, CallRecord
<1>4. TypeOK'
  BY <1>1, <1>3 DEF BlkInv, TypeOK
<1>5. RemainderInvisible'
  BY Zenon DEF BlkInv, RemainderInvisible
<1> QED
  BY <1>1, <1>4, <1>5 DEF BlkInv

\* A request without data is sound.
LEMMA FreshRequest ==
  ASSUME NEW type \in RequestTypes, NEW sector \in Nat
  PROVE  LET r == [NoRequest EXCEPT !.type = type, !.sector = sector]
         IN  /\ r \in RequestRecord
             /\ r.data = <<>>
<1>1. <<>> \in Seq(RequestBuffer)
  OBVIOUS
<1> QED
  BY <1>1, Zenon DEF NoRequest, RequestRecord

\* parse: the head of the chain.
LEMMA ParseHeaderStep ==
  ASSUME BlkInv, NEW h \in Header, ParseHeader(h)
  PROVE  BlkInv'
<1>1. h.type \in RequestTypes /\ h.sector \in Nat
  BY BlkAssumption, Zenon DEF Header
<1>2. request' \in RequestRecord
        /\ request'.data = <<>>
  BY <1>1, FreshRequest, Zenon DEF ParseHeader
<1> QED
  BY <1>2, NoData, ParseKeeps DEF ParseHeader

\* parse fails: there is no request.
LEMMA RejectStep ==
  ASSUME BlkInv, pc = "parse", Reject, UNCHANGED <<file, features, device_id, call, moved, segs>>
  PROVE  BlkInv'
<1>1. NoRequest \in RequestRecord
        /\ NoRequest.data = <<>>
  BY DEF NoRequest, RequestTypes, RequestRecord
<1> QED
  BY <1>1, NoData, ParseKeeps DEF Reject

\* parse: a data descriptor.
LEMMA ParseDataStep ==
  ASSUME BlkInv, NEW b \in Buffers, NEW w \in BOOLEAN, ParseData(b, w)
  PROVE  BlkInv'
<1>1. CASE CheckDataDesc(w, request.type)
  <2> DEFINE x == [from |-> TotalDataLen(request), len |-> b.len, mapped |-> b.mapped]
  <2>1. request' = [request EXCEPT !.data = Append(@, x)] /\ pc' = pc
    BY <1>1 DEF ParseData
  <2>2. DataSound(Append(request.data, x))
    BY DataAppend DEF BlkInv, TotalDataLen
  <2> HIDE DEF x
  <2>3. request \in RequestRecord
    BY DEF BlkInv, TypeOK
  <2>4. Append(request.data, x) \in Seq(RequestBuffer)
    BY <2>2, Zenon DEF DataSound
  <2>5. request' \in RequestRecord
          /\ request'.data = Append(request.data, x)
    BY <2>1, <2>3, <2>4, Zenon DEF RequestRecord
  <2> QED
    BY <2>1, <2>2, <2>5, ParseKeeps DEF ParseData
<1>2. CASE ~CheckDataDesc(w, request.type)
  BY <1>2, RejectStep DEF ParseData
<1> QED
  BY <1>1, <1>2

\* parse: the status descriptor.
LEMMA ParseStatusStep ==
  ASSUME BlkInv, NEW b \in Buffers, NEW w \in BOOLEAN, ParseStatus(b, w)
  PROVE  BlkInv'
<1>1. CASE CheckStatusDesc(b, w)
  <2>1. request' = [request EXCEPT !.status = b.mapped] /\ pc' = "execute"
    BY <1>1 DEF ParseStatus
  <2>2. request \in RequestRecord
    BY DEF BlkInv, TypeOK
  <2>3. b.mapped \in Nat /\ b.mapped >= 1
    BY <1>1, BlkAssumption DEF CheckStatusDesc
  <2>4. /\ request' \in RequestRecord
        /\ request'.data = request.data /\ request'.status >= 1
    BY <2>1, <2>2, <2>3 DEF RequestRecord
  <2> QED
    BY <2>1, <2>4, ParseKeeps DEF ParseStatus, BlkInv
<1>2. CASE ~CheckStatusDesc(b, w)
  BY <1>2, RejectStep DEF ParseStatus
<1> QED
  BY <1>1, <1>2

\* What does not change while a request is executed.
LEMMA CallKeeps ==
  ASSUME BlkInv, UNCHANGED <<features, device_id, request>>,
         pc \notin {"idle", "parse"}, pc' \in {"transfer", "buffers", "segments", "status", "done"},
         call' \in CallRecord(Len(request.data)), FileOK(file'),
         moved' \in Seq(Int), \A k \in DOMAIN moved' : moved'[k] # Remainder,
         segs' \in Seq(Segments),
         pc' = "transfer" => Transferring',
         pc' \in {"buffers", "segments"} => Segmenting',
         pc' \in {"status", "done"} => Answered'
  PROVE  BlkInv'
<1>1. TypeOK'
  BY DEF BlkInv, TypeOK, FileOK
<1>2. DOMAIN file' = 0 .. FileLen - 1
  BY DEF FileOK
<1>3. RemainderInvisible'
  BY <1>2, Zenon DEF RemainderInvisible, FileOK
<1>4. DataSound(request.data)' /\ request'.status >= 1
  BY DEF BlkInv
<1> QED
  BY <1>1, <1>3, <1>4 DEF BlkInv

\* The record of a call, the data and the sizes in the states of a call.
LEMMA CallFacts ==
  ASSUME BlkInv
  PROVE  /\ request \in RequestRecord /\ call \in CallRecord(Len(request.data))
         /\ DataSound(request.data) /\ Len(request.data) \in Nat
         /\ TotalDataLen(request) \in Nat /\ Start \in Nat /\ request.sector \in Nat
         /\ request.type \in RequestTypes /\ request.status \in Nat
         /\ Passed(request.data, 0) = 0 /\ Passed(request.data, call.at) \in Nat
         /\ Passed(request.data, call.at) <= TotalDataLen(request)
         /\ call.at \in 0 .. Len(request.data) /\ call.crt \in Nat /\ call.position \in Nat
         /\ call.bytes_to_mem \in 0 .. MaxU32 /\ call.used \in 0 .. MaxU32 + 1
<1>1. request \in RequestRecord /\ call \in CallRecord(Len(request.data)) /\ DataSound(request.data)
  BY DEF BlkInv, TypeOK
<1>2. /\ request.sector \in Nat /\ request.type \in RequestTypes /\ request.status \in Nat
      /\ request.data \in Seq(RequestBuffer)
  BY <1>1 DEF RequestRecord
<1>3. /\ call.at \in 0 .. Len(request.data) /\ call.crt \in Nat /\ call.position \in Nat
      /\ call.bytes_to_mem \in 0 .. MaxU32 /\ call.used \in 0 .. MaxU32 + 1
  BY <1>1 DEF CallRecord
<1>4. Start \in Nat
  BY <1>2, SectorRange, Zenon DEF Start
<1> QED
  BY <1>1, <1>2, <1>3, <1>4, DataTotal, Zenon DEF TotalDataLen

\* What the checks of execute establish for the loops.
LEMMA Checked ==
  ASSUME BlkInv, NEW syncs \in BOOLEAN, CheckType(request, syncs) = "OK"
  PROVE  /\ request.type # "Unsupported"
         /\ request.type \in {"In", "Out"} => Start + TotalDataLen(request) <= Visible
         /\ request.type = "In" => TotalDataLen(request) < MaxU32
         /\ request.type = "GetDeviceID" => TotalDataLen(request) = IdLen
<1> DEFINE t == TotalDataLen(request)
           whole == t % SectorUnits = 0 /\ CheckAccess(t \div SectorUnits, request.sector)
<1>1. t \in Nat /\ request.sector \in Nat
  BY CallFacts
<1> HIDE DEF t
<1>2. whole => Start + t <= Visible
  BY <1>1, WholeInside DEF Start
<1>3. whole /\ t <= MaxU32 => t < MaxU32
  <2>1. whole => t # MaxU32
    BY BlkAssumption, Zenon
  <2> QED
    BY <1>1, <2>1, Sizes
<1> HIDE DEF whole
<1>4. CheckType(request, syncs) =
        CASE request.type = "In" -> IF whole /\ t <= MaxU32 THEN "OK" ELSE "IOERR"
          [] request.type = "Out" -> IF whole THEN "OK" ELSE "IOERR"
          [] request.type = "Flush" -> IF syncs THEN "OK" ELSE "IOERR"
          [] request.type = "GetDeviceID" ->
               IF ~device_id THEN "UNSUPP" ELSE IF t = IdLen THEN "OK" ELSE "IOERR"
          [] request.type \in {"Discard", "WriteZeroes"} -> "OK"
          [] request.type = "Unsupported" -> "UNSUPP"
  BY Zenon DEF CheckType, whole, t
<1>5. request.type # "Unsupported"
  BY <1>4
<1>6. request.type = "In" => whole /\ t <= MaxU32
  BY <1>4
<1>7. request.type = "Out" => whole
  BY <1>4
<1>8. request.type = "GetDeviceID" => t = IdLen
  BY <1>4
<1> QED
  BY <1>2, <1>3, <1>5, <1>6, <1>7, <1>8 DEF t

\* execute up to its loop.
LEMMA ExecuteStep ==
  ASSUME BlkInv, NEW seeks \in BOOLEAN, NEW syncs \in BOOLEAN, Execute(seeks, syncs)
  PROVE  BlkInv'
<1> DEFINE status == IF ~seeks THEN "IOERR"
                     ELSE IF CheckRequest(request.type) # "OK" THEN CheckRequest(request.type)
                     ELSE CheckType(request, syncs)
           pos == IF seeks THEN Start ELSE call.position
<1>1. /\ pc = "execute" /\ UNCHANGED <<file, features, device_id, request, moved, segs>>
      /\ pc' = IF status = "OK" THEN LoopOf(request.type) ELSE "status"
      /\ call' = [call EXCEPT !.status = status, !.position = pos]
  BY DEF Execute, Start
<1>2. call = NoCall /\ moved = <<>> /\ segs = <<>>
  BY <1>1 DEF BlkInv
<1>3. status \in {"OK", "IOERR", "UNSUPP"}
  <2>1. CheckRequest(request.type) \in {"OK", "IOERR", "UNSUPP"}
    BY DEF CheckRequest
  <2>2. request.type \in RequestTypes
    BY CallFacts
  <2>3. CheckType(request, syncs) \in {"OK", "IOERR", "UNSUPP"}
    BY <2>2 DEF CheckType, RequestTypes
  <2> QED
    BY <2>1, <2>3, Zenon
<1>4. status = "OK" =>
        seeks /\ CheckRequest(request.type) = "OK" /\ CheckType(request, syncs) = "OK"
  BY Zenon
<1>5. pos \in Nat
  BY CallFacts
<1> HIDE DEF status, pos
<1>6. /\ call' \in CallRecord(Len(request.data)) /\ call'.at = 0 /\ call'.crt = 0
      /\ call'.bytes_to_mem = 0 /\ call'.status = status /\ ~call'.file_failed /\ call'.position = pos
  <2>1. Len(request.data) \in Nat
    BY CallFacts
  <2>2. call' = [at |-> 0, crt |-> 0, bytes_to_mem |-> 0, status |-> status, used |-> 0,
                 position |-> pos, file_failed |-> FALSE]
    BY <1>1, <1>2, Zenon DEF NoCall
  <2>3. /\ 0 \in 0 .. Len(request.data) /\ 0 \in 0 .. MaxU32 /\ 0 \in 0 .. MaxU32 + 1
        /\ status \in {"OK", "IOERR", "UNSUPP", "error"}
    BY <1>3, <2>1, Sizes
  <2> QED
    BY <1>5, <2>2, <2>3 DEF CallRecord
<1>7. FileOK(file') /\ moved' = <<>> /\ segs' = <<>> /\ <<>> \in Seq(Int) /\ <<>> \in Seq(Segments)
        /\ DOMAIN <<>> = {} /\ Len(<<>>) = 0
  BY <1>1, <1>2, FileIsOK
<1>8. WrittenLen' = 0
  BY <1>7 DEF WrittenLen
<1>9. CASE status # "OK"
  <2>1. pc' = "status"
    BY <1>1, <1>9
  <2>2. Answered'
    BY <1>3, <1>6, <1>8, <1>9, <2>1, Sizes DEF Answered
  <2> QED
    BY <1>1, <1>6, <1>7, <2>1, <2>2, CallKeeps
<1>10. CASE status = "OK"
  <2>1. /\ request.type # "Unsupported" /\ CheckRequest(request.type) = "OK" /\ pos = Start
        /\ request.type \in {"In", "Out"} => Start + TotalDataLen(request) <= Visible
        /\ request.type = "In" => TotalDataLen(request) < MaxU32
        /\ request.type = "GetDeviceID" => TotalDataLen(request) = IdLen
    BY <1>4, <1>10, Checked DEF pos
  <2>2. pc' = LoopOf(request.type) /\ request' = request /\ features' = features
    BY <1>1, <1>10
  <2>3. Passed(request.data, 0) = 0
    BY CallFacts
  <2>4. CASE request.type \in {"In", "Out", "GetDeviceID"}
    <3>1. pc' = "transfer"
      BY <2>2, <2>4 DEF LoopOf
    <3>2. Content(file, 0)' = <<>>
      BY DEF Content
    <3>3. Passed(request.data, call.at)' = 0
      BY <1>6, <2>2, <2>3
    <3>4. moved' = Content(file, Passed(request.data, call.at))'
      BY <1>7, <3>2, <3>3
    <3>5. CheckRequest(request.type)' = "OK" /\ Start' = Start /\ TotalDataLen(request)' = TotalDataLen(request)
      BY <2>1, <2>2 DEF CheckRequest, Start, TotalDataLen
    <3>6. Start \in Nat
      BY CallFacts
    <3>7. Transferring'
      BY <1>6, <1>10, <2>1, <2>2, <2>4, <3>3, <3>4, <3>5, <3>6 DEF Transferring
    <3> QED
      BY <1>1, <1>6, <1>7, <3>1, <3>7, CallKeeps
  <2>5. CASE request.type \in {"Discard", "WriteZeroes"}
    <3>1. pc' = "buffers"
      BY <2>2, <2>5 DEF LoopOf
    <3>2. SegmentsDone'
      BY <1>7 DEF SegmentsDone
    <3>3. Len(segs') * SegUnits = Passed(request'.data, call'.at) + call'.crt
      BY <1>6, <1>7, <2>2, <2>3, Sizes
    <3>4. CheckRequest(request.type)' = "OK"
      BY <2>1, <2>2 DEF CheckRequest
    <3>5. Segmenting'
      BY <1>6, <1>7, <1>10, <2>2, <2>5, <3>1, <3>2, <3>3, <3>4 DEF Segmenting
    <3> QED
      BY <1>1, <1>6, <1>7, <3>1, <3>5, CallKeeps
  <2>6. CASE request.type = "Flush"
    <3>1. pc' = "status"
      BY <2>2, <2>6 DEF LoopOf
    <3>2. Done'
      BY <2>2, <2>6 DEF Done
    <3>3. Answered'
      BY <1>6, <1>8, <1>10, <3>1, <3>2, Sizes DEF Answered
    <3> QED
      BY <1>1, <1>6, <1>7, <3>1, <3>3, CallKeeps
  <2>7. request.type \in RequestTypes
    BY CallFacts
  <2> QED
    BY <2>1, <2>4, <2>5, <2>6, <2>7 DEF RequestTypes
<1> QED
  BY <1>9, <1>10
-----------------------------------------------------------------------------
\* The loop of a read, write or id request.

\* The units of a turn continue the content, none of them from the remainder.
LEMMA NextPiece ==
  ASSUME BlkInv, pc = "transfer", NEW n \in Nat, NEW p \in Nat,
         p = Passed(request.data, call.at), p + n <= TotalDataLen(request),
         NEW f, FileOK(f),
         request.type # "GetDeviceID" => \A k \in 1 .. p : f[Start + k - 1] = file[Start + k - 1]
  PROVE  LET new == moved \o Piece(f, p, n)
         IN  /\ new = Content(f, p + n) /\ new \in Seq(Int) /\ Len(new) = p + n
             /\ \A k \in DOMAIN new : new[k] # Remainder
<1> DEFINE c == Content(f, p + n)
           t == Piece(f, p, n)
<1>1. Transferring /\ Start \in Nat /\ TotalDataLen(request) \in Nat
  BY CallFacts DEF BlkInv
<1>2. ASSUME NEW k \in 1 .. p + n
      PROVE  /\ c[k] = IF request.type = "GetDeviceID" THEN IdUnit(k) ELSE f[Start + k - 1]
             /\ c[k] \in Int /\ c[k] # Remainder
  <2>1. c[k] = IF request.type = "GetDeviceID" THEN IdUnit(k) ELSE f[Start + k - 1]
    BY DEF Content
  <2>2. IdUnit(k) \in Int /\ IdUnit(k) # Remainder
    BY DEF IdUnit, Remainder
  <2>3. CASE request.type # "GetDeviceID"
    <3>1. Start + TotalDataLen(request) <= Visible
      BY <1>1, <2>3 DEF Transferring
    <3>2. Start + k - 1 \in 0 .. FileLen - 1 /\ ~(Start + k - 1 >= Visible)
      BY <1>1, <3>1, VisibleInFile, Sizes
    <3>3. f[Start + k - 1] \in Data \union {Remainder} /\ f[Start + k - 1] # Remainder
      BY <3>2 DEF FileOK
    <3> DEFINE x == f[Start + k - 1]
    <3> HIDE DEF x
    <3>4. x \in Nat
      BY <3>3, DataIsNumber, Zenon DEF x
    <3>5. f[Start + k - 1] \in Int
      BY <3>4 DEF x
    <3> HIDE DEF c
    <3> QED
      BY <2>1, <2>3, <3>3, <3>5
  <2> QED
    BY <2>1, <2>2, <2>3
<1>3. c \in [1 .. p + n -> Int]
  <2>1. c = [k \in 1 .. p + n |-> c[k]]
    BY DEF Content
  <2> HIDE DEF c
  <2> QED
    BY <1>2, <2>1
<1>4. moved \in [1 .. p -> Int] /\ \A k \in 1 .. p : moved[k] = c[k]
  <2>1. moved = Content(file, p)
    BY <1>1 DEF Transferring
  <2>2. ASSUME NEW k \in 1 .. p
        PROVE  /\ c[k] = IF request.type = "GetDeviceID" THEN IdUnit(k) ELSE file[Start + k - 1]
               /\ c[k] \in Int
    <3>1. k \in 1 .. p + n
      OBVIOUS
    <3> QED
      BY <1>2, <3>1
  <2> HIDE DEF c
  <2> QED
    BY <2>1, <2>2 DEF Content
<1>5. t \in [1 .. n -> Int] /\ \A k \in 1 .. n : t[k] = c[p + k]
  <2>1. \A k \in 1 .. n : p + k \in 1 .. p + n
    OBVIOUS
  <2>2. t = [k \in 1 .. n |-> c[p + k]]
    BY DEF Piece
  <2> HIDE DEF c, t
  <2>3. \A k \in 1 .. n : c[p + k] \in Int
    BY <1>3, <2>1
  <2> QED
    BY <2>2, <2>3
<1> HIDE DEF c, t
<1>6. moved \o t = c /\ moved \o t \in Seq(Int) /\ Len(moved \o t) = p + n
  BY <1>3, <1>4, <1>5, MovedOn, Zenon
<1>7. DOMAIN c = 1 .. p + n
  BY <1>3
<1> QED
  BY <1>2, <1>6, <1>7, Zenon DEF c, t

\* The counters after a turn in which n units of the content were moved.
LEMMA TurnStep ==
  ASSUME BlkInv, pc = "transfer", call.at < Len(request.data),
         NEW n \in Nat, n <= Buffer.mapped, Turn(n),
         UNCHANGED <<features, device_id, request, segs>>,
         NEW p \in Nat, p = Passed(request.data, call.at),
         FileOK(file'), moved' = Content(file', p + n), moved' \in Seq(Int), Len(moved') = p + n,
         \A k \in DOMAIN moved' : moved'[k] # Remainder
  PROVE  BlkInv'
<1> DEFINE type == request.type
           total == TotalDataLen(request)
           done == IF type = "Out" THEN 0 ELSE p
<1>1. Transferring /\ Len(request.data) \in Nat /\ call.at \in Nat /\ segs \in Seq(Segments)
  BY CallFacts DEF BlkInv, TypeOK
<1>2. /\ Buffer.len \in Nat /\ Buffer.mapped \in Nat /\ Buffer.mapped <= Buffer.len
      /\ Passed(request.data, call.at + 1) = p + Buffer.len /\ p + Buffer.len <= total /\ total \in Nat
  BY <1>1, DataStep, CallFacts, Zenon DEF Buffer, TotalDataLen
<1>3. type # "Out" => total < MaxU32
  BY <1>1, Sizes DEF Transferring
<1>4. call.bytes_to_mem = done /\ call.status = "OK" /\ call.file_failed = FALSE
  <2>1. call.file_failed \in BOOLEAN
    BY CallFacts DEF CallRecord
  <2> QED
    BY <1>1, <2>1 DEF Transferring
<1>5. call \in CallRecord(Len(request.data)) /\ call.position \in Nat
  BY CallFacts
<1>6. /\ Start' = Start /\ TotalDataLen(request)' = total /\ request'.type = type
      /\ Content(file', p + n) = Content(file, p + n)'
      /\ CheckRequest(request.type)' = "OK"
  BY <1>1 DEF Start, TotalDataLen, Content, CheckRequest, Transferring
<1>7. WrittenLen' = IF type = "Out" THEN 0 ELSE p + n
  BY <1>1, <1>6 DEF WrittenLen, Transferring
<1> HIDE DEF type, total
<1>8. CASE n = Buffer.len
  <2>1. /\ call' = [call EXCEPT !.at = @ + 1, !.position = @ + n,
                                !.bytes_to_mem = IF type = "Out" THEN @ ELSE @ + n]
        /\ pc' = "transfer"
    BY <1>8 DEF Turn, type
  <2>2. (IF type = "Out" THEN done ELSE done + n) \in 0 .. MaxU32
    BY <1>2, <1>3, <1>8, Sizes
  <2>3. /\ call' \in CallRecord(Len(request.data))
        /\ call'.at = call.at + 1 /\ call'.position = call.position + n
        /\ call'.bytes_to_mem = IF type = "Out" THEN done ELSE done + n
        /\ call'.status = "OK" /\ call'.file_failed = FALSE
    <3> HIDE DEF done
    <3>1. call.at + 1 \in 0 .. Len(request.data)
      BY <1>1
    <3>2. call.position + n \in Nat
      BY <1>5
    <3> QED
      BY <1>4, <1>5, <2>1, <2>2, <3>1, <3>2, Zenon DEF CallRecord
  <2>4. Passed(request.data, call.at)' = p + n
    BY <1>2, <1>8, <2>3
  <2>5. moved' = Content(file, Passed(request.data, call.at))'
    BY <1>6, <2>4
  <2>6. call'.bytes_to_mem = IF type = "Out" THEN 0 ELSE p + n
    BY <2>3
  <2>7. type # "GetDeviceID" => call'.position = Start' + (p + n) /\ Start' + total <= Visible
    <3>1. type # "GetDeviceID" => call.position = Start + p /\ Start + total <= Visible
      BY <1>1, Zenon DEF Transferring, type, total
    <3>2. Start \in Nat
      BY CallFacts
    <3> QED
      BY <1>5, <1>6, <2>3, <3>1, <3>2
  <2>8. type \in {"In", "Out", "GetDeviceID"} /\ (type = "GetDeviceID" => total = IdLen)
    BY <1>1 DEF Transferring, type, total
  <2>9. Transferring'
    BY <1>3, <1>6, <2>3, <2>4, <2>5, <2>6, <2>7, <2>8, Zenon DEF Transferring
  <2> QED
    BY <1>1, <2>1, <2>3, <2>9, CallKeeps
<1>9. CASE n # Buffer.len
  <2> DEFINE failed == n < Buffer.mapped
             count == IF type = "Out" \/ failed THEN done ELSE done + n
  <2>1. /\ call' = [call EXCEPT !.status = "IOERR", !.file_failed = failed,
                                !.bytes_to_mem = count]
        /\ pc' = "status"
    BY <1>4, <1>9 DEF Turn, type
  <2>2. count \in 0 .. MaxU32 /\ count < MaxU32
    <3>1. done \in Nat /\ (type = "Out" => done = 0) /\ (type # "Out" => done + n < MaxU32)
      BY <1>2, <1>3, Sizes
    <3> HIDE DEF done
    <3>2. done < MaxU32
      BY <3>1, Sizes
    <3> HIDE DEF failed
    <3> QED
      BY <3>1, <3>2, Sizes
  <2>3. /\ count <= IF type = "Out" THEN 0 ELSE p + n
        /\ ~failed => count = IF type = "Out" THEN 0 ELSE p + n
    BY <1>2
  <2>6. failed \in BOOLEAN
    OBVIOUS
  <2> HIDE DEF count, done, failed
  <2>4. /\ call' \in CallRecord(Len(request.data))
        /\ call'.bytes_to_mem = count /\ call'.status = "IOERR" /\ call'.file_failed = failed
    BY <1>5, <2>1, <2>2, <2>6, Zenon DEF CallRecord
  <2>5. Answered'
    BY <1>7, <2>1, <2>2, <2>3, <2>4 DEF Answered
  <2> QED
    BY <1>1, <2>1, <2>4, <2>5, CallKeeps
<1> QED
  BY <1>8, <1>9

\* The place of a buffer in the data.
LEMMA Room ==
  ASSUME BlkInv, pc = "transfer", call.at < Len(request.data)
  PROVE  /\ Passed(request.data, call.at) \in Nat /\ Buffer.mapped \in Nat
         /\ \A n \in 0 .. Buffer.mapped :
              n \in Nat /\ Passed(request.data, call.at) + n <= TotalDataLen(request)
<1>1. call.at \in Nat
  BY CallFacts
<1>2. /\ Buffer.len \in Nat /\ Buffer.mapped \in Nat /\ Buffer.mapped <= Buffer.len
      /\ Passed(request.data, call.at) \in Nat
      /\ Passed(request.data, call.at) + Buffer.len <= TotalDataLen(request)
      /\ TotalDataLen(request) \in Nat
  BY <1>1, DataStep, CallFacts, Zenon DEF Buffer, TotalDataLen
<1> QED
  BY <1>2

\* A read.
LEMMA InStep == BlkInv /\ In => BlkInv'
<1> SUFFICES ASSUME BlkInv, In
             PROVE  BlkInv'
  OBVIOUS
<1> DEFINE p == Passed(request.data, call.at)
<1>1. PICK n \in 0 .. Buffer.mapped :
        /\ moved' = moved \o [k \in 1 .. n |-> file[call.position + k - 1]]
        /\ Turn(n)
  BY DEF In
<1>2. /\ pc = "transfer" /\ request.type = "In" /\ call.at < Len(request.data)
      /\ UNCHANGED <<file, features, device_id, request, segs>>
  BY DEF In, AtBuffer
<1>3. p \in Nat /\ n \in Nat /\ n <= Buffer.mapped /\ p + n <= TotalDataLen(request)
  BY <1>2, Room
<1>4. call.position = Start + p /\ Start \in Nat /\ FileOK(file)
  BY <1>2, CallFacts, FileIsOK DEF BlkInv, Transferring
<1> HIDE DEF p
<1> DEFINE t == Piece(file, p, n)
<1>5. t = [k \in 1 .. n |-> file[call.position + k - 1]]
  <2>1. ASSUME NEW k \in 1 .. n
        PROVE  Content(file, p + n)[p + k] = file[call.position + k - 1]
    <3>1. p + k \in 1 .. p + n /\ Start + (p + k) - 1 = call.position + k - 1
      BY <1>3, <1>4
    <3> QED
      BY <1>2, <3>1 DEF Content
  <2> QED
    BY <2>1 DEF Piece
<1> HIDE DEF t
<1>6. /\ moved \o t = Content(file, p + n) /\ moved \o t \in Seq(Int) /\ Len(moved \o t) = p + n
      /\ \A k \in DOMAIN (moved \o t) : (moved \o t)[k] # Remainder
  BY <1>2, <1>3, <1>4, NextPiece, Zenon DEF p, t
<1>7. moved' = moved \o t /\ file' = file
  BY <1>1, <1>2, <1>5
<1> QED
  BY <1>1, <1>2, <1>3, <1>4, <1>6, <1>7, TurnStep, Zenon DEF p

\* A write: the file with the new units is the content of what was moved.
LEMMA OutStep ==
  BlkInv /\ Out =>
    /\ BlkInv'
    /\ \A u \in DOMAIN file : file'[u] # file[u] => "RO" \notin features /\ u \in Named'
<1> SUFFICES ASSUME BlkInv, Out
             PROVE  /\ BlkInv'
                    /\ \A u \in DOMAIN file :
                         file'[u] # file[u] => "RO" \notin features /\ u \in Named'
  OBVIOUS
<1> DEFINE p == Passed(request.data, call.at)
<1>1. PICK n \in 0 .. Buffer.mapped : \E s \in [1 .. n -> Data] :
        /\ file' = Written(file, call.position, s)
        /\ moved' = moved \o s
        /\ Turn(n)
  BY Zenon DEF Out
<1>2. PICK s \in [1 .. n -> Data] :
        /\ file' = Written(file, call.position, s)
        /\ moved' = moved \o s
        /\ Turn(n)
  BY <1>1
<1>3. /\ pc = "transfer" /\ request.type = "Out" /\ call.at < Len(request.data)
      /\ UNCHANGED <<features, device_id, request, segs>>
  BY DEF Out, AtBuffer
<1>4. p \in Nat /\ n \in Nat /\ n <= Buffer.mapped /\ p + n <= TotalDataLen(request)
  BY <1>3, Room
<1>5. /\ call.position = Start + p /\ Start \in Nat /\ FileOK(file) /\ DOMAIN file = 0 .. FileLen - 1
      /\ Start + TotalDataLen(request) <= Visible /\ TotalDataLen(request) \in Nat
      /\ "RO" \notin features
  BY <1>3, CallFacts, FileIsOK DEF BlkInv, Transferring, CheckRequest
<1> HIDE DEF p
<1>6. /\ FileOK(file')
      /\ \A u \in 0 .. FileLen - 1 :
           file'[u] = IF Start + p <= u /\ u < Start + p + n THEN s[u - (Start + p) + 1] ELSE file[u]
  <2>1. call.position \in Nat /\ call.position + n <= Visible
    BY <1>4, <1>5, VisibleInFile
  <2>2. /\ FileOK(Written(file, call.position, s))
        /\ \A u \in 0 .. FileLen - 1 :
             Written(file, call.position, s)[u] =
               IF call.position <= u /\ u < call.position + n THEN s[u - call.position + 1] ELSE file[u]
    <3>1. FileOK(file) /\ n \in Nat /\ s \in [1 .. n -> Data]
      BY <1>4, <1>5
    <3> QED
      BY ONLY <2>1, <3>1, WrittenInside, Zenon
  <2> QED
    BY <1>2, <1>5, <2>2, Zenon
<1> DEFINE t == Piece(file', p, n)
<1>7. t = s
  <2>1. ASSUME NEW k \in 1 .. n
        PROVE  Content(file', p + n)[p + k] = s[k]
    <3> DEFINE u == Start + (p + k) - 1
    <3>1. /\ p + k \in 1 .. p + n /\ u \in 0 .. FileLen - 1
          /\ Start + p <= u /\ u < Start + p + n /\ u - (Start + p) + 1 = k
      BY <1>4, <1>5, VisibleInFile, Sizes
    <3>2. Content(file', p + n)[p + k] = file'[u]
      BY <1>3, <3>1 DEF Content
    <3> HIDE DEF u
    <3> QED
      BY <1>6, <3>1, <3>2
  <2> QED
    BY <2>1 DEF Piece
<1> HIDE DEF t
<1>8. ASSUME NEW k \in 1 .. p
      PROVE  file'[Start + k - 1] = file[Start + k - 1]
  <2>1. Start + k - 1 \in 0 .. FileLen - 1 /\ ~(Start + p <= Start + k - 1)
    BY <1>4, <1>5, VisibleInFile, Sizes
  <2> QED
    BY <1>6, <2>1
<1>9. /\ moved \o t = Content(file', p + n) /\ moved \o t \in Seq(Int) /\ Len(moved \o t) = p + n
      /\ \A k \in DOMAIN (moved \o t) : (moved \o t)[k] # Remainder
  BY <1>3, <1>4, <1>6, <1>8, NextPiece, Zenon DEF p, t
<1>10. BlkInv'
  BY <1>2, <1>3, <1>4, <1>6, <1>7, <1>9, TurnStep DEF p
<1>11. Named' = Start .. Start + TotalDataLen(request) - 1
  BY <1>3 DEF Named, Start, TotalDataLen
<1>12. ASSUME NEW u \in DOMAIN file, file'[u] # file[u]
       PROVE  u \in Named'
  <2>1. u \in 0 .. FileLen - 1 /\ Start + p <= u /\ u < Start + p + n
    BY <1>5, <1>6, <1>12, Zenon
  <2> QED
    BY <1>4, <1>5, <1>11, <2>1
<1> QED
  BY <1>5, <1>10, <1>12

\* The id.
LEMMA GetDeviceIDStep == BlkInv /\ GetDeviceID => BlkInv'
<1> SUFFICES ASSUME BlkInv, GetDeviceID
             PROVE  BlkInv'
  OBVIOUS
<1> DEFINE p == Passed(request.data, call.at)
           n == Buffer.mapped
<1>1. /\ pc = "transfer" /\ request.type = "GetDeviceID" /\ call.at < Len(request.data)
      /\ UNCHANGED <<file, features, device_id, request, segs>>
      /\ moved' = moved \o [k \in 1 .. n |-> IdUnit(call.bytes_to_mem + k)]
      /\ Turn(n)
  BY DEF GetDeviceID, AtBuffer
<1>2. n \in Nat
  BY <1>1, Room
<1>3. p \in Nat /\ n \in 0 .. n /\ n <= Buffer.mapped
  BY <1>1, <1>2, Room
<1>4. p + n <= TotalDataLen(request)
  BY <1>1, <1>3, Room
<1>5. call.bytes_to_mem = p /\ FileOK(file)
  BY <1>1, FileIsOK DEF BlkInv, Transferring
<1> HIDE DEF p, n
<1> DEFINE t == Piece(file, p, n)
<1>6. t = [k \in 1 .. n |-> IdUnit(call.bytes_to_mem + k)]
  <2>1. ASSUME NEW k \in 1 .. n
        PROVE  Content(file, p + n)[p + k] = IdUnit(call.bytes_to_mem + k)
    <3>1. p + k \in 1 .. p + n
      BY <1>2, <1>3
    <3> QED
      BY <1>1, <1>5, <3>1 DEF Content
  <2> QED
    BY <2>1 DEF Piece
<1> HIDE DEF t
<1>7. /\ moved \o t = Content(file, p + n) /\ moved \o t \in Seq(Int) /\ Len(moved \o t) = p + n
      /\ \A k \in DOMAIN (moved \o t) : (moved \o t)[k] # Remainder
  BY <1>1, <1>2, <1>3, <1>4, <1>5, NextPiece, Zenon DEF p, t
<1>8. moved' = moved \o t /\ file' = file
  BY <1>1, <1>6
<1> QED
  BY <1>1, <1>2, <1>3, <1>5, <1>7, <1>8, TurnStep, Zenon DEF p

\* execute comes to its answer.
LEMMA AnswerStep ==
  ASSUME BlkInv, pc \in {"transfer", "buffers", "segments"},
         NEW status \in {"OK", "IOERR", "UNSUPP"}, Answer(status),
         UNCHANGED <<features, device_id, request, moved>>,
         FileOK(file'), segs' \in Seq(Segments),
         call.bytes_to_mem = WrittenLen, call.bytes_to_mem < MaxU32,
         status = "OK" => Done'
  PROVE  BlkInv'
<1>1. pc' = "status" /\ call' = [call EXCEPT !.status = status]
  BY DEF Answer
<1>2. call \in CallRecord(Len(request.data)) /\ call.bytes_to_mem \in 0 .. MaxU32
  BY CallFacts
<1>3. /\ call' \in CallRecord(Len(request.data)) /\ call'.status = status
      /\ call'.bytes_to_mem = call.bytes_to_mem
  BY <1>1, <1>2 DEF CallRecord
<1>4. WrittenLen' = WrittenLen
  BY DEF WrittenLen
<1>5. Answered'
  BY <1>1, <1>2, <1>3, <1>4 DEF Answered
<1>6. moved' \in Seq(Int) /\ \A k \in DOMAIN moved' : moved'[k] # Remainder
  BY DEF BlkInv, TypeOK, RemainderInvisible
<1> QED
  BY <1>1, <1>3, <1>5, <1>6, CallKeeps

\* The loop comes to its end: all was moved.
LEMMA EndTransferStep == BlkInv /\ EndTransfer => BlkInv'
<1> SUFFICES ASSUME BlkInv, EndTransfer
             PROVE  BlkInv'
  OBVIOUS
<1> DEFINE total == TotalDataLen(request)
<1>1. /\ pc = "transfer" /\ call.at = Len(request.data) /\ Answer("OK")
      /\ UNCHANGED <<file, features, device_id, request, moved, segs>>
  BY DEF EndTransfer
<1>2. /\ Transferring /\ total \in Nat /\ FileOK(file) /\ segs \in Seq(Segments)
      /\ Passed(request.data, call.at) = total
  BY <1>1, CallFacts, FileIsOK DEF BlkInv, TypeOK, TotalDataLen
<1>3. moved = Content(file, total) /\ request.type \in {"In", "Out", "GetDeviceID"}
  BY <1>2 DEF Transferring
<1>4. Len(moved) = total
  <2>1. DOMAIN moved = 1 .. total /\ moved \in Seq(Int)
    BY <1>3 DEF Content, BlkInv, TypeOK
  <2> QED
    BY <1>2, <2>1
<1>5. call.bytes_to_mem = WrittenLen /\ call.bytes_to_mem < MaxU32
  BY <1>2, <1>3, <1>4, Sizes DEF Transferring, WrittenLen
<1>6. Done'
  BY <1>1, <1>2, <1>3 DEF Done, Transferring, Content, Start, TotalDataLen
<1> QED
  BY <1>1, <1>2, <1>5, <1>6, AnswerStep
-----------------------------------------------------------------------------
\* The loops of a discard or write zeroes request.

\* Nothing is written to the buffers, and an error ends both loops.
LEMMA SegmentAnswer ==
  ASSUME BlkInv, pc \in {"buffers", "segments"},
         NEW status \in {"OK", "IOERR", "UNSUPP"}, Answer(status),
         UNCHANGED <<features, device_id, request, moved>>,
         FileOK(file'), segs' \in Seq(Segments), status = "OK" => Done'
  PROVE  BlkInv'
<1>1. Segmenting
  BY DEF BlkInv
<1>2. call.bytes_to_mem = WrittenLen /\ call.bytes_to_mem < MaxU32
  BY <1>1, Sizes DEF Segmenting, WrittenLen
<1> QED
  BY <1>2, AnswerStep

\* The next buffer.
LEMMA StartBufferStep ==
  ASSUME BlkInv, NEW overflow \in BOOLEAN, StartBuffer(overflow)
  PROVE  BlkInv'
<1>1. pc = "buffers" /\ UNCHANGED <<file, features, device_id, request, moved, segs>>
  BY DEF StartBuffer
<1>2. Segmenting /\ FileOK(file) /\ segs \in Seq(Segments)
  BY <1>1, FileIsOK DEF BlkInv, TypeOK
<1>3. call.crt = 0 /\ Len(segs) * SegUnits = Passed(request.data, call.at) + call.crt
  BY <1>1, <1>2 DEF Segmenting
<1>4. CASE call.at = Len(request.data)
  <2>1. Answer("OK")
    BY <1>4 DEF StartBuffer
  <2>2. TotalDataLen(request) = Passed(request.data, call.at) /\ TotalDataLen(request) \in Nat
    BY <1>4, CallFacts DEF TotalDataLen
  <2>3. Len(segs) * SegUnits = TotalDataLen(request)
    BY <1>3, <2>2
  <2>4. SegmentsDone' /\ TotalDataLen(request)' = TotalDataLen(request)
    BY <1>1, <1>2 DEF Segmenting, SegmentsDone, TotalDataLen
  <2>5. Done'
    BY <1>1, <1>2, <2>3, <2>4 DEF Done, Segmenting
  <2> QED
    BY <1>1, <1>2, <2>1, <2>5, SegmentAnswer
<1>5. CASE call.at # Len(request.data) /\ (Buffer.len % SegUnits # 0 \/ (overflow /\ Buffer.mapped < Buffer.len))
  <2>1. Answer("IOERR")
    BY <1>5 DEF StartBuffer
  <2> QED
    BY <1>1, <1>2, <2>1, SegmentAnswer
<1>6. CASE call.at # Len(request.data) /\ Buffer.len % SegUnits = 0 /\ pc' = "segments" /\ UNCHANGED call
  <2>1. /\ call.at \in Nat /\ call.at < Len(request.data) /\ call \in CallRecord(Len(request.data))
        /\ DataSound(request.data)
    BY <1>6, CallFacts
  <2>2. Buffer.len \in Nat
    BY <2>1, DataStep DEF Buffer
  <2>3. \E m \in Nat : Buffer.len - call.crt = m * SegUnits
    <3> DEFINE l == Buffer.len
               m == l \div SegUnits
    <3> HIDE DEF l
    <3>1. l \in Nat /\ l % SegUnits = 0
      BY <1>6, <2>2 DEF l
    <3>2. m \in Nat /\ l = SegUnits * m
      BY <3>1, Sizes
    <3> HIDE DEF m
    <3>3. l - 0 = m * SegUnits
      BY <3>1, <3>2, Sizes
    <3> QED
      BY <1>3, <3>2, <3>3 DEF l
  <2>4. Buffer' = Buffer /\ SegmentsDone' /\ CheckRequest(request.type)' = CheckRequest(request.type)
    BY <1>1, <1>2, <1>6 DEF Segmenting, SegmentsDone, Buffer, CheckRequest
  <2>5. Segmenting'
    BY <1>1, <1>2, <1>6, <2>1, <2>3, <2>4 DEF Segmenting
  <2>6. moved' \in Seq(Int) /\ \A k \in DOMAIN moved' : moved'[k] # Remainder
    BY <1>1 DEF BlkInv, TypeOK, RemainderInvisible
  <2> QED
    BY <1>1, <1>2, <1>6, <2>1, <2>5, <2>6, CallKeeps
<1> QED
  BY <1>4, <1>5, <1>6 DEF StartBuffer

\* A buffer is used up: nothing of it is left over.
LEMMA EndBufferStep == BlkInv /\ EndBuffer => BlkInv'
<1> SUFFICES ASSUME BlkInv, EndBuffer
             PROVE  BlkInv'
  OBVIOUS
<1>1. /\ pc = "segments" /\ Buffer.len - call.crt < SegUnits
      /\ pc' = "buffers" /\ call' = [call EXCEPT !.at = @ + 1, !.crt = 0]
      /\ UNCHANGED <<file, features, device_id, request, moved, segs>>
  BY DEF EndBuffer
<1>2. Segmenting /\ FileOK(file) /\ segs \in Seq(Segments)
  BY <1>1, FileIsOK DEF BlkInv, TypeOK
<1>3. /\ call.at \in Nat /\ call.at < Len(request.data) /\ call \in CallRecord(Len(request.data))
      /\ DataSound(request.data) /\ call.crt \in Nat /\ Len(request.data) \in Nat
  BY <1>1, <1>2, CallFacts DEF Segmenting
<1>4. /\ Buffer.len \in Nat /\ Passed(request.data, call.at) \in Nat
      /\ Passed(request.data, call.at + 1) = Passed(request.data, call.at) + Buffer.len
  BY <1>3, DataStep DEF Buffer
<1>5. call.crt = Buffer.len
  <2>1. PICK m \in Nat : Buffer.len - call.crt = m * SegUnits
    BY <1>1, <1>2 DEF Segmenting
  <2>2. m * SegUnits < SegUnits
    BY <1>1, <2>1
  <2>3. m = 0
    BY <2>2, Sizes
  <2> QED
    BY <1>3, <1>4, <2>1, <2>3, Sizes
<1>6. /\ call' \in CallRecord(Len(request.data)) /\ call'.at = call.at + 1 /\ call'.crt = 0
      /\ call'.status = call.status /\ call'.file_failed = call.file_failed
      /\ call'.bytes_to_mem = call.bytes_to_mem
  <2>1. call.at + 1 \in 0 .. Len(request.data)
    BY <1>3
  <2> QED
    BY <1>1, <1>3, <2>1, Zenon DEF CallRecord
<1>7. Len(segs') * SegUnits = Passed(request'.data, call'.at) + call'.crt
  <2>1. Len(segs) * SegUnits = Passed(request.data, call.at) + call.crt
    BY <1>2 DEF Segmenting
  <2> QED
    BY <1>1, <1>4, <1>5, <1>6, <2>1
<1>8. SegmentsDone' /\ CheckRequest(request.type)' = CheckRequest(request.type)
  BY <1>1, <1>2 DEF Segmenting, SegmentsDone, CheckRequest
<1>9. Segmenting'
  BY <1>1, <1>2, <1>6, <1>7, <1>8 DEF Segmenting
<1>10. moved' \in Seq(Int) /\ \A k \in DOMAIN moved' : moved'[k] # Remainder
  BY <1>1 DEF BlkInv, TypeOK, RemainderInvisible
<1> QED
  BY <1>1, <1>2, <1>6, <1>9, <1>10, CallKeeps

\* A segment in units.
LEMMA SegmentUnits ==
  ASSUME NEW seg \in Segments
  PROVE  /\ seg.sector * SectorUnits \in Nat /\ seg.num_sectors * SectorUnits \in Nat
         /\ seg.sector \in Nat /\ seg.num_sectors \in Nat
         /\ Units(seg) = seg.sector * SectorUnits ..
                           (seg.sector * SectorUnits + seg.num_sectors * SectorUnits) - 1
<1>1. seg.sector \in Nat /\ seg.num_sectors \in Nat
  BY BlkAssumption
<1> QED
  BY <1>1, SectorRange, Zenon DEF Units

\* Acting on a segment: only its units change, and the segments done before stay done.
LEMMA ActOnSegment ==
  ASSUME BlkInv, pc = "segments", NEW seg \in Segments, CheckAccess(seg.num_sectors, seg.sector),
         NEW z \in 0 .. seg.num_sectors * SectorUnits,
         file' = Zeroed(file, seg.sector * SectorUnits, z), segs' = Append(segs, seg),
         UNCHANGED <<features, request>>
  PROVE  /\ FileOK(file') /\ segs' \in Seq(Segments) /\ Len(segs') = Len(segs) + 1
         /\ \A u \in DOMAIN file : file'[u] # file[u] => "RO" \notin features /\ u \in Named'
         /\ (request.type = "WriteZeroes" => z = seg.num_sectors * SectorUnits) => SegmentsDone'
<1> DEFINE a == seg.sector * SectorUnits
           l == seg.num_sectors * SectorUnits
<1>1. /\ a \in Nat /\ l \in Nat /\ z \in Nat /\ z <= l /\ a + l <= Visible
      /\ Units(seg) = a .. (a + l) - 1
  BY SegmentUnits, AccessInside
<1>2. /\ Segmenting /\ FileOK(file) /\ segs \in Seq(Segments) /\ DOMAIN file = 0 .. FileLen - 1
      /\ FileLen \in Nat /\ Visible \in Nat /\ Visible <= FileLen
  BY FileIsOK, VisibleInFile, Sizes DEF BlkInv, TypeOK
<1> HIDE DEF a, l
<1>3. /\ FileOK(file')
      /\ \A u \in 0 .. FileLen - 1 : file'[u] = IF a <= u /\ u < a + z THEN 0 ELSE file[u]
  <2>1. a + z <= Visible /\ file' = Zeroed(file, a, z)
    BY <1>1, <1>2 DEF a
  <2>2. /\ FileOK(Zeroed(file, a, z))
        /\ \A u \in 0 .. FileLen - 1 : Zeroed(file, a, z)[u] = IF a <= u /\ u < a + z THEN 0 ELSE file[u]
    BY ONLY <1>1, <1>2, <2>1, ZeroedInside, Zenon
  <2> QED
    BY <2>1, <2>2, Zenon
<1>4. /\ segs' \in Seq(Segments) /\ Len(segs') = Len(segs) + 1 /\ Len(segs) \in Nat
      /\ DOMAIN segs' = 1 .. Len(segs) + 1 /\ DOMAIN segs = 1 .. Len(segs)
      /\ segs'[Len(segs) + 1] = seg /\ \A k \in DOMAIN segs : segs'[k] = segs[k]
  BY <1>2
<1>5. request.type \in {"Discard", "WriteZeroes"} /\ "RO" \notin features /\ SegmentsDone
  BY <1>2 DEF Segmenting, CheckRequest
<1>6. ASSUME NEW u \in DOMAIN file, file'[u] # file[u]
      PROVE  u \in Named'
  <2>1. u \in Units(seg)
    BY <1>1, <1>2, <1>3, <1>6
  <2>2. Named' = UNION {Units(segs'[k]) : k \in DOMAIN segs'}
    BY <1>5 DEF Named, Units
  <2>3. Len(segs) + 1 \in DOMAIN segs'
    BY <1>4
  <2> QED
    BY <1>4, <2>1, <2>2, <2>3
<1>7. ASSUME request.type = "WriteZeroes" => z = l
      PROVE  SegmentsDone'
  <2>1. ASSUME NEW k \in DOMAIN segs', NEW u \in Units(segs'[k])
        PROVE  u \in 0 .. Visible - 1 /\ (request.type = "WriteZeroes" => file'[u] = 0)
    <3>1. CASE k \in DOMAIN segs
      <4>1. u \in 0 .. Visible - 1 /\ (request.type = "WriteZeroes" => file[u] = 0)
        BY <1>4, <1>5, <2>1, <3>1 DEF SegmentsDone
      <4>2. u \in 0 .. FileLen - 1
        BY <1>2, <4>1
      <4> QED
        BY <1>3, <4>1, <4>2
    <3>2. CASE k = Len(segs) + 1
      <4>1. u \in a .. (a + l) - 1
        BY <1>1, <1>4, <2>1, <3>2
      <4>2. u \in 0 .. Visible - 1 /\ u \in 0 .. FileLen - 1 /\ a <= u /\ u < a + l
        BY <1>1, <1>2, <4>1
      <4> QED
        BY <1>3, <1>7, <4>2
    <3> QED
      BY <1>4, <3>1, <3>2
  <2> QED
    BY <2>1 DEF SegmentsDone, Units
<1> QED
  BY <1>3, <1>4, <1>5, <1>6, <1>7 DEF l

\* The loop goes on behind a segment.
LEMMA NextSegmentStep ==
  ASSUME BlkInv, pc = "segments", Buffer.len - call.crt >= SegUnits, NextSegment,
         UNCHANGED <<features, device_id, request, moved>>,
         FileOK(file'), segs' \in Seq(Segments), Len(segs') = Len(segs) + 1, SegmentsDone'
  PROVE  BlkInv'
<1>1. pc' = "segments" /\ call' = [call EXCEPT !.crt = @ + SegUnits]
  BY DEF NextSegment
<1>2. Segmenting /\ segs \in Seq(Segments) /\ Len(segs) \in Nat
  BY DEF BlkInv, TypeOK
<1>3. /\ call.at \in Nat /\ call.at < Len(request.data) /\ call \in CallRecord(Len(request.data))
      /\ DataSound(request.data) /\ call.crt \in Nat /\ Passed(request.data, call.at) \in Nat
  BY <1>2, CallFacts DEF Segmenting
<1>4. /\ call' \in CallRecord(Len(request.data)) /\ call'.at = call.at
      /\ call'.crt = call.crt + SegUnits
      /\ call'.status = call.status /\ call'.file_failed = call.file_failed
      /\ call'.bytes_to_mem = call.bytes_to_mem
  <2>1. call.crt + SegUnits \in Nat
    BY <1>3, Sizes
  <2> QED
    BY <1>1, <1>3, <2>1 DEF CallRecord
<1>5. Len(segs') * SegUnits = Passed(request'.data, call'.at) + call'.crt
  <2>1. Len(segs) * SegUnits = Passed(request.data, call.at) + call.crt
    BY <1>2 DEF Segmenting
  <2>2. (Len(segs) + 1) * SegUnits = Len(segs) * SegUnits + SegUnits
    BY <1>2, Sizes
  <2>3. Len(segs') * SegUnits = (Len(segs) + 1) * SegUnits
    BY Zenon
  <2>4. Passed(request'.data, call'.at) = Passed(request.data, call.at)
    BY <1>4, Zenon
  <2> DEFINE x == Len(segs) * SegUnits
             y == (Len(segs) + 1) * SegUnits
             q == Passed(request.data, call.at)
             c == call.crt
  <2>5. q \in Nat /\ c \in Nat /\ x = q + c /\ y = x + SegUnits
    BY <1>3, <2>1, <2>2, Zenon
  <2> HIDE DEF x, y, q, c
  <2>6. y = q + (c + SegUnits)
    BY ONLY <2>5, Sizes
  <2> QED
    BY <1>4, <2>3, <2>4, <2>6, Zenon DEF y, q, c
<1>6. Buffer' = Buffer
  BY <1>4 DEF Buffer
<1>7. \E m \in Nat : Buffer.len - (call.crt + SegUnits) = m * SegUnits
  <2>1. Buffer.len \in Nat
    BY <1>3, DataStep DEF Buffer
  <2>2. PICK m \in Nat : Buffer.len - call.crt = m * SegUnits
    BY <1>2 DEF Segmenting
  <2>3. m * SegUnits >= SegUnits
    BY <2>2
  <2>4. m - 1 \in Nat /\ (m - 1) * SegUnits = m * SegUnits - SegUnits
    BY <2>3, Sizes
  <2>5. Buffer.len - (call.crt + SegUnits) = (m - 1) * SegUnits
    BY <1>3, <2>1, <2>2, <2>4, Sizes
  <2> QED
    BY <2>4, <2>5
<1>8. CheckRequest(request.type)' = CheckRequest(request.type)
  BY DEF CheckRequest
<1>9. \E m \in Nat : Buffer'.len - call'.crt = m * SegUnits
  BY <1>4, <1>6, <1>7
<1>10. Segmenting'
  BY <1>1, <1>2, <1>3, <1>4, <1>5, <1>8, <1>9 DEF Segmenting
<1>11. moved' \in Seq(Int) /\ \A k \in DOMAIN moved' : moved'[k] # Remainder
  BY DEF BlkInv, TypeOK, RemainderInvisible
<1> QED
  BY <1>1, <1>4, <1>10, <1>11, CallKeeps

\* A segment, whatever becomes of it.
LEMMA ReadSegmentStep ==
  ASSUME BlkInv, NEW seg \in Segments, NEW hole \in BOOLEAN, ReadSegment(seg, hole)
  PROVE  /\ BlkInv'
         /\ \A u \in DOMAIN file : file'[u] # file[u] => "RO" \notin features /\ u \in Named'
<1> DEFINE length == seg.num_sectors * SectorUnits
           discard == request.type = "Discard"
           zeroed(n) == IF hole /\ (discard \/ "unmap" \in seg.flags) THEN length
                        ELSE IF discard THEN 0 ELSE n
<1>1. /\ pc = "segments" /\ Buffer.len - call.crt >= SegUnits
      /\ UNCHANGED <<features, device_id, request, moved>>
  BY DEF ReadSegment
<1>2. Segmenting /\ FileOK(file) /\ segs \in Seq(Segments) /\ length \in Nat
  BY <1>1, FileIsOK, SegmentUnits DEF BlkInv, TypeOK
<1>3. ASSUME NEW status \in {"IOERR", "UNSUPP"}, Answer(status), UNCHANGED <<file, segs>>
      PROVE  /\ BlkInv'
             /\ \A u \in DOMAIN file : file'[u] # file[u] => "RO" \notin features /\ u \in Named'
  BY <1>1, <1>2, <1>3, SegmentAnswer
<1>4. CASE \E n \in 0 .. length :
             /\ CheckAccess(seg.num_sectors, seg.sector)
             /\ file' = Zeroed(file, seg.sector * SectorUnits, zeroed(n))
             /\ segs' = Append(segs, seg)
             /\ IF discard \/ zeroed(n) = length THEN NextSegment ELSE Answer("IOERR")
  <2>1. PICK n \in 0 .. length :
             /\ CheckAccess(seg.num_sectors, seg.sector)
             /\ file' = Zeroed(file, seg.sector * SectorUnits, zeroed(n))
             /\ segs' = Append(segs, seg)
             /\ IF discard \/ zeroed(n) = length THEN NextSegment ELSE Answer("IOERR")
    BY <1>4
  <2> DEFINE z == zeroed(n)
  <2>2. z \in 0 .. length
    BY <1>2
  <2>3. request.type = "WriteZeroes" => ~discard
    BY Zenon
  <2> HIDE DEF z, discard
  <2>4. /\ FileOK(file') /\ segs' \in Seq(Segments) /\ Len(segs') = Len(segs) + 1
        /\ \A u \in DOMAIN file : file'[u] # file[u] => "RO" \notin features /\ u \in Named'
        /\ (request.type = "WriteZeroes" => z = length) => SegmentsDone'
    BY <1>1, <2>1, <2>2, ActOnSegment DEF z
  <2>5. CASE discard \/ z = length
    <3>1. NextSegment
      BY <2>1, <2>5 DEF z
    <3>2. SegmentsDone'
      BY <2>3, <2>4, <2>5
    <3> QED
      BY <1>1, <2>4, <3>1, <3>2, NextSegmentStep
  <2>6. CASE ~(discard \/ z = length)
    <3>1. Answer("IOERR")
      BY <2>1, <2>6 DEF z
    <3> QED
      BY <1>1, <2>4, <3>1, SegmentAnswer
  <2> QED
    BY <2>5, <2>6
<1>5. \/ \E status \in {"IOERR", "UNSUPP"} : Answer(status) /\ UNCHANGED <<file, segs>>
      \/ \E n \in 0 .. length :
             /\ CheckAccess(seg.num_sectors, seg.sector)
             /\ file' = Zeroed(file, seg.sector * SectorUnits, zeroed(n))
             /\ segs' = Append(segs, seg)
             /\ IF discard \/ zeroed(n) = length THEN NextSegment ELSE Answer("IOERR")
  BY Zenon DEF ReadSegment, HandleDiscardWriteZeroes
<1> QED
  BY <1>3, <1>4, <1>5
-----------------------------------------------------------------------------
\* The end of a request.

\* The status byte and the used length.
LEMMA WriteStatusStep == BlkInv /\ WriteStatus => BlkInv'
<1> SUFFICES ASSUME BlkInv, WriteStatus
             PROVE  BlkInv'
  OBVIOUS
<1>1. /\ pc = "status" /\ pc' = "done"
      /\ UNCHANGED <<file, features, device_id, request, moved, segs>>
  BY DEF WriteStatus
<1>2. Answered /\ FileOK(file) /\ segs \in Seq(Segments) /\ request.status >= 1
  BY <1>1, FileIsOK DEF BlkInv, TypeOK
<1>3. call \in CallRecord(Len(request.data)) /\ call.bytes_to_mem \in 0 .. MaxU32 /\ request.status \in Nat
  BY CallFacts
<1>4. /\ call.bytes_to_mem + 1 \in 0 .. MaxU32 + 1 /\ ~(call.bytes_to_mem + 1 > MaxU32)
      /\ request.status # 0
  BY <1>2, <1>3, Sizes DEF Answered
<1>5. call' = [call EXCEPT !.used = call.bytes_to_mem + 1, !.status = call.status]
  BY <1>4, Zenon DEF WriteStatus
<1>6. /\ call' \in CallRecord(Len(request.data)) /\ call'.used = call.bytes_to_mem + 1
      /\ call'.status = call.status /\ call'.file_failed = call.file_failed
      /\ call'.bytes_to_mem = call.bytes_to_mem
  BY <1>3, <1>4, <1>5, Zenon DEF CallRecord
<1>7. WrittenLen' = WrittenLen
  BY <1>1 DEF WrittenLen
<1>8. Done' <=> Done
  BY <1>1 DEF Done, Content, Start, SegmentsDone, Units, TotalDataLen
<1>9. Answered'
  BY <1>1, <1>2, <1>6, <1>7, <1>8, Zenon DEF Answered
<1>10. moved' \in Seq(Int) /\ \A k \in DOMAIN moved' : moved'[k] # Remainder
  BY <1>1 DEF BlkInv, TypeOK, RemainderInvisible
<1> QED
  BY <1>1, <1>2, <1>6, <1>9, <1>10, CallKeeps

\* The next request starts from nothing.
LEMMA CompleteStep == BlkInv /\ Complete => BlkInv'
<1> SUFFICES ASSUME BlkInv, Complete
             PROVE  BlkInv'
  OBVIOUS
<1>1. /\ pc' = "idle" /\ request' = NoRequest /\ call' = NoCall /\ moved' = <<>> /\ segs' = <<>>
      /\ UNCHANGED <<file, features, device_id>>
  BY DEF Complete
<1>2. NoRequest \in RequestRecord /\ NoRequest.data = <<>> /\ Len(NoRequest.data) = 0
  BY DEF NoRequest, RequestTypes, RequestRecord
<1>3. NoCall \in CallRecord(0)
  BY Sizes DEF NoCall, CallRecord
<1>4. TypeOK'
  BY <1>1, <1>2, <1>3 DEF BlkInv, TypeOK
<1>5. RemainderInvisible'
  BY <1>1 DEF BlkInv, RemainderInvisible
<1> QED
  BY <1>1, <1>2, <1>4, <1>5, NoData DEF BlkInv

\* Nothing happens.
LEMMA StutterStep == BlkInv /\ UNCHANGED vars => BlkInv'
<1> SUFFICES ASSUME BlkInv, UNCHANGED vars
             PROVE  BlkInv'
  OBVIOUS
<1> USE DEF vars
<1>1. TypeOK' /\ RemainderInvisible'
  BY DEF BlkInv, TypeOK, RemainderInvisible
<1>2. SegmentsDone' <=> SegmentsDone
  BY DEF SegmentsDone, Units
<1>3. Content(file, Passed(request.data, call.at))' = Content(file, Passed(request.data, call.at))
        /\ Content(file, TotalDataLen(request))' = Content(file, TotalDataLen(request))
        /\ Start' = Start /\ TotalDataLen(request)' = TotalDataLen(request)
        /\ CheckRequest(request.type)' = CheckRequest(request.type)
        /\ Buffer' = Buffer /\ WrittenLen' = WrittenLen
  BY DEF Content, Start, TotalDataLen, CheckRequest, Buffer, WrittenLen
<1>4. Transferring' <=> Transferring
  BY <1>3 DEF Transferring
<1>5. Segmenting' <=> Segmenting
  BY <1>2, <1>3 DEF Segmenting
<1>6. Done' <=> Done
  BY <1>2, <1>3 DEF Done
<1>7. Answered' <=> Answered
  BY <1>3, <1>6 DEF Answered
<1> QED
  BY <1>1, <1>4, <1>5, <1>7 DEF BlkInv
-----------------------------------------------------------------------------
\* The results.

\* A step keeps the invariant, and changes nothing of the file but what the request names.
LEMMA StepInv ==
  BlkInv /\ [Next]_vars =>
    /\ BlkInv'
    /\ \A u \in DOMAIN file : file'[u] # file[u] => "RO" \notin features /\ u \in Named'
<1> SUFFICES ASSUME BlkInv, [Next]_vars
             PROVE  /\ BlkInv'
                    /\ \A u \in DOMAIN file :
                         file'[u] # file[u] => "RO" \notin features /\ u \in Named'
  BY Zenon
<1>1. ASSUME NEW h \in Header, ParseHeader(h)
      PROVE  BlkInv' /\ file' = file
  BY <1>1, ParseHeaderStep, Zenon DEF ParseHeader
<1>2. ASSUME NEW b \in Buffers, NEW w \in BOOLEAN, ParseData(b, w)
      PROVE  BlkInv' /\ file' = file
  BY <1>2, ParseDataStep DEF ParseData
<1>3. ASSUME NEW b \in Buffers, NEW w \in BOOLEAN, ParseStatus(b, w)
      PROVE  BlkInv' /\ file' = file
  BY <1>3, ParseStatusStep DEF ParseStatus
<1>4. CASE ParseCut
  BY <1>4, RejectStep, Zenon DEF ParseCut
<1>5. ASSUME NEW seeks \in BOOLEAN, NEW syncs \in BOOLEAN, Execute(seeks, syncs)
      PROVE  BlkInv' /\ file' = file
  BY <1>5, ExecuteStep, Zenon DEF Execute
<1>6. CASE In
  BY <1>6, InStep DEF In
<1>7. CASE Out
  BY <1>7, OutStep, Zenon
<1>8. CASE GetDeviceID
  BY <1>8, GetDeviceIDStep DEF GetDeviceID
<1>9. CASE EndTransfer
  BY <1>9, EndTransferStep DEF EndTransfer
<1>10. ASSUME NEW overflow \in BOOLEAN, StartBuffer(overflow)
       PROVE  BlkInv' /\ file' = file
  BY <1>10, StartBufferStep DEF StartBuffer
<1>11. ASSUME NEW seg \in Segments, NEW hole \in BOOLEAN, ReadSegment(seg, hole)
       PROVE  /\ BlkInv'
              /\ \A u \in DOMAIN file : file'[u] # file[u] => "RO" \notin features /\ u \in Named'
  BY <1>11, ReadSegmentStep, Zenon
<1>12. CASE EndBuffer
  BY <1>12, EndBufferStep DEF EndBuffer
<1>13. CASE WriteStatus
  BY <1>13, WriteStatusStep DEF WriteStatus
<1>14. CASE Complete
  BY <1>14, CompleteStep DEF Complete
<1>15. CASE UNCHANGED vars
  BY <1>15, StutterStep DEF vars
<1> QED
  BY <1>1, <1>2, <1>3, <1>4, <1>5, <1>6, <1>7, <1>8, <1>9, <1>10, <1>11, <1>12, <1>13, <1>14, <1>15,
     Zenon DEF Next

\* BlkInv holds in every state of the block device.
THEOREM BlkInvariance == Spec => []BlkInv
<1>1. Init => BlkInv
  BY InitInv
<1>2. BlkInv /\ [Next]_vars => BlkInv'
  BY StepInv
<1> QED
  BY <1>1, <1>2, PTL DEF Spec

\* Requests, locals and results of the block device have their types; the file keeps its
\* length, and the used length fits in 32 bits.
THEOREM BlkTypeCorrect == Spec => []TypeOK
<1>1. BlkInv => TypeOK
  BY DEF BlkInv
<1> QED
  BY <1>1, BlkInvariance, PTL

\* process_request never fails for a request that parse accepted: the status byte can be
\* written, and the used length does not overflow.
THEOREM RequestsAreAnswered == Spec => []AlwaysAnswered
<1>1. BlkInv => AlwaysAnswered
  BY DEF BlkInv, Answered, AlwaysAnswered
<1> QED
  BY <1>1, BlkInvariance, PTL

\* execute answers VIRTIO_BLK_S_OK only for a request it did in full.
THEOREM OkIsDone == Spec => []OkMeansDone
<1>1. BlkInv => OkMeansDone
  <2> SUFFICES ASSUME BlkInv, pc = "done", call.status = "OK"
               PROVE  /\ request.type \in {"In", "Out"} =>
                           moved = [k \in 1 .. TotalDataLen(request) |-> file[Start + k - 1]]
                      /\ request.type = "GetDeviceID" => moved = [k \in 1 .. IdLen |-> IdUnit(k)]
                      /\ request.type \in {"Discard", "WriteZeroes"} =>
                           Len(segs) * SegUnits = TotalDataLen(request)
                      /\ request.type = "WriteZeroes" =>
                           \A k \in DOMAIN segs : \A u \in Units(segs[k]) : file[u] = 0
    BY DEF OkMeansDone
  <2>1. Done
    BY DEF BlkInv, Answered
  <2>2. request.type \in {"In", "Out"} =>
          moved = [k \in 1 .. TotalDataLen(request) |-> file[Start + k - 1]]
    BY <2>1 DEF Done, Content
  <2>3. request.type = "GetDeviceID" => moved = [k \in 1 .. IdLen |-> IdUnit(k)]
    BY <2>1 DEF Done, Content
  <2> QED
    BY <2>1, <2>2, <2>3 DEF Done, SegmentsDone
<1> QED
  BY <1>1, BlkInvariance, PTL

\* The used length that process_request returns is that of the data written and the status.
THEOREM UsedLengthIsTrue == Spec => []UsedLengthIsWritten
<1>1. BlkInv => UsedLengthIsWritten
  <2> SUFFICES ASSUME BlkInv, pc = "done"
               PROVE  call.used <= WrittenLen + 1 /\ (~call.file_failed => call.used = WrittenLen + 1)
    BY DEF UsedLengthIsWritten, WrittenLen
  <2>1. Answered /\ call.bytes_to_mem \in 0 .. MaxU32
    BY CallFacts DEF BlkInv
  <2>2. WrittenLen \in Nat
    BY DEF WrittenLen, BlkInv, TypeOK
  <2> QED
    BY <2>1, <2>2, Sizes DEF Answered
<1> QED
  BY <1>1, BlkInvariance, PTL

\* check_access keeps every request within the whole sectors of the file.
THEOREM RemainderStaysInvisible == Spec => []RemainderInvisible
<1>1. BlkInv => RemainderInvisible
  BY DEF BlkInv
<1> QED
  BY <1>1, BlkInvariance, PTL

\* No step changes a unit of the file that the request does not name, or any unit of a
\* read-only device.
THEOREM OnlyNamedUnitsChange == Spec => OnlyNamedChange
<1>1. BlkInv /\ [Next]_vars =>
        [\A u \in DOMAIN file : file'[u] # file[u] => "RO" \notin features /\ u \in Named']_vars
  BY StepInv
<1> QED
  BY <1>1, BlkInvariance, PTL DEF Spec, OnlyNamedChange
=============================================================================
