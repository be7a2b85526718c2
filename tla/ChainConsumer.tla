---------------------------- MODULE ChainConsumer ----------------------------
(***************************************************************************)
(* Reader and Writer: a descriptor chain seen as a stream of bytes.  Both  *)
(* are a DescriptorChainConsumer over the device-readable, respectively    *)
(* device-writable, descriptors; they can be read (written) in pieces of   *)
(* any size and split into two.                                            *)
(*                                                                         *)
(* The calls take `&mut self` and consumers share nothing, so one call is  *)
(* made at a time; the turns of its loops are the steps of this module.    *)
(* The next descriptor of the chain, or the end of it, is whatever the     *)
(* driver made it.                                                         *)
(*                                                                         *)
(* A byte is known by its place in the stream, which is what total_len     *)
(* was when its descriptor was met, plus the offset in the descriptor; a   *)
(* VolatileSlice is the place of its first byte and its length.            *)
(***************************************************************************)
EXTENDS Integers, Sequences

CONSTANTS
  MaxDescs,       \* bound: slices of a chain
  MaxLen,         \* bound: length of a descriptor
  MaxCount,       \* bound: bytes asked for in one call
  MaxConsumers,   \* bound: Readers made from a chain by splitting
  MaxUsize        \* usize::MAX

ASSUME ConsumerAssumption ==
  {MaxDescs, MaxLen, MaxCount, MaxConsumers, MaxUsize} \subseteq Nat \ {0}

VARIABLES
  pc,          \* the loop that is running, "none" without consumers, "ready" between calls
  writable,    \* a Writer, not a Reader
  total_len,   \* local variable of new
  collected,   \* the slices new has collected
  consumers,   \* the consumers made from the chain
  call         \* locals of the running call: [who, count, at, bufs, num, rem]

consumerVars == <<pc, writable, total_len, collected, consumers, call>>

\* mapped: the buffer lies in one region of guest memory.
DataDescriptor == [len : 0 .. MaxLen, write_only : BOOLEAN, mapped : BOOLEAN]

\* who: the consumer; at: slices the loop has passed; bufs: length of the local `bufs`;
\* num: buflen, total or count of the loop; rem.
NoCall == [who |-> 1, count |-> 0, at |-> 0, bufs |-> 0, num |-> 0, rem |-> 0]

\* A consumer with its two fields, and as history: the places it is for, from `first` up
\* to `end`, and the places that were read or written, in order.
Consumer(buffers, first, end) ==
  [buffers |-> buffers, bytes_consumed |-> 0, first |-> first, end |-> end, got |-> <<>>]

ConsumerInit ==
  /\ pc = "none" /\ writable = FALSE /\ total_len = 0
  /\ collected = <<>> /\ consumers = <<>> /\ call = NoCall
-----------------------------------------------------------------------------
\* Reader::new and Writer::new.

StartNew(w) ==
  /\ pc = "none" /\ pc' = "new"
  /\ writable' = w /\ total_len' = 0 /\ collected' = <<>>
  /\ UNCHANGED <<consumers, call>>

\* readable() and writable() pass over the descriptors of the other direction.
Selected(d) == d.write_only = writable

\* A descriptor is collected, or ends the collection with an error.
Collect(d) ==
  /\ pc = "new" /\ Len(collected) < MaxDescs
  /\ Selected(d)
  /\ IF total_len + d.len > MaxUsize \/ ~d.mapped
     THEN pc' = "none" /\ UNCHANGED <<total_len, collected>>
     ELSE /\ total_len' = total_len + d.len
          /\ collected' = Append(collected, [from |-> total_len, len |-> d.len])
          /\ UNCHANGED pc
  /\ UNCHANGED <<writable, consumers, call>>

EndNew ==
  /\ pc = "new" /\ pc' = "ready"
  /\ consumers' = <<Consumer(collected, 0, total_len)>>
  /\ UNCHANGED <<writable, total_len, collected, call>>
-----------------------------------------------------------------------------
Lesser(m, n) == IF m < n THEN m ELSE n

Buffers == consumers[call.who].buffers

\* A call of consumer i begins with the loop at `label`.
Start(label, i, count) ==
  /\ pc = "ready" /\ pc' = label
  /\ call' = [NoCall EXCEPT !.who = i, !.count = count, !.rem = count]
  /\ UNCHANGED <<writable, total_len, collected, consumers>>

Return == pc' = "ready" /\ call' = NoCall

\* available_bytes: one turn of the fold, or the answer.
CountAvailable ==
  /\ pc = "available"
  /\ IF call.at < Len(Buffers)
     THEN /\ call' = [call EXCEPT !.at = @ + 1, !.num = @ + Buffers[call.at + 1].len]
          /\ UNCHANGED pc
     ELSE Return
  /\ UNCHANGED <<writable, total_len, collected, consumers>>

\* Bug: only the first slice is handed out.
GatherFirst ==
  /\ pc = "gather"
  /\ IF call.at < Lesser(Len(Buffers), 1) /\ call.num < call.count
     THEN /\ call' = [call EXCEPT !.at = @ + 1,
                        !.num = @ + Lesser(call.count - @, Buffers[call.at + 1].len)]
          /\ UNCHANGED pc
     ELSE IF call.at = 0 THEN Return
     ELSE pc' = "copy" /\ call' = [call EXCEPT !.bufs = call.at, !.at = 0, !.num = 0]
  /\ UNCHANGED <<writable, total_len, collected, consumers>>

\* consume, first loop: the slices for the closure, until there are `count` bytes; without
\* any it returns 0.
Gather ==
  /\ pc = "gather"
  /\ IF call.at < Len(Buffers) /\ call.num < call.count
     THEN /\ call' = [call EXCEPT !.at = @ + 1,
                        !.num = @ + Lesser(call.count - @, Buffers[call.at + 1].len)]
          /\ UNCHANGED pc
     ELSE IF call.at = 0 THEN Return
     ELSE pc' = "copy" /\ call' = [call EXCEPT !.bufs = call.at, !.at = 0, !.num = 0]
  /\ UNCHANGED <<writable, total_len, collected, consumers>>

\* The places of n bytes from place p on.
Places(p, n) == [k \in 1 .. n |-> p + k - 1]

\* The closures of Reader::read and Writer::write: a slice is copied up to what is left of
\* the caller's buffer.  Afterwards consume checks the new bytes_consumed.
Copy ==
  /\ pc = "copy"
  /\ IF call.at < call.bufs
     THEN LET vs == Buffers[call.at + 1]
              n == Lesser(call.rem, vs.len)
          IN  /\ call' = [call EXCEPT !.at = @ + 1, !.num = @ + n, !.rem = @ - n]
              /\ consumers' = [consumers EXCEPT ![call.who].got = @ \o Places(vs.from, n)]
              /\ UNCHANGED pc
     ELSE /\ IF consumers[call.who].bytes_consumed + call.num > MaxUsize
             THEN Return
             ELSE pc' = "pop" /\ call' = [call EXCEPT !.rem = call.num]
          /\ UNCHANGED consumers
  /\ UNCHANGED <<writable, total_len, collected>>

\* VolatileSlice::offset
Offset(vs, n) == [from |-> vs.from + n, len |-> vs.len - n]

\* Bug: the rest of a slice that was used in part is not put back.
PopWhole ==
  /\ pc = "pop"
  /\ LET c == consumers[call.who]
     IN  IF c.buffers # <<>> /\ call.rem >= Head(c.buffers).len
         THEN /\ consumers' = [consumers EXCEPT ![call.who].buffers = Tail(@)]
              /\ call' = [call EXCEPT !.rem = @ - Head(c.buffers).len]
              /\ UNCHANGED pc
         ELSE /\ consumers' = [consumers EXCEPT ![call.who] =
                   [c EXCEPT !.buffers = IF @ = <<>> THEN @ ELSE Tail(@),
                             !.bytes_consumed = @ + call.num]]
              /\ Return
  /\ UNCHANGED <<writable, total_len, collected>>

\* consume, last loop: pop_front until a slice is longer than what is left of the count; its
\* rest is put back.
Pop ==
  /\ pc = "pop"
  /\ LET c == consumers[call.who]
     IN  IF c.buffers # <<>> /\ call.rem >= Head(c.buffers).len
         THEN /\ consumers' = [consumers EXCEPT ![call.who].buffers = Tail(@)]
              /\ call' = [call EXCEPT !.rem = @ - Head(c.buffers).len]
              /\ UNCHANGED pc
         ELSE /\ consumers' = [consumers EXCEPT ![call.who] =
                   [c EXCEPT !.buffers = IF @ = <<>> THEN @
                                         ELSE <<Offset(Head(@), call.rem)>> \o Tail(@),
                             !.bytes_consumed = @ + call.num]]
              /\ Return
  /\ UNCHANGED <<writable, total_len, collected>>
-----------------------------------------------------------------------------
\* split_at: what self keeps and what the other consumer gets when the slice after the
\* first call.at ones is the one that is cut; rem = 0 cuts between slices.
KeptBuffers ==
  SubSeq(Buffers, 1, call.at)
    \o (IF call.rem > 0 THEN <<[from |-> Buffers[call.at + 1].from, len |-> call.rem]>> ELSE <<>>)

\* Bug: the other consumer gets the whole of the slice that is cut.
OtherBuffersWhole == SubSeq(Buffers, call.at + 1, Len(Buffers))

OtherBuffers ==
  <<Offset(Buffers[call.at + 1], call.rem)>> \o SubSeq(Buffers, call.at + 2, Len(Buffers))

\* self keeps the buffers `kept` and is for `count` bytes from now on, and another consumer
\* for the bytes behind them has the buffers `other`.
Split(kept, other) ==
  LET c == consumers[call.who]
      middle == c.first + c.bytes_consumed + call.count
  IN  consumers' = Append([consumers EXCEPT ![call.who] = [c EXCEPT !.buffers = kept, !.end = middle]],
                          Consumer(other, middle, c.end))

\* Bug: the very end is not accepted.
PositionInside ==
  /\ pc = "position"
  /\ IF call.at < Len(Buffers) /\ call.rem >= Buffers[call.at + 1].len
     THEN /\ call' = [call EXCEPT !.at = @ + 1, !.rem = @ - Buffers[call.at + 1].len]
          /\ UNCHANGED <<pc, consumers>>
     ELSE /\ Return
          /\ IF call.at < Len(Buffers) THEN Split(KeptBuffers, OtherBuffers)
                                       ELSE UNCHANGED consumers
  /\ UNCHANGED <<writable, total_len, collected>>

\* split_at: one turn of `position`, or what follows it: SplitOutOfBounds, which changes
\* nothing, if bytes of the offset are left behind the last slice.
Position ==
  /\ pc = "position"
  /\ IF call.at < Len(Buffers) /\ call.rem >= Buffers[call.at + 1].len
     THEN /\ call' = [call EXCEPT !.at = @ + 1, !.rem = @ - Buffers[call.at + 1].len]
          /\ UNCHANGED <<pc, consumers>>
     ELSE /\ Return
          /\ IF call.at < Len(Buffers) THEN Split(KeptBuffers, OtherBuffers)
             ELSE IF call.rem = 0 THEN Split(Buffers, <<>>)
             ELSE UNCHANGED consumers
  /\ UNCHANGED <<writable, total_len, collected>>

ConsumerNext ==
  \/ \E w \in BOOLEAN : StartNew(w)
  \/ \E d \in DataDescriptor : Collect(d)
  \/ EndNew
  \/ \E i \in DOMAIN consumers : Start("available", i, 0)
  \/ CountAvailable
  \/ \E i \in DOMAIN consumers, n \in 0 .. MaxCount : Start("gather", i, n)
  \/ Gather \/ Copy \/ Pop
  \/ \E i \in DOMAIN consumers, n \in 0 .. MaxCount :
       Len(consumers) < MaxConsumers /\ Start("position", i, n)
  \/ Position

ConsumerSpec == ConsumerInit /\ [][ConsumerNext]_consumerVars
-----------------------------------------------------------------------------
\* The place behind the first k slices when those start at place p.
After(buffers, p, k) == IF k = 0 THEN p ELSE buffers[k].from + buffers[k].len

\* The slices cover the places from p up to q, without a gap or an overlap and in order.
Tiles(buffers, p, q) ==
  /\ \A k \in DOMAIN buffers : buffers[k].from = After(buffers, p, k - 1)
  /\ After(buffers, p, Len(buffers)) = q

\* The bytes a consumer still has to give.
Left(c) == c.end - (c.first + c.bytes_consumed)

\* Reads and splits of any sizes give out every byte of the stream exactly once and in
\* order: each byte belongs to one consumer, which got the first bytes_consumed of its bytes
\* and has the others in its slices; a call that fails half-way would leave it otherwise.
BytesPartitioned ==
  pc = "ready" =>
    /\ \A p \in 0 .. total_len - 1 : \E i \in DOMAIN consumers :
         consumers[i].first <= p /\ p < consumers[i].end
    /\ \A i, j \in DOMAIN consumers :
         i # j => consumers[i].end <= consumers[j].first \/ consumers[j].end <= consumers[i].first
    /\ \A i \in DOMAIN consumers :
         LET c == consumers[i]
         IN  /\ c.got = Places(c.first, c.bytes_consumed)
             /\ Tiles(c.buffers, c.first + c.bytes_consumed, c.end)

\* available_bytes, which adds up the slices there are, answers the number of bytes that are
\* left, after any reads and splits, and never exceeds a usize on the way.
AvailableExact ==
  pc = "available" =>
    /\ call.num <= MaxUsize
    /\ call.at = Len(Buffers) => call.num = Left(consumers[call.who])

\* A read or write transfers all that was asked for or all that is left, so
\* read_exact and write_all fail only at the end of the stream.
ConsumesAll ==
  [][pc' = "ready" /\ pc \in {"gather", "copy", "pop"} =>
       consumers'[call.who].bytes_consumed - consumers[call.who].bytes_consumed
         = Lesser(call.count, Left(consumers[call.who]))]_consumerVars

\* split_at succeeds exactly up to and including the end of the stream.
SplitExact ==
  [][pc' = "ready" /\ pc = "position" =>
       (Len(consumers') > Len(consumers) <=> call.count <= Left(consumers[call.who]))]_consumerVars
=============================================================================
