------------------------------- MODULE Console -------------------------------
(***************************************************************************)
(* The console device: threads that put bytes into the input buffer, the   *)
(* device thread that moves them into descriptor chains of the receive     *)
(* queue, and the chains of the transmit queue it writes to the output.    *)
(* process_receiveq_chain keeps the mutex of the buffer for all of its     *)
(* loop, whose turns are the steps of this module; every other operation   *)
(* on the buffer is one step, taken when the mutex is free.  What a        *)
(* producer knows about free space it learns in a call of its own.         *)
(*                                                                         *)
(* The next descriptor of a chain, or the end of it, is whatever the       *)
(* driver made it.  Bytes are numbered in the order in which they entered  *)
(* the buffer, those of the transmit queue in the order of the             *)
(* descriptors that the device looks at.                                   *)
(***************************************************************************)
EXTENDS Integers, Sequences, Functions

CONSTANTS
  Capacity,    \* capacity of the input buffer
  MaxBytes,    \* bytes that ever enter it
  MaxOutput,   \* bytes that the driver ever transmits
  MaxLen,      \* length of a descriptor
  Producers    \* threads that enqueue data

ASSUME ConsoleAssumption == {Capacity, MaxBytes, MaxOutput, MaxLen} \subseteq Nat \ {0}

VARIABLES
  input_buffer,
  receiving,   \* process_receiveq_chain is in its loop, and holds the mutex
  sent_bytes,  \* its local variable
  output,      \* the bytes the output sink has taken
  flushed,     \* how many of them it has flushed
  \* history
  entered,     \* number of bytes that entered the buffer
  delivered,   \* bytes written to guest memory, in order
  dropped,     \* bytes that left the buffer in another way
  reported,    \* the sum of what process_receiveq_chain returned
  free_seen,   \* free space as a producer saw it, until bytes enter the buffer
  offered,     \* number of bytes in the descriptors of the transmit queue
  short,       \* those of them that a write left out and did not report
  transmit_ok  \* no call of process_transmitq_chain has failed

inputVars == <<input_buffer, receiving, sent_bytes, entered, delivered, dropped, reported, free_seen>>
outputVars == <<output, flushed, offered, short, transmit_ok>>
consoleVars == <<inputVars, outputVars>>

Unknown == -1

ConsoleInit ==
  /\ input_buffer = <<>> /\ receiving = FALSE /\ sent_bytes = 0
  /\ entered = 0 /\ delivered = <<>> /\ dropped = {} /\ reported = 0
  /\ free_seen = [t \in Producers |-> Unknown]
  /\ output = <<>> /\ flushed = 0 /\ offered = 0 /\ short = {} /\ transmit_ok = TRUE
-----------------------------------------------------------------------------
\* n bytes with the numbers after `from`.
Numbered(from, n) == [k \in 1 .. n |-> from + k]

\* enqueue_data of n bytes; without room for all of them nothing happens.
EnqueueData(n) ==
  /\ ~receiving
  /\ entered + n <= MaxBytes
  /\ Len(input_buffer) + n <= Capacity
  /\ input_buffer' = input_buffer \o Numbered(entered, n)
  /\ entered' = entered + n
  /\ free_seen' = [t \in Producers |-> Unknown]
  /\ UNCHANGED <<receiving, sent_bytes, delivered, dropped, reported, outputVars>>

\* Bug: the bytes that are waiting do not count.
AvailableCapacityWhole(t) ==
  /\ ~receiving
  /\ free_seen' = [free_seen EXCEPT ![t] = Capacity]
  /\ UNCHANGED <<input_buffer, receiving, sent_bytes, entered, delivered, dropped, reported,
                 outputVars>>

\* available_capacity, asked by producer t.
AvailableCapacity(t) ==
  /\ ~receiving
  /\ free_seen' = [free_seen EXCEPT ![t] = Capacity - Len(input_buffer)]
  /\ UNCHANGED <<input_buffer, receiving, sent_bytes, entered, delivered, dropped, reported,
                 outputVars>>

ClearInputBuffer ==
  /\ ~receiving
  /\ input_buffer' = <<>>
  /\ dropped' = dropped \union Range(input_buffer)
  /\ UNCHANGED <<receiving, sent_bytes, entered, delivered, reported, free_seen, outputVars>>
-----------------------------------------------------------------------------
\* A descriptor of the receive queue; mapped: write_slice to it succeeds.  The
\* bytes of a failed write count as dropped, although some may be in memory.
Descriptor == [len : 0 .. MaxLen, write_only : BOOLEAN, mapped : BOOLEAN]

\* Bug: sent_bytes goes on from the call before.
StartReceiveKeepsCount ==
  /\ ~receiving /\ input_buffer # <<>>
  /\ receiving' = TRUE
  /\ UNCHANGED <<input_buffer, sent_bytes, entered, delivered, dropped, reported, free_seen, outputVars>>

\* process_receiveq_chain up to its loop; it returns 0 at once when the buffer is empty.
StartReceive ==
  /\ ~receiving /\ input_buffer # <<>>
  /\ receiving' = TRUE /\ sent_bytes' = 0
  /\ UNCHANGED <<input_buffer, entered, delivered, dropped, reported, free_seen, outputVars>>

\* It returns n, or an error, which reports nothing, and the mutex is free again.
Return(n) == receiving' = FALSE /\ reported' = reported + n

\* Bug: the newest bytes are taken first.
DrainNewest(n) ==
  [taken |-> SubSeq(input_buffer, Len(input_buffer) - n + 1, Len(input_buffer)),
   rest |-> SubSeq(input_buffer, 1, Len(input_buffer) - n)]

\* Vec::drain(..n)
Drain(n) == [taken |-> SubSeq(input_buffer, 1, n),
             rest |-> SubSeq(input_buffer, n + 1, Len(input_buffer))]

\* One turn of the loop: the bytes are drained from the buffer before the write that
\* may fail, and an error hides the bytes sent before it.
Send(d) ==
  LET n == IF d.len < Len(input_buffer) THEN d.len ELSE Len(input_buffer)
      drained == Drain(n)
  IN  /\ receiving
      /\ \/ /\ ~d.write_only
            /\ Return(0)
            /\ UNCHANGED <<input_buffer, delivered, dropped, sent_bytes>>
         \/ /\ d.write_only /\ ~d.mapped
            /\ input_buffer' = drained.rest
            /\ dropped' = dropped \union Range(drained.taken)
            /\ Return(0)
            /\ UNCHANGED <<delivered, sent_bytes>>
         \/ /\ d.write_only /\ d.mapped
            /\ input_buffer' = drained.rest
            /\ delivered' = delivered \o drained.taken
            /\ sent_bytes' = sent_bytes + n
            /\ IF drained.rest = <<>> THEN Return(sent_bytes')
                                      ELSE UNCHANGED <<receiving, reported>>
            /\ UNCHANGED dropped
      /\ UNCHANGED <<entered, free_seen, outputVars>>

\* The chain has no more descriptors.
EndReceive ==
  /\ receiving
  /\ Return(sent_bytes)
  /\ UNCHANGED <<input_buffer, sent_bytes, entered, delivered, dropped, free_seen, outputVars>>
-----------------------------------------------------------------------------
\* A descriptor of the transmit queue, with what becomes of it: write_volatile_to
\* (external) passes the first `taken` bytes to the sink, fewer than it should when it
\* fails, when the sink takes no more or when guest memory ends; then comes the flush.
TxDescriptor ==
  {d \in [len : 0 .. MaxLen, write_only : BOOLEAN, taken : 0 .. MaxLen,
          end : {"ok", "write failed", "flush failed"}] :
     d.taken <= d.len /\ (d.write_only => d.taken = 0 /\ d.end = "ok")}

\* Bug: the sink is flushed before the write.
TransmitFlushesFirst(d) ==
  /\ offered + d.len <= MaxOutput
  /\ offered' = offered + d.len
  /\ output' = output \o Numbered(offered, d.taken)
  /\ flushed' = IF d.end = "ok" /\ ~d.write_only THEN Len(output) ELSE flushed
  /\ short' = short \union (offered + d.taken + 1 .. offered + d.len)
  /\ transmit_ok' = (transmit_ok /\ d.end = "ok" /\ ~d.write_only)
  /\ UNCHANGED inputVars

\* One turn of the loop of process_transmitq_chain.  An error ends the call; the
\* number of bytes written is not looked at.
Transmit(d) ==
  /\ offered + d.len <= MaxOutput
  /\ offered' = offered + d.len
  /\ IF d.write_only
     THEN transmit_ok' = FALSE /\ UNCHANGED <<output, flushed, short>>
     ELSE /\ output' = output \o Numbered(offered, d.taken)
          /\ flushed' = IF d.end = "ok" THEN Len(output') ELSE flushed
          /\ short' = short \union (offered + d.taken + 1 .. offered + d.len)
          /\ transmit_ok' = (transmit_ok /\ d.end = "ok")
  /\ UNCHANGED inputVars

ConsoleNext ==
  \/ \E n \in 0 .. MaxBytes : EnqueueData(n)
  \/ \E t \in Producers : AvailableCapacity(t)
  \/ ClearInputBuffer
  \/ StartReceive
  \/ \E d \in Descriptor : Send(d)
  \/ EndReceive
  \/ \E d \in TxDescriptor : Transmit(d)

ConsoleSpec == ConsoleInit /\ [][ConsoleNext]_consoleVars
-----------------------------------------------------------------------------
ConsoleTypeOK ==
  /\ input_buffer \in Seq(1 .. MaxBytes) /\ receiving \in BOOLEAN /\ sent_bytes \in Nat
  /\ entered \in 0 .. MaxBytes /\ delivered \in Seq(1 .. MaxBytes)
  /\ dropped \subseteq 1 .. MaxBytes /\ reported \in Nat
  /\ free_seen \in [Producers -> {Unknown} \union 0 .. Capacity]
  /\ output \in Seq(1 .. MaxOutput) /\ flushed \in Nat /\ offered \in 0 .. MaxOutput
  /\ short \subseteq 1 .. MaxOutput /\ transmit_ok \in BOOLEAN

Increasing(s) == \A j, k \in DOMAIN s : j < k => s[j] < s[k]

\* The guest gets the bytes in the order in which they were enqueued and none
\* twice, and every byte is delivered, waiting, or was dropped by a clear or a
\* failed write, whatever chains the driver offers and fail half way.
BytesInOrder ==
  LET kept == delivered \o input_buffer
  IN  /\ Increasing(kept)
      /\ Range(kept) \intersect dropped = {}
      /\ Range(kept) \union dropped = 1 .. entered

\* Free space that a producer has seen stays free until someone enqueues: clearing
\* the buffer and processing chains in between never takes it away, so a single
\* producer that checks available_capacity cannot fail; and available_capacity never
\* subtracts more than there is.
CapacityPromise ==
  /\ Len(input_buffer) <= Capacity
  /\ \A t \in Producers : free_seen[t] <= Capacity - Len(input_buffer)

\* The lengths process_receiveq_chain returns never exceed what it wrote, and no call
\* sends more than the buffer can hold, so that its 32-bit counter has room.
ReportedDelivered ==
  /\ reported <= Len(delivered)
  /\ receiving => sent_bytes + Len(input_buffer) <= Capacity

\* The sink gets the bytes of the transmit queue in their order and none twice, through
\* chains that fail half way; and as long as no call has failed it has flushed all of
\* them but those that a write left out without an error.
TransmitInOrder ==
  /\ Increasing(output)
  /\ transmit_ok => flushed = Len(output) /\ Range(output) = (1 .. offered) \ short
=============================================================================
