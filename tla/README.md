# Verification of the vm-virtio crates

TLA+ models of the virtqueue, the transport and the devices of this repository,
TLC runs that check them on small instances, and TLAPS proofs of the most
important properties for every instance.

## 1. The system

A virtio device talks to a driver in the guest through *virtqueues* in guest
memory. The crates of the repository are the device's half.

| Part | Code | State | Operations | Module |
|---|---|---|---|---|
| Ring processing | `virtio-queue/src/queue.rs` | `next_avail`, `next_used`, `num_added`, `event_idx_enabled`; in guest memory the two rings with `avail_idx`, `used_idx`, `used_event`, `avail_event`, flags | `iter`, `AvailIter::next`, `go_to_previous_position`, `add_used`, `disable_notification`, `enable_notification`, `needs_notification` | `Virtqueue`, `UsedNotification`, `WrapIndex`, `ChainHandOff` |
| Queue configuration | `virtio-queue/src/queue.rs` | sizes, `ready`, three addresses | `new`, `set_*`, `try_set_*`, `reset`, `is_valid` | `QueueConfig` |
| Saved state | `virtio-queue/src/state.rs`, `virtio-queue-ser/src/state.rs` | `QueueState` | `state`, `try_from` | `QueueConfig`, `UsedNotification` |
| Descriptor chains | `virtio-queue/src/chain.rs`, `desc/split.rs` | table, index, `ttl`, `yielded_bytes` | `next`, `switch_to_indirect_table` | `DescriptorChain` |
| Reader and Writer | `virtio-queue/src/descriptor_utils.rs` | slices left, `bytes_consumed` | constructors, `available_bytes`, `read`/`write` (`consume`), `split_at` | `ChainConsumer` |
| Device and MMIO registers | `virtio-device/src/*.rs` | status, features, selectors, queues, configuration space, `interrupt_status` | register writes, `ack_device_status` | `VirtioMmio` (partly) |
| Console | `virtio-console/src/console.rs` | input buffer, output | `enqueue_data`, `available_capacity`, `clear_input_buffer`, `process_receiveq_chain`, `process_transmitq_chain` | `Console` |
| `QueueSync` | `virtio-queue/src/queue_sync.rs` | a `Queue` under a mutex | the same, each under the lock | `Virtqueue` (its threads) |
| Block device | `virtio-blk/src/*.rs` | backing file, features | `Request::parse`, `process_request` (`execute`) | `BlkDevice` |
| Vsock packets | `virtio-vsock/src/packet.rs` | header, header and data slices | `from_tx_virtq_chain`, `from_rx_virtq_chain`, `new`, the setters, `set_header_from_raw` | `VsockPacket` |
| Packed descriptors, bindings, mocks | `desc/packed.rs`, `virtio-bindings`, `mock.rs` | none | data types, generated code, test support | not modelled |

How the parts interact: the driver writes the MMIO registers (`VirtioMmio`),
which configure queues (`QueueConfig`); when it sets DRIVER_OK the device is
activated and serves each queue in a loop (`Virtqueue`); a chain taken from the
available ring is walked (`DescriptorChain`), read and written (`ChainConsumer`)
by a device (`Console`, `BlkDevice`, `VsockPacket`) and returned through the used ring.

What makes the code hard: two sides that share memory and suppress each other's
notifications with stores and loads of different fields; threads that share a
queue with a lock per call; 16-bit indices that
wrap; iterators that hold an old index; calls that fail half-way; tables and
registers under the control of the other side; state that is saved without one
of its counters. The list, with the line where each point bites and the
properties that cover it, is `hazards` in `PROJECT.json`.

## 2. Modules

**`WrapIndex`** — the arithmetic of ring indices: `WAdd`, `WSub` are the
operations of `Wrapping<u16>`, `Slot` is `index % size`, `Window(from, to)` the
indices between two others, `Held` and `Entries` what a ring has there. `IdxMod`
stands for 2^16 and `QSize` for the queue size. The assumption that the size divides the modulus at least twice is what
`try_set_size` guarantees (a power of two, at most 2^15).

**`Virtqueue`** — the threads of a device that serve one queue, next to the
driver. `Threads` is any set; one thread is a device with a plain `Queue`,
several share a `QueueSync`. One action is one access to guest memory, so a
method with several accesses is several steps, and the driver may run between
them. Each thread runs the loop of the example in the documentation of `Queue`
(lines 57–73), generalised in what the methods allow: one iterator may yield
several chains (`Keep`), chains complete in any order and while others are
fetched, `needs_notification` may be called once for a batch, a chain just
fetched may be put back (`GoToPreviousPosition`). `dpc[t]` is the place in the
loop: `disable → iter → next → popped → … → use → store → check → notify →
… → enable → fence → asleep`. `enable_notification` is two steps with the fence
between them, `add_used` is two steps (element, index).

*The lock.* `QueueSync` locks its mutex for one call, or for as long as an
iterator lives. `Locked` are the places inside such a call, and `LockState(t)`
says that no other thread is in one. Between two calls any thread may go on: one
may fetch while another adds, the answer of one `needs_notification` covers the
entries of all, and one may switch notifications off again while another falls
asleep. A doorbell wakes one thread.

*Memory ordering.* A store of the device to `flags`, `avail_event` or `idx`
becomes visible some time later (`posted_event`, `posted_flags`, and
`next_used` for `idx`; actions `PublishNotification`, `PublishUsedIdx`). The
`SeqCst` fence waits until everything is visible; the Release store of `idx` is
visible only after the stores before it. Without the fences both notification
protocols lose a signal in the model. The driver's own accesses are in order:
it is taken to have the barriers the standard asks for.

*The driver* (external) offers only heads it owns, decides on the doorbell
after a batch with the rule of the standard, and reaps the used ring after an
interrupt: take entries, set `used_event`, look again. Both ways of notification
(event indices and flags) are covered; without event indices the device always
interrupts, as `needs_notification` then answers true.

The queue of this module has been set up: it is ready and its rings are in guest memory,
so the early errors of `iter` (`QueueNotReady`, a load that fails) are left out here.
Accesses that fail are in `UsedNotification`, registers and `reset` in `QueueConfig`.

**`ChainHandOff`** — what the queue promises: a FIFO of offered chains, a set of
chains with the device, a FIFO of used ones, and five moves (offer, take, give
back, complete, reap).
`Virtqueue!ImplementsHandOff` maps the ring windows to the FIFOs.

**`UsedNotification`** — `add_used` and `needs_notification` with accesses that
fail separately, `reset`, and save and restore through `QueueState`.
`used_event` takes any value between calls, so the driver is not trusted here.

**`QueueConfig`** — the queue's registers as a record; writes of either half of
an address or both, in any order, `reset`, and restore of a saved state with any
one field replaced. `Accesses` lists the addresses and lengths all operations
use, to compare with `is_valid`. `HalfMod` stands for 2^32.

**`DescriptorChain`** — `next` over tables with arbitrary content, one main and
one indirect. `tables` is chosen in `Init` and does not change; an indirect descriptor may have
the NEXT flag too, which `next` then ignores. The bound of
`u16::MAX` for indirect tables is `MaxTable` and the 32-bit byte count is modulo
`ByteMod`.

**`ChainConsumer`** — Reader and Writer as sequences of slices. A byte is known
by its place in the stream of the chain, and a slice is the place of its first
byte and its length, so that the properties can say which byte is handed out.
Calls take `&mut self`, so one is made at a time; `pc` is the loop it is in, and
each turn is a step: `StartNew`, `Collect`, `EndNew` are the constructors (which
fail for an address without memory or a sum above `MaxUsize`), `CountAvailable`
is the fold of `available_bytes`, `Gather`, `Copy`, `Pop` are the loops of
`consume` with the closure between them, `Position` is the search of `split_at`
with the split after it. `call` holds the locals. The descriptors are chosen one
by one, so all chains of up to `MaxDescs` selected descriptors are tried.

**`VirtioMmio`** — the register writes of `VirtioMmioDevice::write` with
`ack_device_status`, over features as a set with a page each. The driver writes
any value to any register at any time, so any subset of status bits. What
`set_size` and the addresses do to a queue is `QueueConfig`; here a queue has
one opaque register value. `activate` may fail. `reset` belongs to the device's
implementation (external): a successful one is taken to renew status, features
and queues, and a failed one to leave all as it is. `activations` and `live` are
history variables. `interrupt_status` is an atomic that a device thread shares
with the register access: the thread (external) sets a bit and then raises the
interrupt, the driver's handler reads the register, acknowledges what it has
read and deals with it, and each of these is a step of its own. `due` are the
events not dealt with yet.

**`Console`** — the input buffer between producer threads and the receive
queue. Every method holds the mutex to its end. `process_receiveq_chain` is a
step per descriptor (`StartReceive`, `Send`, `EndReceive`) with `receiving` as the
mutex, the others are one step; what a
producer has learnt from `available_capacity` is in `free_seen`. Bytes are numbered in the
order in which they were enqueued. The bytes of a write to guest memory that fails count as
dropped. A chain of the transmit queue is written to the output descriptor by
descriptor, each followed by a flush; `TxDescriptor` says what
`write_volatile_to` and the sink (external) do with it: take it all, take less
without an error, fail after some bytes, or fail to flush.

**`VsockPacket`** — the memory of one packet. `TxHead`/`TxData` and
`RxHead`/`RxData` are the two halves of `from_tx_virtq_chain` and
`from_rx_virtq_chain`, split where the header has been read, so that the driver
can write to the header between the check of the length and its use
(`DriverWrites`). Descriptors take every address, length, direction and link.
The header is reduced to `len` and `flags`, and exists as in the code twice:
`header` in the packet, `mem` in memory. `announced` and `agree` are history
variables. `ZeroHeader` is the device (not the crate) that clears the header before it
uses the setters, as the example of `from_rx_virtq_chain` shows (lines 550–553): only
with this step does a packet made by `from_rx_virtq_chain` or `new` agree with memory as
a whole.

**`BlkDevice`** — a block request from the chain to the used length, in steps; `pc`
says which loop of the code is running. `ParseHeader`, `ParseData`, `ParseStatus`
and `ParseCut` are `Request::parse` on one descriptor after the other; `Execute` is
`execute` up to its loop (seek, checks, sync). `In`, `Out` and `GetDeviceID` are one
turn of the loop over the data buffers, `StartBuffer`, `ReadSegment` and `EndBuffer`
the turns of the two nested loops of discard and write zeroes, `WriteStatus` the rest
of `process_request`; `Complete` stands for the device that returns the chain. `call`
holds the locals and the file's cursor. The device owns the file and
nothing else acts on it. Guest memory belongs to the driver: a segment is
chosen when it is read. Lengths and positions are in units, a part of a sector, so
that lengths can be misaligned and buffers can end inside a sector, and the file can
end with part of a sector. A buffer carries how much of it is in guest memory. What
the file does is chosen at each call on it: it refuses to seek, to sync or to make a
hole, or fails after a number of units. `Turn` keeps apart what was moved and what
was counted, because a failure of guest memory (`PartialBuffer`) is counted and one
of the file is not. `moved` and `segs` are history variables: the units moved and the
segments acted on. A buffer that is not all in guest memory may
also end behind the address space, which `checked_add` notices before its first
segment (`overflow`). A data buffer knows how many units come before it. A
zero-length buffer is taken to lie in guest memory. The
shift `sector << 9` keeps all bits here: a sector for which it would not is far
behind the last one, and `check_access` compares the sector itself.

Definitions named after a bug (with a comment that starts `Bug:`) are variants
of the operation that follows them. No specification uses them: they show that
each property notices a plausible mistake.

## 3. What is checked

Each `MC…` module gives its component's constants their values through the `.cfg` of the
same name.

| Run (`.cfg`) | Instance | Shows |
|---|---|---|
| `MCVirtqueue` | two threads, queue of 2, indices modulo 4 | `HeadsConserved`, `NoLostKick`, `NoLostInterrupt`, `UsedEntriesStable`, the refinement `ImplementsHandOff` |
| `MCVirtqueueLive` | two threads, queue of 1, one put-back | `OffersTaken`, `UsedTaken` under `FairSpec`, and the inductive invariant `IInv` |
| `MCUsedNotification` | queue of 4, indices modulo 8, 7 additions between checks | `AnswerExact` |
| `MCQueueConfig` | one memory region, sizes and address halves around the limits | `WellFormed`, `ValidQueueInMemory`, `Restorable` |
| `MCDescriptorChain` | tables of 2 and 2, at most 5 bytes per chain | `ChainBounded`, `LinksFollowed`, `StopsOnlyForFault`, `NoneIsFinal` |
| `MCChainConsumer` | 3 descriptors of up to 2 bytes, 3 consumers, `usize` up to 5 | `BytesPartitioned`, `AvailableExact`, `ConsumesAll`, `SplitExact` |
| `MCVirtioMmio` | two features on two pages (one offered), two queues, one interrupt bit, one byte of configuration space | `NegotiationSound`, `ActivatedOnce`, `LiveQueuesFrozen`, `EventsNotLost`, `FailedIsFinal` |
| `MCBlkDevice` | a file of 2½ sectors, up to 2 data buffers of up to 2 segments each, 3 feature sets, a file that fails at any unit | `AlwaysAnswered`, `OkMeansDone`, `UsedLengthIsWritten`, `RemainderInvisible`, `OnlyNamedChange` |
| `MCConsole` | capacity 3, 5 bytes in, 3 bytes out, descriptors of up to 2 bytes, chains of any length | `BytesInOrder`, `CapacityPromise`, `ReportedDelivered`, `TransmitInOrder` |
| `MCVsockPacket` | header of 1 byte, payload of at most 2, descriptors of up to 4, 7 addresses in two regions | `SlicesInChain`, `PayloadAsAnnounced`, `CopiesAgree` |

The runs of `DescriptorChain`, `VirtioMmio` and `BlkDevice` also
check `TypeOK`, where it says that a counter or a length stays in range.

Two more runs end in a counterexample on purpose. Each states a sentence of
the documentation that the code does not keep (`findings` in `PROJECT.json`):

* `MCQueueConfigHole` — `is_valid` tests the address after the end of each part,
  not the part; with a hole in guest memory it accepts a queue in the hole.
* `MCDescriptorChainLength` — with an indirect table a chain has more
  descriptors than the queue size.

The models follow the code where documentation reads differently; these places
have no run of their own:

* the comment on `Reader` says that it stops at the first writable descriptor,
  while `readable()` skips that descriptor and goes on (`ChainConsumer!Selected`);
* the comment on `consume` promises slices of at most `count` bytes together,
  while the last slice is given whole (`ChainConsumer!Gather`, `Copy`);
* the comment on `num_added` (`queue.rs` 94–95) says "since the last
  `needs_notification`", while the counter is only reset with event indices and
  is not part of `QueueState`, so a restore starts from 0
  (`Virtqueue!NeedsNotification`, `UsedNotification!RestoreQueue`);
* `from_rx_virtq_chain` documents that `max_data_size` is the maximum size of the
  payload and that there must be two descriptors, while a packet in one descriptor
  is accepted and its payload not compared with the maximum (`packet.rs` 605;
  `PayloadAsAnnounced` says what holds);
* the comment on `output` (`console.rs` 119) says that all data of the transmit
  queue is written to it, while the count that `write_volatile_to` returns is not
  looked at (`short` in `Console`);
* `process_request` documents the total number of bytes written, while the bytes
  that a failing file delivered into the current buffer are not counted
  (`BlkDevice!Turn`; `UsedLengthIsWritten` says "at most" there).

### Bounds

* `QSize = 2`, `IdxMod = 4`: the smallest queue in which two chains can be in
  different places and complete out of order, with indices that wrap after two
  rounds. The model has no other bound on how long it runs. Two threads are enough
  for every pair of calls to interleave; the proofs cover any number. `MaxBatch`
  bounds the additions of one thread between its checks, so with two threads
  several entries are unchecked even for `MaxBatch = 1`; `MaxBack` bounds how
  often a chain is put back. Larger instances were checked once and hold: one
  thread with a queue of 2, `MaxBatch = 2` and one put-back (`IInv`, 3.3 million
  states), two threads with a queue of 2 (`IInv`, 9.3 million), two threads with a
  queue of 1, `MaxBatch = 2` and one put-back (liveness, 2.6 million).
* Two features, one that the device offers and one that it does not, on the two
  pages. With a third one, offered as well, `MCVirtioMmio` was checked once (2.4
  million states).
* One producer in `MCConsole`: anyone may enqueue at any time, a producer only
  remembers what it saw.
* In `MCVsockPacket` a descriptor can begin and end at, before and after each end of
  a region and of the address space, and its length can be below the header's, equal
  to it, and on both sides of header plus maximum.
* `MaxAdds = IdxMod - 1` is the most for which the answer of
  `needs_notification` can be right: with `IdxMod` additions `num_added` is zero
  again.
* Memory in `MCQueueConfig` ends so that at some of the addresses written a ring
  of one element fits and a ring of two does not, or fits but for its last field.
* Tables of two descriptors already have loops, links out of range, an indirect
  table after a direct descriptor, and nested indirect descriptors; `ByteMod = 6` is
  reached by two descriptors. `TableLens` has an empty table, half a descriptor, one, two
  (the longest that is accepted) and three.
* Three descriptors of zero to two bytes have empty slices in each position and
  cuts inside a slice, at its ends and past the end of the stream; together they
  can exceed `MaxUsize = 5`, which makes the constructor fail.
* Five bytes into a buffer of three: it fills up, empties and fills again.
* Two buffers and two segments in a buffer let a request fail in, before and after
  its second part, and end in the middle of a buffer. `MaxU32 = 3` is odd, as 2^32 - 1 is, and is less than the two
  sectors a read may ask for; at every other limit there is a sector or segment on each side.
  A read that fills its first buffer and stops inside its second does not fit this instance;
  one with sectors of 3 units, a file of 7 and `MaxU32 = 4`, where it happens, was checked
  once and holds (14.6 million states), and `UsedLengthIsTrue` covers every size.

### Fairness

`OffersTaken` and `UsedTaken` assume weak fairness of the device (as long as
some thread can run, some thread runs; nothing is assumed on which of them gets
the lock, a `std::sync::Mutex` not being fair), of the driver's handlers other
than offering, and of the publication of stores (processors make stores visible
in finite time). Nothing makes the driver offer chains. Weak fairness is enough:
the put-backs, the only way to run without progress, are bounded.

Deadlock is checked in every run: the two sides of the queue never wait for
each other with nothing left to do.

## 4. What is proved

All theorems hold for every value of the constants that satisfies the named
assumptions of the modules (`SizeAssumption`, `BatchAssumption`, …).

* **`VirtqueueProofs`**, for any number of threads. `Invariance` proves
  `Spec => []IInv`; `TypeCorrect`, `HeadsAreConserved`, `IterAlwaysAccepts`,
  `KicksAreNotLost`, `InterruptsAreNotLost` and `UsedEntriesAreStable` follow
  from it. The properties are not inductive by themselves. `IInv` adds three
  things. `PlacesInv`: the four places of a head are disjoint and no ring window
  holds a head twice — conservation is a count, and only with distinctness does
  moving one entry change the count by one. `ControlInv`: what each thread knows
  at its place in the loop, above all that the iterator's `last_index` lies
  between `next_avail` and `avail_idx`, and that the chain in hand is the one at
  the position before `next_avail` (so putting it back restores the window); that
  one thread at most is inside a call, which is what lets these facts survive the
  steps of the others; that `num_added` is the number of unchecked entries of all
  threads; and that the notification fields are visible when all sleep.
  `SignalInv`: how far each side may lag without a signal: entries the sleeping
  device has not seen are at most those the driver has not decided on, and the
  entries a waiting driver has not taken are at most those not checked yet.
  `ImplementsChainHandOff` proves the refinement: from `IInv`, each step maps to a
  step of `ChainHandOff` or changes none of its variables; the
  ring windows are sequences there. The index arithmetic is in **`WrapIndexProofs`**
  (different indices within a queue have different slots; a window grows and
  shrinks by one index at its ends, and the sequence of its entries by one entry).
* **`QueueProofs`**, on two modules. For `UsedNotification`, `NotificationIsExact`:
  `AnswerExact` when `MaxAdds < IdxMod`; and `CountsTypeCorrect`. The invariant
  `CountInv` says that, with event indices and unless a restore forgot unchecked
  entries, `num_added` is the distance from `checked` to `next_used`. For
  `QueueConfig`, `TypeCorrect`, `QueueIsWellFormed`, `QueueIsRestorable`; and
  `ValidIsInMemory`: in guest memory of one region that starts at address 0,
  what `is_valid` accepts is in memory.
* **`DescriptorChainProofs`**, for tables of any size and content. `TypeCorrect`,
  `ChainIsBounded` and `EndIsFinal` come from an invariant that bounds
  `Len(yielded) + ttl` and says that a chain whose last answer was None cannot be
  read on. `LinksAreFollowed` needs `Linked`: the chain is at the place to which
  the last descriptor points, or at the start of the indirect table found there.
  `StopsForFaultsOnly` covers walks that yield nothing too. As long as `ttl` is left, a
  descriptor that adds up is returned and an indirect one of a good length, in the main
  table, is switched to, and a chain at its end has done neither. The rest is about `ttl`,
  and needs a count: `Visited` says that either
  the next index was met before, or `ttl` and the number of *different* indices met
  add up to the size of the table. When `ttl` is used up, every index of the table
  has been met, the next one included, so the driver made a loop.
* **`ChainConsumerProofs`**, for chains, reads and splits of any number and size.
  `EachByteOnce`, `AvailableIsExact`, `ReadsInFull` and `SplitsWithinStream` are the
  four properties of the run. `ConsumerInv` says that the slices of each consumer
  tile the places from its position to its end (`Sound`), and what the locals
  mean in the middle of each loop (`Loop`): how many bytes the slices passed so far
  hold. The difficulty is `consume`, where the bytes handed out, the counter
  `bytes_consumed` and the slices change in three different loops; `Consistent(c, n,
  m, t)` says how far they are apart. That a position in a sequence of slices is the
  sum of the lengths before it would need induction over data; here each slice
  knows the place of its first byte, which makes the sum a local fact (`SoundStep`)
  and the turns of the loops the induction.
* **`DeviceProofs`**, on two modules. `VirtioMmio`: the invariant adds to the
  properties that queues have
  no event flag before FEATURES_OK is set and that each status bit comes with
  the ones before it; `TypeOK`, `ActivatedOnce`, `NegotiationSound`,
  `LiveQueuesFrozen` and `FailedIsFinal` follow. `EventsReachTheDriver` proves
  `EventsNotLost` for any set of interrupt bits; it needs to know that a handler
  that is not running has read nothing. `Console`, for any capacity, producers and
  chains: `BytesStayInOrder`, `CapacityIsKept` and `ReportsAreTrue` follow from
  `InputInv`, which adds that a call in its loop has written what it counted and not
  yet returned, and that what it counted and what waits fit the buffer;
  `TransmitsInOrder` follows from `OutputInv`, which adds that every byte in the
  sink and every byte left out was offered.
* **`VsockPacketProofs`**. `SlicesStayInChain`, `PayloadIsAsAnnounced` and
  `HeaderCopiesAgree` for any sizes, memory and flags. The invariant adds what is
  known between the two halves of the parsing: the first descriptor has been
  accepted, and the length kept in the packet is the one announced and within the
  maximum.

* **`BlkDeviceProofs`**, for any file, features, requests and failures of the file or of
  guest memory. `BlkInvariance` proves `Spec => []BlkInv`; `BlkTypeCorrect`,
  `RequestsAreAnswered`, `OkIsDone`, `UsedLengthIsTrue`, `RemainderStaysInvisible` and
  the action property `OnlyNamedUnitsChange` follow. The properties speak of the end of
  a request (`pc = "done"`), so `BlkInv` says what each loop has established.
  `DataSound`: the buffers follow each other without gaps. `Transferring`: the
  units moved are the content of the sectors (of the file as it is now, for a write)
  up to the place the loop has reached, `bytes_to_mem` and the cursor agree with that
  place, and the whole request lies in visible sectors, which `execute` checked before
  the loop and the cursor never leaves. `Segmenting`: each segment passed was acted on,
  the units they cover are visible (and zero, for write zeroes: later segments keep
  them so), and a whole number of segments is left of the buffer. `Answered`: what the
  status says is true, and one more byte fits the used length. That last fact rests on
  `MaxU32 % SectorUnits # 0` (2^32 - 1 is not a number of whole sectors): the code
  compares the length of a read with `u32::MAX` and adds the status byte later. As in
  `ChainConsumer`, the loops are steps and a buffer knows its place in the stream, so
  that no induction over data is needed.

Only model-checked: the liveness properties `OffersTaken` and `UsedTaken`. They
rest on fairness, which the prover cannot reason about.

## 5. Not modelled

* `virtio-bindings`: generated constants and C layouts, most of the lines of the
  repository, without operations. Only constants the other crates use appear.
* The packed layout (`desc/packed.rs`): data types that no operation uses.
* Reads of the MMIO registers other than the interrupt status, and the selector
  of the device features that only such a read depends on: they change nothing.
  QUEUE_NOTIFY calls `queue_notify` of the device, which is the doorbell in
  `Virtqueue`.
* `mock.rs` and the test drivers: test support. The driver in the models is the
  one the standard describes, not the mock.
* Traits, error types and their texts, logging, and the encodings of `serde` and
  `versionize`, whose code is generated by macros; what a restored state may hold
  is in `QueueConfig`.
* Compositions of a whole device. The parts share little: a chain's content does
  not influence the ring protocol, and `VirtioMmio` passes values to `QueueConfig`
  without looking at them. `is_valid` is left to the device's `activate`, which is
  not in the repository, so that an activated queue was valid cannot be stated
  about this code.
