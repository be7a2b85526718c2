----------------------------- MODULE Virtqueue -----------------------------
(***************************************************************************)
(* The threads of a device that serve one split virtqueue, running next to *)
(* the driver that fills the queue.  The two sides share only the rings in *)
(* guest memory, a doorbell (`kick`, driver to device) and an interrupt    *)
(* (`irq`, device to driver); the threads share a QueueSync, whose lock is *)
(* held for the length of one call, or for the life of an iterator.  A     *)
(* device with one thread is a device with a plain virtio_queue::Queue.    *)
(*                                                                         *)
(* Device steps are single accesses to guest memory: a method that makes   *)
(* several accesses is several steps and the driver may run between them.  *)
(* A thread is the loop of the example in the documentation of Queue,      *)
(* generalised in the ways the methods allow: one iterator may yield       *)
(* several chains, chains may be completed in any order and while others   *)
(* are being fetched, needs_notification may be called once for a batch of *)
(* add_used calls, and a chain just fetched may be put back.               *)
(*                                                                         *)
(* Memory ordering.  A store the device makes to the flags, avail_event or *)
(* idx field of the used ring becomes visible to the driver some time      *)
(* after the step that makes it; a SeqCst fence waits until all are        *)
(* visible, those of other threads made before they released the lock      *)
(* included, and the Release store of idx is visible only after the stores *)
(* before it.  One pending store per field is enough, because the code has *)
(* a fence between any two stores to a field with a load between them that *)
(* could tell them apart.                                                  *)
(***************************************************************************)
EXTENDS WrapIndex, FiniteSets

CONSTANTS
  Threads,    \* the threads of the device
  MaxBatch,   \* most add_used (or offers) of a thread between two notification checks
  MaxBack     \* bound: how often a chain is put back

ASSUME BatchAssumption ==
  /\ MaxBatch \in 1 .. IdxMod - 1
  /\ MaxBack \in Nat

Heads == Slots

VARIABLES
  \* Available ring, written by the driver.
  avail_idx, avail_ring, used_event,
  \* Used ring, written by the device.
  used_idx, used_ring, avail_event, used_flags,
  \* Stores to the used ring not yet visible (idx: the store of next_used).
  posted_event, posted_flags,
  \* The device's Queue object.
  next_avail, next_used, num_added, event_idx_enabled,
  \* The device's threads.
  dpc,         \* where each stands in the service loop
  held,        \* chains each has fetched and not yet added to the used ring
  batch,       \* add_used calls of each since its last needs_notification
  last_index,  \* AvailIter::last_index (0 when there is no iterator)
  cur,         \* the chain in the hand of the thread with the lock (0: none)
  unchecked,   \* add_used calls of all since the last needs_notification
  backs,       \* how often a chain was put back
  \* The driver.
  free,        \* heads it may offer
  last_used,   \* the used ring index it reads next
  drv_added,   \* heads offered since it last decided on a doorbell
  upc,         \* where its used-ring side stands
  \* The two signals.
  kick, irq

availVars == <<avail_idx, avail_ring, used_event>>
usedVars == <<used_idx, used_ring, avail_event, used_flags>>
postedVars == <<posted_event, posted_flags>>
queueVars == <<next_avail, next_used, num_added, event_idx_enabled>>
devVars == <<dpc, held, batch, last_index, cur, unchecked, backs>>
drvVars == <<free, last_used, drv_added, upc>>
vars == <<availVars, usedVars, postedVars, queueVars, devVars, drvVars, kick, irq>>

NO_NOTIFY == 1    \* VRING_USED_F_NO_NOTIFY

DevicePC == {"disable", "iter", "next", "popped", "use", "store", "check",
             "notify", "enable", "fence", "asleep", "failed"}
DriverPC == {"idle", "reap", "recheck"}

\* A thread is here only between two accesses of one call or of one iterator.
Locked == {"next", "popped", "store", "fence"}

\* A queue that has been set up, with nothing in it, and a driver that waits
\* for the first used entry.
Init ==
  /\ avail_idx = 0 /\ avail_ring = [s \in Slots |-> 0] /\ used_event = 0
  /\ used_idx = 0 /\ used_ring = [s \in Slots |-> 0]
  /\ avail_event = 0 /\ used_flags = 0
  /\ posted_event = 0 /\ posted_flags = 0
  /\ next_avail = 0 /\ next_used = 0 /\ num_added = 0
  /\ event_idx_enabled \in BOOLEAN
  /\ dpc = [t \in Threads |-> "disable"]
  /\ held = [t \in Threads |-> {}] /\ batch = [t \in Threads |-> 0]
  /\ last_index = 0 /\ cur = 0 /\ unchecked = 0 /\ backs = 0
  /\ free = Heads /\ last_used = 0 /\ drv_added = 0 /\ upc = "idle"
  /\ kick = FALSE /\ irq = FALSE
-----------------------------------------------------------------------------
\* Visibility of the device's stores.

\* fence(SeqCst) has completed: no store of the device is pending.
Fence ==
  /\ used_idx = next_used
  /\ avail_event = posted_event
  /\ used_flags = posted_flags

PublishUsedIdx ==
  /\ used_idx # next_used
  /\ avail_event = posted_event /\ used_flags = posted_flags
  /\ used_idx' = next_used
  /\ UNCHANGED <<availVars, used_ring, avail_event, used_flags, postedVars,
                 queueVars, devVars, drvVars, kick, irq>>

PublishNotification ==
  /\ <<avail_event, used_flags>> # postedVars
  /\ avail_event' = posted_event /\ used_flags' = posted_flags
  /\ UNCHANGED <<availVars, used_idx, used_ring, postedVars, queueVars,
                 devVars, drvVars, kick, irq>>
-----------------------------------------------------------------------------
\* The device.

\* Bug: a call does not wait for the lock.
LockStateNot(t) == TRUE

\* QueueSync::lock_state: thread t can have the lock.
LockState(t) == \A u \in Threads \ {t} : dpc[u] \notin Locked

Goto(t, x) == dpc' = [dpc EXCEPT ![t] = x]

\* Queue::set_notification: which field it stores to, and what.
SetNotification(enable) ==
  IF enable
  THEN IF event_idx_enabled
       THEN posted_event' = next_avail /\ UNCHANGED posted_flags
       ELSE posted_flags' = 0 /\ UNCHANGED posted_event
  ELSE IF event_idx_enabled
       THEN UNCHANGED postedVars
       ELSE posted_flags' = NO_NOTIFY /\ UNCHANGED posted_event

DisableNotification(t) ==
  /\ dpc[t] = "disable" /\ LockState(t)
  /\ SetNotification(FALSE)
  /\ Goto(t, "iter")
  /\ UNCHANGED <<availVars, usedVars, queueVars, held, batch, last_index, cur,
                 unchecked, backs, drvVars, kick, irq>>

\* Queue::iter and AvailIter::new: load avail_idx (Acquire) and refuse an index
\* more than a queue ahead.  The queue of this module is ready and its rings are in
\* memory, so that QueueNotReady and a load that fails do not come up.
Iter(t) ==
  /\ dpc[t] = "iter" /\ LockState(t)
  /\ IF WSub(avail_idx, next_avail) > QSize
     THEN Goto(t, "failed") /\ UNCHANGED last_index
     ELSE Goto(t, "next") /\ last_index' = avail_idx
  /\ UNCHANGED <<availVars, usedVars, postedVars, queueVars, held, batch, cur,
                 unchecked, backs, drvVars, kick, irq>>

\* Where a thread goes when there is nothing to fetch: it finishes what it holds,
\* and goes for sleep only when it holds nothing.
AfterNone(t) ==
  IF held[t] # {} THEN "use" ELSE IF batch[t] > 0 THEN "check" ELSE "enable"

\* Bug: the newest entry is fetched instead of the oldest.
AvailNextNewest(t) ==
  /\ dpc[t] = "next"
  /\ \/ /\ next_avail = last_index
        /\ Goto(t, AfterNone(t))
        /\ last_index' = 0
        /\ UNCHANGED <<next_avail, held, cur>>
     \/ /\ next_avail # last_index
        /\ cur' = avail_ring[Slot(WSub(last_index, 1))]
        /\ held' = [held EXCEPT ![t] = @ \cup {cur'}]
        /\ next_avail' = WAdd(next_avail, 1)
        /\ Goto(t, "popped")
        /\ UNCHANGED last_index
  /\ UNCHANGED <<availVars, usedVars, postedVars, next_used, num_added,
                 event_idx_enabled, batch, unchecked, backs, drvVars, kick, irq>>

\* AvailIter::next.
AvailNext(t) ==
  /\ dpc[t] = "next"
  /\ \/ /\ next_avail = last_index
        /\ Goto(t, AfterNone(t))
        /\ last_index' = 0
        /\ UNCHANGED <<next_avail, held, cur>>
     \/ /\ next_avail # last_index
        /\ cur' = avail_ring[Slot(next_avail)]
        /\ held' = [held EXCEPT ![t] = @ \cup {cur'}]
        /\ next_avail' = WAdd(next_avail, 1)
        /\ Goto(t, "popped")
        /\ UNCHANGED last_index
  /\ UNCHANGED <<availVars, usedVars, postedVars, next_used, num_added,
                 event_idx_enabled, batch, unchecked, backs, drvVars, kick, irq>>

\* The thread takes the chain on, and asks the same iterator for another or
\* drops the iterator and the lock.
Keep(t) ==
  /\ dpc[t] = "popped"
  /\ \/ Goto(t, "next") /\ UNCHANGED last_index
     \/ Goto(t, "use") /\ last_index' = 0
  /\ cur' = 0
  /\ UNCHANGED <<availVars, usedVars, postedVars, queueVars, held, batch, unchecked,
                 backs, drvVars, kick, irq>>

\* Bug: the position does not move, and the chain is gone.
GoToPreviousStays(t) ==
  /\ dpc[t] = "popped"
  /\ backs < MaxBack
  /\ held' = [held EXCEPT ![t] = @ \ {cur}]
  /\ backs' = backs + 1
  /\ Goto(t, "next")
  /\ cur' = 0
  /\ UNCHANGED <<availVars, usedVars, postedVars, queueVars, batch, last_index, unchecked,
                 drvVars, kick, irq>>

\* AvailIter::go_to_previous_position.
GoToPreviousPosition(t) ==
  /\ dpc[t] = "popped"
  /\ backs < MaxBack
  /\ next_avail' = WSub(next_avail, 1)
  /\ held' = [held EXCEPT ![t] = @ \ {cur}]
  /\ backs' = backs + 1
  /\ Goto(t, "next")
  /\ cur' = 0
  /\ UNCHANGED <<availVars, usedVars, postedVars, next_used, num_added,
                 event_idx_enabled, batch, last_index, unchecked, drvVars, kick, irq>>

\* Where a thread may go when it holds the chains in s and owes the driver a
\* check for n used entries.
Resume(s, n) ==
  (IF n > 0 THEN {"check"} ELSE {})
    \cup (IF n < MaxBatch THEN {"iter"} ELSE {})
    \cup (IF n < MaxBatch /\ s # {} THEN {"use"} ELSE {})

\* Bug: idx is stored before the element is written.
AddUsedIdxFirst(t, h) ==
  \/ /\ dpc[t] = "use" /\ LockState(t) /\ h \in held[t]
     /\ unchecked < IdxMod - 1
     /\ next_used' = WAdd(next_used, 1)
     /\ num_added' = WAdd(num_added, 1)
     /\ cur' = h
     /\ Goto(t, "store")
     /\ UNCHANGED <<used_ring, held, batch, unchecked>>
  \/ /\ dpc[t] = "store" /\ h = cur
     /\ used_ring' = [used_ring EXCEPT ![Slot(WSub(next_used, 1))] = h]
     /\ held' = [held EXCEPT ![t] = @ \ {h}]
     /\ batch' = [batch EXCEPT ![t] = @ + 1]
     /\ unchecked' = unchecked + 1
     /\ \E x \in Resume(held'[t], batch'[t]) : Goto(t, x)
     /\ cur' = 0
     /\ UNCHANGED <<next_used, num_added>>

\* Queue::add_used: write the element, then advance and store idx (Release).  The
\* threads never add 2^16 entries without one call of needs_notification.
AddUsed(t, h) ==
  \/ /\ dpc[t] = "use" /\ LockState(t) /\ h \in held[t]
     /\ unchecked < IdxMod - 1
     /\ used_ring' = [used_ring EXCEPT ![Slot(next_used)] = h]
     /\ cur' = h
     /\ Goto(t, "store")
     /\ UNCHANGED <<next_used, num_added, held, batch, unchecked>>
  \/ /\ dpc[t] = "store" /\ h = cur
     /\ next_used' = WAdd(next_used, 1)
     /\ num_added' = WAdd(num_added, 1)
     /\ held' = [held EXCEPT ![t] = @ \ {h}]
     /\ batch' = [batch EXCEPT ![t] = @ + 1]
     /\ unchecked' = unchecked + 1
     /\ \E x \in Resume(held'[t], batch'[t]) : Goto(t, x)
     /\ cur' = 0
     /\ UNCHANGED used_ring

UseChain(t, h) ==
  /\ AddUsed(t, h)
  /\ UNCHANGED <<availVars, used_idx, avail_event, used_flags, postedVars, next_avail,
                 event_idx_enabled, last_index, backs, drvVars, kick, irq>>

\* Bug: off by one, used_event is taken for the last entry already signalled.
EventCrossedLate ==
  LET old == WSub(next_used, num_added)
  IN  WSub(next_used, used_event) < WSub(next_used, old)

\* Did used_event lie among the entries added since the last check?
EventCrossed ==
  LET old == WSub(next_used, num_added)
  IN  WSub(WSub(next_used, used_event), 1) < WSub(next_used, old)

\* Bug: no fence between the store of idx and the load of used_event.
NeedsNotificationUnfenced(t) ==
  /\ dpc[t] = "check" /\ LockState(t)
  /\ batch' = [batch EXCEPT ![t] = 0]
  /\ unchecked' = 0
  /\ num_added' = IF event_idx_enabled THEN 0 ELSE num_added
  /\ IF event_idx_enabled /\ ~EventCrossed
     THEN \E x \in Resume(held[t], 0) : Goto(t, x)
     ELSE Goto(t, "notify")
  /\ UNCHANGED <<availVars, usedVars, postedVars, next_avail, next_used,
                 event_idx_enabled, held, last_index, cur, backs, drvVars, kick, irq>>

\* Queue::needs_notification.
NeedsNotification(t) ==
  /\ dpc[t] = "check" /\ LockState(t)
  /\ Fence
  /\ batch' = [batch EXCEPT ![t] = 0]
  /\ unchecked' = 0
  /\ num_added' = IF event_idx_enabled THEN 0 ELSE num_added
  /\ IF event_idx_enabled /\ ~EventCrossed
     THEN \E x \in Resume(held[t], 0) : Goto(t, x)
     ELSE Goto(t, "notify")
  /\ UNCHANGED <<availVars, usedVars, postedVars, next_avail, next_used,
                 event_idx_enabled, held, last_index, cur, backs, drvVars, kick, irq>>

\* The thread interrupts the driver.
Notify(t) ==
  /\ dpc[t] = "notify"
  /\ irq' = TRUE
  /\ \E x \in Resume(held[t], 0) : Goto(t, x)
  /\ UNCHANGED <<availVars, usedVars, postedVars, queueVars, held, batch, last_index,
                 cur, unchecked, backs, drvVars, kick>>

\* Bug: no fence between the store of avail_event or flags and the load of idx.
EnableNotificationUnfenced(t) ==
  /\ \/ /\ dpc[t] = "enable" /\ LockState(t)
        /\ SetNotification(TRUE)
        /\ Goto(t, "fence")
     \/ /\ dpc[t] = "fence"
        /\ Goto(t, IF avail_idx # next_avail THEN "disable" ELSE "asleep")
        /\ UNCHANGED postedVars
  /\ UNCHANGED <<availVars, usedVars, queueVars, held, batch, last_index, cur,
                 unchecked, backs, drvVars, kick, irq>>

\* Bug: the available ring is not looked at again.
EnableNotificationBlind(t) ==
  /\ \/ /\ dpc[t] = "enable" /\ LockState(t)
        /\ SetNotification(TRUE)
        /\ Goto(t, "fence")
     \/ /\ dpc[t] = "fence"
        /\ Fence
        /\ Goto(t, "asleep")
        /\ UNCHANGED postedVars
  /\ UNCHANGED <<availVars, usedVars, queueVars, held, batch, last_index, cur,
                 unchecked, backs, drvVars, kick, irq>>

\* Queue::enable_notification: set_notification(true), fence, look again.
EnableNotification(t) ==
  /\ \/ /\ dpc[t] = "enable" /\ LockState(t)
        /\ SetNotification(TRUE)
        /\ Goto(t, "fence")
     \/ /\ dpc[t] = "fence"
        /\ Fence
        /\ Goto(t, IF avail_idx # next_avail THEN "disable" ELSE "asleep")
        /\ UNCHANGED postedVars
  /\ UNCHANGED <<availVars, usedVars, queueVars, held, batch, last_index, cur,
                 unchecked, backs, drvVars, kick, irq>>

\* The doorbell starts the loop of one thread again.
WakeUp(t) ==
  /\ dpc[t] = "asleep" /\ kick
  /\ kick' = FALSE
  /\ Goto(t, "disable")
  /\ UNCHANGED <<availVars, usedVars, postedVars, queueVars, held, batch, last_index,
                 cur, unchecked, backs, drvVars, irq>>

Thread(t) ==
  \/ DisableNotification(t) \/ Iter(t) \/ AvailNext(t) \/ Keep(t) \/ GoToPreviousPosition(t)
  \/ \E h \in Heads : UseChain(t, h)
  \/ NeedsNotification(t) \/ Notify(t) \/ EnableNotification(t) \/ WakeUp(t)

Device == \E t \in Threads : Thread(t)
-----------------------------------------------------------------------------
\* The driver (external): what the device's code relies on.

\* Write a head into the ring, then avail_idx.
Offer(h) ==
  /\ h \in free /\ drv_added < MaxBatch
  /\ avail_ring' = [avail_ring EXCEPT ![Slot(avail_idx)] = h]
  /\ avail_idx' = WAdd(avail_idx, 1)
  /\ free' = free \ {h}
  /\ drv_added' = drv_added + 1
  /\ UNCHANGED <<used_event, usedVars, postedVars, queueVars, devVars, last_used,
                 upc, kick, irq>>

\* Ring the doorbell unless the device asked not to be told.
KickCheck ==
  /\ drv_added > 0
  /\ drv_added' = 0
  /\ kick' = \/ kick
             \/ IF event_idx_enabled
                THEN WSub(WSub(avail_idx, avail_event), 1) < drv_added
                ELSE used_flags # NO_NOTIFY
  /\ UNCHANGED <<availVars, usedVars, postedVars, queueVars, devVars, free,
                 last_used, upc, irq>>

Interrupt ==
  /\ upc = "idle" /\ irq
  /\ irq' = FALSE
  /\ upc' = "reap"
  /\ UNCHANGED <<availVars, usedVars, postedVars, queueVars, devVars, free,
                 last_used, drv_added, kick>>

\* Take the used entries one by one; when there is none left, ask to be told
\* about the next one.
Reap ==
  /\ upc = "reap"
  /\ \/ /\ last_used # used_idx
        /\ free' = free \cup {used_ring[Slot(last_used)]}
        /\ last_used' = WAdd(last_used, 1)
        /\ UNCHANGED <<used_event, upc>>
     \/ /\ last_used = used_idx
        /\ used_event' = IF event_idx_enabled THEN last_used ELSE used_event
        /\ upc' = "recheck"
        /\ UNCHANGED <<free, last_used>>
  /\ UNCHANGED <<avail_idx, avail_ring, usedVars, postedVars, queueVars, devVars,
                 drv_added, kick, irq>>

\* Look again before waiting.
Recheck ==
  /\ upc = "recheck"
  /\ upc' = IF last_used # used_idx THEN "reap" ELSE "idle"
  /\ UNCHANGED <<availVars, usedVars, postedVars, queueVars, devVars, free,
                 last_used, drv_added, kick, irq>>

Driver ==
  \/ \E h \in Heads : Offer(h)
  \/ KickCheck \/ Interrupt \/ Reap \/ Recheck

Next == Device \/ Driver \/ PublishUsedIdx \/ PublishNotification

Spec == Init /\ [][Next]_vars

\* As long as a thread of the device can run one does, the driver's handlers run
\* on, and a store becomes visible after a finite time.  Nothing is said about who
\* gets the lock, and the driver need not offer anything.
Fairness ==
  /\ WF_vars(Device)
  /\ WF_vars(PublishUsedIdx) /\ WF_vars(PublishNotification)
  /\ WF_vars(KickCheck) /\ WF_vars(Interrupt) /\ WF_vars(Reap) /\ WF_vars(Recheck)

FairSpec == Spec /\ Fairness
-----------------------------------------------------------------------------
\* Properties.

\* The chains the device has, and those of the two rings that are on their way.
inflight == UNION {held[t] : t \in Threads}
AvailHeads == Held(avail_ring, next_avail, avail_idx)
UsedHeads == Held(used_ring, last_used, next_used)

TypeOK ==
  /\ {avail_idx, used_event, used_idx, avail_event, posted_event, next_avail,
      next_used, num_added, last_index, last_used} \subseteq Idx
  /\ {avail_ring, used_ring} \subseteq [Slots -> Heads]
  /\ {used_flags, posted_flags} \subseteq {0, NO_NOTIFY}
  /\ {event_idx_enabled, kick, irq} \subseteq BOOLEAN
  /\ dpc \in [Threads -> DevicePC] /\ upc \in DriverPC
  /\ held \in [Threads -> SUBSET Heads] /\ batch \in [Threads -> 0 .. MaxBatch]
  /\ free \subseteq Heads /\ cur \in Heads
  /\ unchecked \in Idx /\ drv_added \in 0 .. MaxBatch
  /\ backs \in 0 .. MaxBack

\* Every head is in exactly one place: with the driver, in the available ring
\* ahead of next_avail, with one thread of the device, or in the used ring not yet
\* taken by the driver.  AvailIter::next, go_to_previous_position and add_used
\* neither lose a chain nor hand one out twice, whatever the driver and the other
\* threads do between them.
HeadsConserved ==
  /\ \A t, u \in Threads : t # u => held[t] \cap held[u] = {}
  /\ free \cup inflight \cup AvailHeads \cup UsedHeads = Heads
  /\ Cardinality(free) + Cardinality(inflight) + WSub(avail_idx, next_avail)
       + WSub(next_used, last_used) = QSize

\* Queue::iter never finds avail_idx more than a queue ahead of next_avail
\* (InvalidAvailRingIndex) when the driver offers only heads it owns, also
\* after go_to_previous_position.
IterAccepts == \A t \in Threads : dpc[t] # "failed"

AllAsleep == \A t \in Threads : dpc[t] = "asleep"

\* When every thread has left the service loop because enable_notification
\* returned false, any entry in the available ring comes with a doorbell: one
\* that is ringing, or one the driver will decide on and then ring, because
\* the field enable_notification stored asks for it.  That one thread disables
\* notifications while another goes for sleep does no harm.
NoLostKick ==
  AllAsleep /\ avail_idx # next_avail =>
    \/ kick
    \/ /\ drv_added > 0
       /\ IF event_idx_enabled
          THEN WSub(WSub(avail_idx, avail_event), 1) < drv_added
          ELSE used_flags # NO_NOTIFY

\* When the driver waits for an interrupt and there are used entries it has not
\* taken, the interrupt is raised, or being raised, or some thread still has to
\* call needs_notification and the first call will answer true: the call of one
\* thread may answer for the entries of another, but none goes unanswered.
NoLostInterrupt ==
  upc = "idle" /\ next_used # last_used =>
    \/ irq
    \/ \E t \in Threads : dpc[t] = "notify"
    \/ /\ \E t \in Threads : batch[t] > 0
       /\ event_idx_enabled =>
            WSub(WSub(next_used, used_event), 1) < num_added

\* add_used never overwrites a used entry the driver can see and has not taken.
UsedEntriesStable ==
  [][\A x \in Window(last_used, used_idx) \cap Window(last_used', used_idx') :
       used_ring'[Slot(x)] = used_ring[Slot(x)]]_vars

\* The queue hands chains over as ChainHandOff says: AvailIter::next yields them
\* in the order they were offered, add_used returns each once, and nothing else
\* in the service loop or in the visibility of stores moves one.
HandOff == INSTANCE ChainHandOff WITH
  offered <- Entries(avail_ring, next_avail, avail_idx),
  taken   <- inflight,
  used    <- Entries(used_ring, last_used, next_used)
ImplementsHandOff == HandOff!Spec

\* Every chain offered is fetched by the device in the end: no notification
\* race in enable_notification leaves it in the ring.
OffersTaken ==
  \A h \in Heads : h \in AvailHeads ~> h \notin AvailHeads

\* Every used entry is taken by the driver in the end: no race between add_used,
\* needs_notification and the driver's used_event leaves it in the ring.
UsedTaken ==
  \A h \in Heads : h \in UsedHeads ~> h \notin UsedHeads
-----------------------------------------------------------------------------
\* The inductive invariant behind the safety properties.

\* Places: the four places of a head do not overlap and no ring holds one twice.
PlacesInv ==
  /\ HeadsConserved
  /\ Distinct(avail_ring, next_avail, avail_idx)
  /\ Distinct(used_ring, last_used, next_used)
  /\ free \cap inflight = {}
  /\ AvailHeads \cap (free \cup inflight \cup UsedHeads) = {}
  /\ UsedHeads \cap (free \cup inflight) = {}

\* Control: what the position of a thread in the service loop says about the
\* iterator, the chain in hand, the batch and the notification fields; that one
\* thread at most is inside a call; what the counters say about each other; and
\* what the driver sees when all threads are asleep.
ThreadInv(t) ==
  /\ dpc[t] # "failed"
  /\ dpc[t] \in {"next", "popped"} =>
       WSub(last_index, next_avail) <= WSub(avail_idx, next_avail)
  /\ dpc[t] = "popped" => cur \in held[t] /\ avail_ring[Slot(WSub(next_avail, 1))] = cur
  /\ dpc[t] = "store" => /\ cur \in held[t] /\ used_ring[Slot(next_used)] = cur
                         /\ unchecked < IdxMod - 1
  /\ dpc[t] \in {"iter", "next", "popped", "use", "store"} => batch[t] < MaxBatch
  /\ dpc[t] \in {"disable", "notify", "enable", "fence", "asleep"} => batch[t] = 0
  /\ dpc[t] = "fence" =>
       IF event_idx_enabled THEN posted_event = next_avail ELSE posted_flags = 0

LockInv == \A t, u \in Threads : dpc[t] \in Locked /\ dpc[u] \in Locked => t = u

CountInv ==
  /\ unchecked > 0 => \E t \in Threads : batch[t] > 0
  /\ event_idx_enabled => num_added = unchecked

QuietInv ==
  AllAsleep =>
    /\ IF event_idx_enabled THEN posted_event = next_avail ELSE posted_flags = 0
    /\ avail_event = posted_event /\ used_flags = posted_flags

ControlInv == (\A t \in Threads : ThreadInv(t)) /\ LockInv /\ CountInv /\ QuietInv

\* Signals: how far each side can be behind the other without a signal.
SignalInv ==
  /\ WSub(used_idx, last_used) <= WSub(next_used, last_used)
  /\ WSub(next_used, used_idx) <= unchecked
  /\ upc \in {"idle", "recheck"} /\ event_idx_enabled => used_event = last_used
  /\ upc = "idle" => \/ irq
                     \/ \E t \in Threads : dpc[t] = "notify"
                     \/ WSub(next_used, last_used) <= unchecked
  /\ AllAsleep => kick \/ WSub(avail_idx, next_avail) <= drv_added

IInv == TypeOK /\ PlacesInv /\ ControlInv /\ SignalInv
=============================================================================
