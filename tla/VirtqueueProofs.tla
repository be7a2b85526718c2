-------------------------- MODULE VirtqueueProofs --------------------------
(***************************************************************************)
(* The safety properties of Virtqueue, for every number of threads, queue  *)
(* size, index width, batch size and number of chains put back.            *)
(***************************************************************************)
EXTENDS Virtqueue, WrapIndexProofs, FiniteSetTheorems

USE DEF Heads
-----------------------------------------------------------------------------
\* What is kept about types, about where the threads stand and about the two signals.

\* A chain that a thread fetches or gives up comes to, or leaves, the device.
LEMMA InflightMoves ==
  ASSUME TypeOK, HeadsConserved, NEW t \in Threads, NEW h \in Heads
  PROVE  /\ held' = [held EXCEPT ![t] = @ \cup {h}] => inflight' = inflight \cup {h}
         /\ h \notin inflight /\ held' = [held EXCEPT ![t] = @ \cup {h}] =>
              \A u, v \in Threads : u # v => held'[u] \cap held'[v] = {}
         /\ h \in held[t] => h \in inflight
         /\ h \in held[t] /\ held' = [held EXCEPT ![t] = @ \ {h}] =>
              /\ inflight' = inflight \ {h}
              /\ \A u, v \in Threads : u # v => held'[u] \cap held'[v] = {}
<1>1. held \in [Threads -> SUBSET Heads] /\ \A u, v \in Threads : u # v => held[u] \cap held[v] = {}
  BY DEF TypeOK, HeadsConserved
<1>2. \A g : g \in inflight <=> \E u \in Threads : g \in held[u]
  BY DEF inflight
<1>3. \A g : g \in inflight' <=> \E u \in Threads : g \in held'[u]
  BY DEF inflight
<1>4. ASSUME held' = [held EXCEPT ![t] = @ \cup {h}]
      PROVE  inflight' = inflight \cup {h}
  BY <1>1, <1>2, <1>3, <1>4
<1>5. ASSUME h \notin inflight, held' = [held EXCEPT ![t] = @ \cup {h}]
      PROVE  \A u, v \in Threads : u # v => held'[u] \cap held'[v] = {}
  BY <1>1, <1>2, <1>5
<1>6. ASSUME h \in held[t], held' = [held EXCEPT ![t] = @ \ {h}]
      PROVE  /\ inflight' = inflight \ {h}
             /\ \A u, v \in Threads : u # v => held'[u] \cap held'[v] = {}
  BY <1>1, <1>2, <1>3, <1>6
<1> QED
  BY <1>2, <1>4, <1>5, <1>6

\* What the counting part of the invariant says about the two distances.
LEMMA Distances ==
  ASSUME IInv
  PROVE  /\ WSub(avail_idx, next_avail) \in Idx /\ WSub(next_used, last_used) \in Idx
         /\ IsFiniteSet(free) /\ IsFiniteSet(inflight)
         /\ Cardinality(free) \in Nat /\ Cardinality(inflight) \in Nat
         /\ Cardinality(free) + Cardinality(inflight) + WSub(avail_idx, next_avail)
               + WSub(next_used, last_used) = QSize
         /\ \A h \in free : Cardinality(free) >= 1
         /\ \A h \in inflight : Cardinality(inflight) >= 1
<1>1. TypeOK
  BY DEF IInv
<1>2. WSub(avail_idx, next_avail) \in Idx /\ WSub(next_used, last_used) \in Idx
  BY <1>1, WSubValue DEF TypeOK
<1>3. IsFiniteSet(free) /\ IsFiniteSet(inflight)
  <2>1. IsFiniteSet(Slots)
    BY FS_Interval, Sizes DEF Slots
  <2>2. inflight \subseteq Slots
    BY <1>1 DEF TypeOK, inflight
  <2> QED
    BY <1>1, <2>1, <2>2, FS_Subset, Zenon DEF TypeOK
<1>4. Cardinality(free) \in Nat /\ Cardinality(inflight) \in Nat
  BY <1>3, FS_CardinalityType
<1>5. ASSUME NEW S, IsFiniteSet(S), NEW h \in S
      PROVE  Cardinality(S) >= 1
  BY <1>5, FS_EmptySet, FS_CardinalityType
<1> QED
  BY <1>2, <1>3, <1>4, <1>5 DEF IInv, PlacesInv, HeadsConserved

\* A step of a thread that has the lock disturbs no other thread: the others are
\* between two calls.
LEMMA LockedStep ==
  ASSUME IInv, NEW t \in Threads, dpc[t] \in Locked \/ LockState(t),
         \A u \in Threads \ {t} : dpc'[u] = dpc[u] /\ batch'[u] = batch[u],
         ThreadInv(t)'
  PROVE  (\A u \in Threads : ThreadInv(u)') /\ LockInv'
<1>1. \A u \in Threads \ {t} : dpc[u] \notin Locked
  BY Zenon DEF LockState, IInv, ControlInv, LockInv
<1>2. ASSUME NEW u \in Threads \ {t}
      PROVE  ThreadInv(u)'
  <2>1. dpc'[u] \notin {"next", "popped", "store", "fence"} /\ dpc'[u] = dpc[u] /\ batch'[u] = batch[u]
    BY <1>1, Zenon DEF Locked
  <2>2. ThreadInv(u)
    BY Zenon DEF IInv, ControlInv
  <2> QED
    BY <2>1, <2>2, Zenon DEF ThreadInv
<1> QED
  BY <1>1, <1>2 DEF LockInv

\* A thread in the loop keeps what ThreadInv says of it, and so does the iterator:
\* it stays between next_avail and avail_idx.
LEMMA ThreadStep ==
  ASSUME IInv, NEW t \in Threads, Thread(t)
  PROVE  ThreadInv(t)'
<1>1. TypeOK /\ ThreadInv(t)
  BY DEF IInv, ControlInv
<1> USE DEF Goto
<1>2. dpc \in [Threads -> DevicePC] /\ held \in [Threads -> SUBSET Heads]
      /\ batch \in [Threads -> 0 .. MaxBatch]
  BY <1>1, Zenon DEF TypeOK
<1>3. CASE DisableNotification(t)
  <2>1. batch[t] < MaxBatch
    BY <1>1, <1>3, BatchAssumption DEF DisableNotification, ThreadInv
  <2> QED
    BY <1>1, <1>2, <1>3, <2>1, Zenon DEF DisableNotification, ThreadInv
<1>4. CASE Iter(t)
  <2>1. WSub(avail_idx, next_avail) <= QSize /\ WSub(avail_idx, next_avail) \in Int
    BY Distances, Sizes DEF Idx
  <2>2. /\ dpc'[t] = "next" /\ last_index' = avail_idx
        /\ UNCHANGED <<avail_idx, next_avail, batch>>
    BY <1>2, <1>4, <2>1, Sizes DEF Iter, queueVars, availVars
  <2> QED
    BY <1>1, <1>4, <2>1, <2>2 DEF Iter, ThreadInv
<1>5. CASE AvailNext(t) /\ next_avail = last_index
  BY <1>1, <1>2, <1>5 DEF AvailNext, AfterNone, ThreadInv
<1>6. CASE AvailNext(t) /\ next_avail # last_index
  <2>1. /\ next_avail' = WAdd(next_avail, 1) /\ dpc'[t] = "popped"
        /\ cur' = avail_ring[Slot(next_avail)] /\ cur' \in held'[t]
        /\ UNCHANGED <<avail_idx, avail_ring, last_index, batch>>
    BY <1>2, <1>6 DEF AvailNext, availVars
  <2>2. WSub(WAdd(next_avail, 1), 1) = next_avail
    BY <1>1, WSuccPred, Zenon DEF TypeOK
  <2>3. WSub(last_index, next_avail) <= WSub(avail_idx, next_avail) /\ batch[t] < MaxBatch
    BY <1>1, <1>6, Zenon DEF AvailNext, ThreadInv
  <2>4. /\ WSub(last_index, next_avail) \in Idx /\ WSub(avail_idx, next_avail) \in Idx
        /\ WSub(last_index, next_avail) > 0
        /\ WSub(last_index, WAdd(next_avail, 1)) = WSub(last_index, next_avail) - 1
    BY <1>1, <1>6, DistanceMoves, WSubValue, Zenon DEF TypeOK
  <2>5. avail_idx # next_avail
    BY <1>1, <2>3, <2>4, DistanceMoves DEF Idx, TypeOK
  <2>6. WSub(avail_idx, WAdd(next_avail, 1)) = WSub(avail_idx, next_avail) - 1
    BY <1>1, <2>5, DistanceMoves, Zenon DEF TypeOK
  <2> QED
    BY <2>1, <2>2, <2>3, <2>4, <2>6 DEF ThreadInv, Idx
<1>7. CASE Keep(t)
  BY <1>1, <1>2, <1>7, Zenon DEF Keep, ThreadInv, availVars, queueVars
<1>8. CASE GoToPreviousPosition(t)
  <2>1. /\ next_avail' = WSub(next_avail, 1) /\ dpc'[t] = "next"
        /\ UNCHANGED <<avail_idx, last_index, batch>>
    BY <1>2, <1>8, Zenon DEF GoToPreviousPosition, availVars
  <2>2. /\ cur \in inflight /\ batch[t] < MaxBatch
        /\ WSub(last_index, next_avail) <= WSub(avail_idx, next_avail)
    BY <1>1, <1>8 DEF GoToPreviousPosition, ThreadInv, inflight
  <2>3. WSub(avail_idx, next_avail) < QSize
    BY <2>2, Distances DEF Idx
  <2>4. WSub(last_index, next_avail) \in Idx /\ WSub(avail_idx, next_avail) \in Idx
    BY <1>1, WSubValue DEF TypeOK
  <2>5. /\ WSub(avail_idx, next_avail) < IdxMod - 1
        /\ WSub(last_index, next_avail) < IdxMod - 1
    BY <2>2, <2>3, <2>4, Sizes DEF Idx
  <2>6. /\ WSub(avail_idx, WSub(next_avail, 1)) = WSub(avail_idx, next_avail) + 1
        /\ WSub(last_index, WSub(next_avail, 1)) = WSub(last_index, next_avail) + 1
    BY <1>1, <2>5, DistanceMoves DEF TypeOK
  <2> QED
    BY <2>1, <2>2, <2>4, <2>6 DEF ThreadInv, Idx
<1>9. ASSUME NEW h \in Heads, UseChain(t, h)
      PROVE  ThreadInv(t)'
  <2>1. CASE dpc[t] = "use"
    BY <1>1, <1>2, <1>9, <2>1, SlotType, Zenon DEF UseChain, AddUsed, ThreadInv, TypeOK
  <2>2. CASE dpc[t] = "store"
    <3>1. dpc'[t] \in Resume(held'[t], batch'[t])
      BY <1>2, <1>9, <2>2, Zenon DEF UseChain, AddUsed
    <3>2. dpc'[t] \in {"check", "iter", "use"} /\ (dpc'[t] \in {"iter", "use"} => batch'[t] < MaxBatch)
      BY <3>1 DEF Resume
    <3> QED
      BY <3>2, Zenon DEF ThreadInv
  <2> QED
    BY <1>9, <2>1, <2>2, Zenon DEF UseChain, AddUsed
<1>10. CASE NeedsNotification(t)
  <2>1. batch'[t] = 0 /\ 0 < MaxBatch
    BY <1>2, <1>10, BatchAssumption DEF NeedsNotification
  <2>2. dpc'[t] \in {"notify", "iter", "use"}
    BY <1>2, <1>10, BatchAssumption DEF NeedsNotification, Resume
  <2> QED
    BY <2>1, <2>2 DEF ThreadInv
<1>11. CASE Notify(t)
  <2>1. dpc'[t] \in {"iter", "use"} /\ batch'[t] = 0 /\ 0 < MaxBatch
    BY <1>1, <1>2, <1>11, BatchAssumption DEF Notify, Resume, ThreadInv
  <2> QED
    BY <2>1, Zenon DEF ThreadInv
<1>12. CASE EnableNotification(t)
  BY <1>1, <1>2, <1>12, Zenon DEF EnableNotification, SetNotification, ThreadInv, queueVars
<1>13. CASE WakeUp(t)
  BY <1>1, <1>2, <1>13, Zenon DEF WakeUp, ThreadInv
<1> QED
  BY <1>3, <1>4, <1>5, <1>6, <1>7, <1>8, <1>9, <1>10, <1>11, <1>12, <1>13, Zenon
     DEF Thread, AvailNext

\* A step of one thread changes nothing of another; unless it only interrupts the
\* driver or wakes up, it has the lock.
LEMMA ThreadFrame ==
  ASSUME TypeOK, NEW t \in Threads, Thread(t)
  PROVE  /\ \A u \in Threads \ {t} : dpc'[u] = dpc[u] /\ batch'[u] = batch[u] /\ held'[u] = held[u]
         /\ \/ dpc[t] \in Locked \/ LockState(t)
            \/ Notify(t) \/ WakeUp(t)
<1>1. dpc \in [Threads -> DevicePC] /\ held \in [Threads -> SUBSET Heads]
      /\ batch \in [Threads -> 0 .. MaxBatch]
  BY DEF TypeOK
<1>2. \A u \in Threads \ {t} : dpc'[u] = dpc[u]
  BY <1>1, Zenon
     DEF Thread, Goto, DisableNotification, Iter, AvailNext, Keep, GoToPreviousPosition,
     UseChain, AddUsed, NeedsNotification, Notify, EnableNotification, WakeUp
<1>3. \A u \in Threads \ {t} : batch'[u] = batch[u]
  BY <1>1, Zenon DEF Thread, DisableNotification, Iter, AvailNext, Keep, GoToPreviousPosition,
     UseChain, AddUsed, NeedsNotification, Notify, EnableNotification, WakeUp
<1>4. \A u \in Threads \ {t} : held'[u] = held[u]
  BY <1>1, Zenon DEF Thread, DisableNotification, Iter, AvailNext, Keep, GoToPreviousPosition,
     UseChain, AddUsed, NeedsNotification, Notify, EnableNotification, WakeUp
<1>5. \/ dpc[t] \in Locked \/ LockState(t)
      \/ Notify(t) \/ WakeUp(t)
  BY Zenon
     DEF Thread, Locked, DisableNotification, Iter, AvailNext, Keep, GoToPreviousPosition,
     UseChain, AddUsed, NeedsNotification, EnableNotification
<1> QED
  BY <1>2, <1>3, <1>4, <1>5

\* The counters of a thread's step: an entry that awaits its check has a thread
\* that owes one, and num_added counts such entries.
LEMMA CountStep ==
  ASSUME IInv, NEW t \in Threads, Thread(t)
  PROVE  CountInv'
<1>1. TypeOK /\ CountInv /\ ThreadInv(t)
  BY Zenon DEF IInv, ControlInv
<1>2. batch \in [Threads -> 0 .. MaxBatch] /\ unchecked \in Nat /\ num_added \in Idx
  BY <1>1, Sizes DEF TypeOK, Idx
<1>3. ASSUME NEW h \in Heads, UseChain(t, h), dpc[t] = "store"
      PROVE  CountInv'
  <2>1. /\ batch' = [batch EXCEPT ![t] = @ + 1] /\ unchecked' = unchecked + 1
        /\ num_added' = WAdd(num_added, 1) /\ UNCHANGED event_idx_enabled
    BY <1>3 DEF UseChain, AddUsed
  <2>2. batch'[t] > 0
    BY <1>2, <2>1, BatchAssumption
  <2>3. event_idx_enabled => num_added' = unchecked'
    BY <1>1, <1>2, <1>3, <2>1, WSuccValue, Sizes DEF ThreadInv, CountInv, Idx
  <2> QED
    BY <2>1, <2>2, <2>3 DEF CountInv
<1>4. CASE NeedsNotification(t)
  BY <1>4 DEF NeedsNotification, CountInv
<1>5. CASE UNCHANGED <<batch, unchecked, num_added, event_idx_enabled>>
  BY <1>1, <1>5 DEF CountInv
<1>6. \/ \E h \in Heads : UseChain(t, h) /\ dpc[t] = "store"
      \/ NeedsNotification(t)
      \/ UNCHANGED <<batch, unchecked, num_added, event_idx_enabled>>
  BY Zenon DEF Thread, DisableNotification, Iter, AvailNext, Keep, GoToPreviousPosition,
     UseChain, AddUsed, Notify, EnableNotification, WakeUp, queueVars
<1> QED
  BY <1>3, <1>4, <1>5, <1>6

\* A thread falls asleep only at the end of enable_notification.
LEMMA FallsAsleep ==
  ASSUME TypeOK, NEW t \in Threads, Thread(t)
  PROVE  dpc'[t] # "asleep" \/ (EnableNotification(t) /\ dpc[t] = "fence")
<1>1. dpc \in [Threads -> DevicePC]
  BY DEF TypeOK
<1>2. ASSUME NEW n, NEW S, NEW x \in Resume(S, n), dpc' = [dpc EXCEPT ![t] = x]
      PROVE  dpc'[t] # "asleep"
  BY <1>1, <1>2 DEF Resume
<1>3. ASSUME NEW h \in Heads, UseChain(t, h)
      PROVE  dpc'[t] # "asleep"
  BY <1>1, <1>2, <1>3, Zenon DEF UseChain, AddUsed, Goto
<1>4. ASSUME NeedsNotification(t) \/ Notify(t)
      PROVE  dpc'[t] # "asleep"
  BY <1>1, <1>2, <1>4 DEF NeedsNotification, Notify, Goto
<1>5. ASSUME DisableNotification(t) \/ Iter(t) \/ AvailNext(t) \/ Keep(t) \/ GoToPreviousPosition(t)
             \/ WakeUp(t) \/ (EnableNotification(t) /\ dpc[t] # "fence")
      PROVE  dpc'[t] # "asleep"
  BY <1>1, <1>5, Zenon DEF Goto, AfterNone, DisableNotification, Iter, AvailNext, Keep,
     GoToPreviousPosition, EnableNotification, WakeUp
<1> QED
  BY <1>3, <1>4, <1>5, Zenon DEF Thread

\* The last thread to fall asleep leaves the notification fields as they should be.
LEMMA QuietStep ==
  ASSUME IInv, NEW t \in Threads, Thread(t)
  PROVE  QuietInv'
<1>1. TypeOK /\ ThreadInv(t)
  BY DEF IInv, ControlInv
<1>2. CASE EnableNotification(t) /\ dpc[t] = "fence"
  BY <1>1, <1>2, Zenon
     DEF EnableNotification, Fence, ThreadInv, QuietInv, queueVars, usedVars, postedVars
<1>3. CASE dpc'[t] # "asleep"
  BY <1>3 DEF QuietInv, AllAsleep
<1> QED
  BY <1>1, <1>2, <1>3, FallsAsleep

\* The service loop and the driver keep the control part of the invariant.
LEMMA ControlStep == IInv /\ [Next]_vars => ControlInv'
<1> SUFFICES ASSUME IInv, [Next]_vars
             PROVE  ControlInv'
  OBVIOUS
<1>1. TypeOK /\ ControlInv /\ (\A t \in Threads : ThreadInv(t)) /\ LockInv /\ CountInv /\ QuietInv
  BY Zenon DEF IInv, ControlInv
<1>2. ASSUME NEW t \in Threads, Thread(t)
      PROVE  ControlInv'
  <2>1. ThreadInv(t)' /\ CountInv' /\ QuietInv'
    BY <1>2, ThreadStep, CountStep, QuietStep, Zenon
  <2>2. \A u \in Threads \ {t} : dpc'[u] = dpc[u] /\ batch'[u] = batch[u] /\ held'[u] = held[u]
    BY <1>1, <1>2, ThreadFrame
  <2>3. CASE dpc[t] \in Locked \/ LockState(t)
    <3>1. (\A u \in Threads : ThreadInv(u)') /\ LockInv'
      BY <2>1, <2>2, <2>3, LockedStep
    <3> QED
      BY <2>1, <3>1, Zenon DEF ControlInv
  <2>4. CASE Notify(t) \/ WakeUp(t)
    <3>1. UNCHANGED <<availVars, usedVars, postedVars, queueVars, last_index, cur, unchecked>>
      BY <2>4, Zenon DEF Notify, WakeUp
    <3>2. ASSUME NEW u \in Threads \ {t}
          PROVE  ThreadInv(u)'
      BY <1>1, <2>2, <3>1, <3>2, Zenon DEF ThreadInv, availVars, usedVars, postedVars, queueVars
    <3>3. dpc'[t] \notin Locked
      BY <1>1, <2>4 DEF Notify, WakeUp, Goto, Resume, Locked, TypeOK
    <3>4. LockInv'
      BY <1>1, <2>2, <3>3, Zenon DEF LockInv
    <3> QED
      BY <2>1, <3>2, <3>4 DEF ControlInv
  <2> QED
    BY <1>1, <1>2, <2>3, <2>4, ThreadFrame
<1>3. ASSUME NEW h \in Heads, Offer(h)
      PROVE  ControlInv'
  <2>1. /\ avail_idx' = WAdd(avail_idx, 1)
        /\ avail_ring' = [avail_ring EXCEPT ![Slot(avail_idx)] = h]
        /\ UNCHANGED <<usedVars, postedVars, queueVars, devVars>>
        /\ h \in free
    BY <1>3, Zenon DEF Offer
  <2>2. /\ WSub(avail_idx, next_avail) < QSize /\ WSub(avail_idx, next_avail) \in Nat
        /\ avail_idx \in Idx /\ next_avail \in Idx /\ avail_ring \in [Slots -> Slots]
    BY <1>1, <2>1, Distances DEF TypeOK, Idx
  <2>3. WSub(WAdd(avail_idx, 1), next_avail) = WSub(avail_idx, next_avail) + 1
    BY <2>2, DistanceMoves, Sizes
  <2>4. ASSUME NEW t \in Threads
        PROVE  ThreadInv(t)'
    <3>1. dpc[t] \in {"next", "popped"} =>
            WSub(last_index, next_avail) <= WSub(avail_idx, next_avail) + 1
      BY <1>1, Distances, WSubValue DEF ThreadInv, TypeOK, Idx
    <3>2. ASSUME dpc[t] = "popped"
          PROVE  avail_ring'[Slot(WSub(next_avail, 1))] = avail_ring[Slot(WSub(next_avail, 1))]
      <4>1. cur \in inflight
        BY <1>1, <3>2, Zenon DEF ThreadInv, inflight
      <4>2. WSub(avail_idx, next_avail) < QSize - 1
        BY <1>1, <2>1, <4>1, Distances DEF Idx
      <4>3. /\ WSub(avail_idx, WSub(next_avail, 1)) = WSub(avail_idx, next_avail) + 1
            /\ WSub(next_avail, 1) \in Idx
        BY <2>2, DistanceMoves, WPredValue, Sizes
      <4>4. avail_idx # WSub(next_avail, 1)
        BY <2>2, <4>3, DistanceMoves
      <4>5. Slot(avail_idx) # Slot(WSub(next_avail, 1))
        BY <2>2, <4>2, <4>3, <4>4, SlotInjective, Sizes
      <4> QED
        BY <2>1, <2>2, <4>3, <4>5, SlotType
    <3> QED
      BY <1>1, <2>1, <2>3, <3>1, <3>2, Zenon DEF ThreadInv, usedVars, postedVars, queueVars, devVars
  <2> QED
    BY <1>1, <2>1, <2>4 DEF ControlInv, LockInv, CountInv, QuietInv, AllAsleep, usedVars,
       postedVars, queueVars, devVars
<1>4. CASE UNCHANGED <<availVars, usedVars, postedVars, queueVars, devVars>>
  BY <1>1, <1>4
     DEF ControlInv, ThreadInv, LockInv, CountInv, QuietInv, AllAsleep, availVars,
     usedVars, postedVars, queueVars, devVars
<1>5. CASE Reap \/ PublishUsedIdx
  <2>1. UNCHANGED <<avail_idx, avail_ring, used_ring, avail_event, used_flags, postedVars,
                    queueVars, devVars>>
    BY <1>5, Zenon DEF Reap, PublishUsedIdx, availVars, usedVars
  <2> QED
    BY <1>1, <2>1, Zenon DEF ControlInv, ThreadInv, LockInv, CountInv, QuietInv, AllAsleep,
       postedVars, queueVars, devVars
<1>6. CASE PublishNotification
  BY <1>1, <1>6 DEF PublishNotification, ControlInv, ThreadInv, LockInv, CountInv, QuietInv,
     AllAsleep, availVars, postedVars, queueVars, devVars
<1>7. \/ Device \/ (\E h \in Heads : Offer(h)) \/ Reap \/ PublishUsedIdx \/ PublishNotification
      \/ UNCHANGED <<availVars, usedVars, postedVars, queueVars, devVars>>
  BY Zenon DEF Next, Driver, KickCheck, Interrupt, Recheck, vars
<1> QED
  BY <1>2, <1>3, <1>4, <1>5, <1>6, <1>7 DEF Device

\* A step of a thread that leaves the used ring's indices and the check alone tells
\* the driver nothing and takes nothing back, unless the thread falls asleep.
LEMMA SilentStep ==
  ASSUME IInv, NEW t \in Threads, Thread(t), dpc[t] # "notify", dpc'[t] # "asleep",
         UNCHANGED <<used_idx, last_used, next_used, unchecked, used_event,
                     event_idx_enabled, upc, irq>>
  PROVE  SignalInv'
<1>1. TypeOK /\ SignalInv
  BY Zenon DEF IInv
<1>2. (\E u \in Threads : dpc[u] = "notify") => (\E u \in Threads : dpc'[u] = "notify")
  BY <1>1, ThreadFrame, Zenon
<1>3. ~AllAsleep'
  BY DEF AllAsleep
<1> QED
  BY <1>1, <1>2, <1>3, Zenon DEF SignalInv

\* The signals are kept by the steps of a thread.
LEMMA ThreadSignals ==
  ASSUME IInv, NEW t \in Threads, Thread(t)
  PROVE  SignalInv'
<1>1. TypeOK /\ SignalInv /\ CountInv /\ ThreadInv(t)
  BY Zenon DEF IInv, ControlInv
<1>2. /\ WSub(avail_idx, next_avail) \in Nat /\ WSub(next_used, last_used) \in Nat
      /\ WSub(used_idx, last_used) \in Nat /\ WSub(next_used, used_idx) \in Nat
      /\ unchecked \in Nat /\ drv_added \in Nat
  BY <1>1, WSubValue DEF TypeOK, Idx
<1>3. dpc \in [Threads -> DevicePC]
  BY <1>1, Zenon DEF TypeOK
<1>4. \A u \in Threads \ {t} : dpc'[u] = dpc[u]
  BY <1>1, ThreadFrame, Zenon
<1>5. (\E u \in Threads : dpc[u] = "notify") /\ dpc[t] # "notify"
        => \E u \in Threads : dpc'[u] = "notify"
  BY <1>4, Zenon
<1>6. dpc'[t] # "asleep" \/ (EnableNotification(t) /\ dpc[t] = "fence")
  BY <1>1, FallsAsleep
<1>7. dpc'[t] # "asleep" => ~AllAsleep'
  BY DEF AllAsleep
<1>8. CASE \/ DisableNotification(t) \/ Iter(t) \/ AvailNext(t) \/ Keep(t)
           \/ GoToPreviousPosition(t) \/ WakeUp(t)
  <2>1. UNCHANGED <<used_idx, last_used, next_used, unchecked, used_event,
                    event_idx_enabled, upc, irq>> /\ dpc[t] \notin {"notify", "enable", "fence"}
    BY <1>8, Zenon
       DEF DisableNotification, Iter, AvailNext, Keep, GoToPreviousPosition, WakeUp,
       availVars, usedVars, queueVars, drvVars
  <2>2. dpc'[t] # "asleep"
    BY <1>6, <2>1, Zenon
  <2> QED
    BY <2>1, <2>2, SilentStep
<1>9. ASSUME NEW h \in Heads, UseChain(t, h)
      PROVE  SignalInv'
  <2>1. CASE dpc[t] = "use"
    <3>1. UNCHANGED <<used_idx, last_used, next_used, unchecked, used_event,
                      event_idx_enabled, upc, irq>>
      BY <1>9, <2>1, Zenon DEF UseChain, AddUsed, availVars, drvVars
    <3> QED
      BY <1>6, <2>1, <3>1, SilentStep, Zenon
  <2>2. CASE dpc[t] = "store"
    <3>1. /\ next_used' = WAdd(next_used, 1) /\ unchecked' = unchecked + 1
          /\ UNCHANGED <<used_idx, last_used, used_event, event_idx_enabled, upc, irq>>
      BY <1>9, <2>2, Zenon DEF UseChain, AddUsed, availVars, drvVars
    <3>2. unchecked < IdxMod - 1 /\ cur \in inflight
      BY <1>1, <2>2, Zenon DEF ThreadInv, inflight
    <3>3. WSub(next_used, last_used) < QSize
      BY <3>2, Distances DEF Idx
    <3>4. /\ WSub(next_used, last_used) < IdxMod - 1
          /\ WSub(next_used, used_idx) < IdxMod - 1
      BY <1>1, <1>2, <3>2, <3>3, Sizes DEF SignalInv
    <3>5. /\ WSub(WAdd(next_used, 1), last_used) = WSub(next_used, last_used) + 1
          /\ WSub(WAdd(next_used, 1), used_idx) = WSub(next_used, used_idx) + 1
      BY <1>1, <3>4, DistanceMoves DEF TypeOK
    <3>6. ~AllAsleep'
      BY <1>6, <1>7, <2>2, Zenon
    <3>7. (\E u \in Threads : dpc[u] = "notify") => \E u \in Threads : dpc'[u] = "notify"
      BY <1>5, <2>2, Zenon
    <3> QED
      BY <1>1, <1>2, <3>1, <3>5, <3>6, <3>7 DEF SignalInv
  <2> QED
    BY <1>9, <2>1, <2>2 DEF UseChain, AddUsed
<1>10. CASE NeedsNotification(t)
  <2>1. /\ used_idx = next_used /\ unchecked' = 0 /\ dpc[t] = "check"
        /\ UNCHANGED <<used_idx, next_used, last_used, used_event, event_idx_enabled,
                       upc, irq>>
    BY <1>10, Zenon DEF NeedsNotification, Fence, availVars, usedVars, drvVars
  <2>2. WSub(next_used, used_idx) = 0
    BY <1>1, <2>1, DistanceMoves, Zenon DEF TypeOK
  <2>3. ASSUME upc = "idle", ~irq, WSub(next_used, last_used) # 0,
               \A u \in Threads : dpc[u] # "notify"
        PROVE  dpc'[t] = "notify"
    <3>1. CASE ~event_idx_enabled
      BY <1>3, <1>10, <3>1, Zenon DEF NeedsNotification, Goto
    <3>2. CASE event_idx_enabled
      <4>1. used_event = last_used /\ num_added = unchecked
            /\ WSub(next_used, last_used) <= unchecked
        BY <1>1, <2>1, <2>3, <3>2, Zenon DEF SignalInv, CountInv
      <4>2. WSub(next_used, WSub(next_used, num_added)) = num_added
        BY <1>1, WSubTwice, Zenon DEF TypeOK
      <4>3. WSub(WSub(next_used, last_used), 1) = WSub(next_used, last_used) - 1
        <5>1. next_used # last_used
          BY <1>1, <2>3, DistanceMoves, Zenon DEF TypeOK
        <5> QED
          BY <1>1, <5>1, DistanceMoves, Zenon DEF TypeOK
      <4>4. WSub(WSub(next_used, used_event), 1) < WSub(next_used, WSub(next_used, num_added))
        BY <1>2, <4>1, <4>2, <4>3
      <4> QED
        BY <1>3, <1>10, <3>2, <4>4, Zenon DEF NeedsNotification, EventCrossed, Goto
    <3> QED
      BY <3>1, <3>2, Zenon
  <2>4. ~AllAsleep' /\ ((\E u \in Threads : dpc[u] = "notify") => \E u \in Threads : dpc'[u] = "notify")
    BY <1>5, <1>6, <1>7, <2>1, Zenon
  <2>5. upc = "idle" => \/ irq \/ (\E u \in Threads : dpc'[u] = "notify")
                        \/ WSub(next_used, last_used) <= 0
    BY <1>2, <2>3, <2>4
  <2> QED
    BY <1>1, <2>1, <2>2, <2>4, <2>5 DEF SignalInv
<1>11. CASE Notify(t)
  <2>1. /\ UNCHANGED <<used_idx, next_used, last_used, used_event, event_idx_enabled, upc, unchecked>>
        /\ irq' /\ dpc[t] = "notify"
    BY <1>11, Zenon DEF Notify, availVars, usedVars, queueVars, drvVars
  <2>2. ~AllAsleep'
    BY <1>6, <1>7, <2>1, Zenon
  <2> QED
    BY <1>1, <2>1, <2>2 DEF SignalInv
<1>12. CASE EnableNotification(t)
  <2>1. avail_idx = next_avail => WSub(avail_idx, next_avail) = 0
    BY <1>1, DistanceMoves DEF TypeOK
  <2>2. /\ dpc[t] # "notify"
        /\ dpc'[t] = "asleep" => avail_idx = next_avail
        /\ UNCHANGED <<used_event, used_idx, last_used, next_used, event_idx_enabled, upc,
                       avail_idx, next_avail, unchecked, drv_added, irq>>
    BY <1>3, <1>12, Zenon DEF EnableNotification, Goto, availVars, usedVars, queueVars, drvVars
  <2>3. (\E u \in Threads : dpc[u] = "notify") => \E u \in Threads : dpc'[u] = "notify"
    BY <1>5, <2>2, Zenon
  <2>4. AllAsleep' => WSub(avail_idx, next_avail) <= drv_added
    BY <1>2, <1>7, <2>1, <2>2
  <2> QED
    BY <1>1, <2>2, <2>3, <2>4, Zenon DEF SignalInv
<1> QED
  BY <1>8, <1>9, <1>10, <1>11, <1>12, Zenon DEF Thread

\* The signals are kept by every step of the device and the driver.
LEMMA SignalStep == IInv /\ [Next]_vars => SignalInv'
<1> SUFFICES ASSUME IInv, [Next]_vars
             PROVE  SignalInv'
  OBVIOUS
<1>1. TypeOK /\ ControlInv /\ SignalInv
  BY Zenon DEF IInv
<1>2. /\ WSub(avail_idx, next_avail) \in Nat /\ WSub(next_used, last_used) \in Nat
      /\ WSub(used_idx, last_used) \in Nat /\ WSub(next_used, used_idx) \in Nat
      /\ unchecked \in Nat /\ drv_added \in Nat
      /\ avail_idx \in Idx /\ next_avail \in Idx /\ used_idx \in Idx
      /\ next_used \in Idx /\ last_used \in Idx
  BY <1>1, WSubValue DEF TypeOK, Idx
<1>3. ASSUME NEW t \in Threads, Thread(t)
      PROVE  SignalInv'
  BY <1>3, ThreadSignals, Zenon
<1>4. ASSUME NEW h \in Heads, Offer(h)
       PROVE  SignalInv'
  <2>1. WSub(avail_idx, next_avail) < QSize
    BY <1>4, Distances DEF Offer, Idx
  <2>2. WSub(WAdd(avail_idx, 1), next_avail) = WSub(avail_idx, next_avail) + 1
    BY <1>2, <2>1, DistanceMoves, Sizes
  <2>3. /\ avail_idx' = WAdd(avail_idx, 1) /\ drv_added' = drv_added + 1
        /\ UNCHANGED <<used_event, used_idx, next_avail, next_used, event_idx_enabled, dpc,
                       unchecked, last_used, upc, kick, irq, AllAsleep>>
    BY <1>4, Zenon DEF Offer, AllAsleep, usedVars, queueVars, devVars
  <2>4. AllAsleep' => kick' \/ WSub(avail_idx', next_avail') <= drv_added'
    BY <1>1, <1>2, <2>2, <2>3 DEF SignalInv
  <2> QED
    BY <1>1, <2>3, <2>4, Zenon DEF SignalInv
<1>5. CASE KickCheck
  <2>1. ASSUME AllAsleep, ~kick, WSub(avail_idx, next_avail) # 0
        PROVE  kick'
    <3>1. WSub(avail_idx, next_avail) <= drv_added
      BY <1>1, <2>1, Zenon DEF SignalInv
    <3>2. CASE ~event_idx_enabled
      BY <1>1, <1>5, <2>1, <3>2 DEF KickCheck, ControlInv, QuietInv, NO_NOTIFY
    <3>3. CASE event_idx_enabled
      <4>1. avail_event = next_avail
        BY <1>1, <2>1, <3>3, Zenon DEF ControlInv, QuietInv
      <4>2. WSub(WSub(avail_idx, next_avail), 1) = WSub(avail_idx, next_avail) - 1
        <5>1. next_avail # avail_idx
          BY <1>2, <2>1, DistanceMoves, Zenon
        <5> QED
          BY <1>2, <5>1, DistanceMoves, Zenon
      <4> QED
        BY <1>2, <1>5, <3>1, <3>3, <4>1, <4>2 DEF KickCheck
    <3> QED
      BY <3>2, <3>3, Zenon
  <2>2. kick => kick'
    BY <1>5, Zenon DEF KickCheck
  <2>3. UNCHANGED <<avail_idx, used_event, used_idx, next_avail, next_used, event_idx_enabled,
                    dpc, unchecked, last_used, upc, irq, AllAsleep>> /\ drv_added' = 0
    BY <1>5 DEF KickCheck, AllAsleep, availVars, usedVars, queueVars, devVars
  <2>4. AllAsleep => kick' \/ WSub(avail_idx, next_avail) <= 0
    <3>1. WSub(avail_idx, next_avail) # 0 \/ WSub(avail_idx, next_avail) <= 0
      OBVIOUS
    <3> QED
      BY <2>1, <2>2, <3>1, Zenon
  <2> QED
    BY <1>1, <2>3, <2>4, Zenon DEF SignalInv
<1>6. CASE Interrupt
  BY <1>1, <1>6 DEF Interrupt, SignalInv, AllAsleep, availVars, usedVars, queueVars, devVars
<1>7. CASE Reap
  <2>1. CASE last_used # used_idx
    <3>1. /\ WSub(used_idx, last_used) > 0
          /\ WSub(used_idx, WAdd(last_used, 1)) = WSub(used_idx, last_used) - 1
      BY <1>2, <2>1, DistanceMoves, Zenon
    <3>2. next_used # last_used
      BY <1>1, <1>2, <3>1, DistanceMoves DEF SignalInv
    <3>3. WSub(next_used, WAdd(last_used, 1)) = WSub(next_used, last_used) - 1
      BY <1>2, <3>2, DistanceMoves, Zenon
    <3>4. /\ last_used' = WAdd(last_used, 1) /\ upc' = "reap"
          /\ UNCHANGED <<avail_idx, used_idx, next_avail, next_used, event_idx_enabled, dpc,
                         unchecked, drv_added, kick, irq, AllAsleep>>
      BY <1>7, <2>1, Zenon DEF Reap, AllAsleep, usedVars, queueVars, devVars
    <3>5. WSub(used_idx', last_used') <= WSub(next_used', last_used')
      BY <1>1, <1>2, <3>1, <3>3, <3>4 DEF SignalInv
    <3> QED
      BY <1>1, <3>4, <3>5, Zenon DEF SignalInv
  <2>2. CASE last_used = used_idx
    BY <1>1, <1>7, <2>2, Zenon DEF Reap, SignalInv, AllAsleep, usedVars, queueVars, devVars
  <2> QED
    BY <2>1, <2>2, Zenon
<1>8. CASE Recheck
  BY <1>1, <1>8, Zenon DEF Recheck, SignalInv, AllAsleep, availVars, usedVars, queueVars, devVars
<1>9. CASE PublishUsedIdx
  <2>1. WSub(next_used, next_used) = 0
    BY <1>1, DistanceMoves, Zenon DEF TypeOK
  <2> QED
    BY <1>1, <1>2, <1>9, <2>1
       DEF PublishUsedIdx, SignalInv, AllAsleep, availVars, queueVars, devVars, drvVars
<1>10. CASE PublishNotification
  BY <1>1, <1>10, Zenon
     DEF PublishNotification, SignalInv, AllAsleep, availVars, queueVars, devVars, drvVars
<1>11. CASE UNCHANGED vars
  BY <1>1, <1>11 DEF vars, SignalInv, AllAsleep, availVars, usedVars, queueVars, devVars, drvVars
<1> QED
  BY <1>3, <1>4, <1>5, <1>6, <1>7, <1>8, <1>9, <1>10, <1>11, Zenon DEF Next, Device, Driver

\* The parts of the invariant that hold of every state are types: arithmetic on
\* ring indices is closed (WrapIndex), and a batch never grows past MaxBatch.
LEMMA TypeStep == IInv /\ [Next]_vars => TypeOK'
<1> SUFFICES ASSUME IInv, [Next]_vars
             PROVE  TypeOK'
  OBVIOUS
<1> USE DEF TypeOK
<1>1. TypeOK
  BY DEF IInv
<1>2. 0 \in Idx /\ 0 \in Slots
  BY Sizes DEF Idx, Slots
<1>3. \A x \in Idx : WAdd(x, 1) \in Idx /\ WSub(x, 1) \in Idx /\ Slot(x) \in Slots
  BY WSuccValue, WPredValue, SlotType, Zenon
<1>4. ASSUME NEW t \in Threads, Thread(t)
      PROVE  TypeOK'
  <2>1. CASE DisableNotification(t)
    BY <1>1, <1>2, <2>1 DEF DisableNotification, Goto, SetNotification, availVars, usedVars,
       postedVars, queueVars, drvVars, DevicePC
  <2>2. CASE Iter(t)
    BY <1>1, <2>2, Zenon
       DEF Iter, Goto, availVars, usedVars, postedVars, queueVars, drvVars, DevicePC
  <2>3. CASE AvailNext(t)
    BY <1>1, <1>2, <1>3, <2>3 DEF AvailNext, AfterNone, Goto, availVars, usedVars, postedVars,
       drvVars, DevicePC
  <2>4. CASE Keep(t)
    BY <1>1, <1>2, <2>4 DEF Keep, Goto, availVars, usedVars, postedVars, queueVars, drvVars,
       DevicePC
  <2>5. CASE GoToPreviousPosition(t)
    BY <1>1, <1>2, <1>3, <2>5, BatchAssumption DEF GoToPreviousPosition, Goto, availVars,
       usedVars, postedVars, drvVars, DevicePC
  <2>6. ASSUME NEW h \in Heads, UseChain(t, h)
        PROVE  TypeOK'
    <3>1. dpc[t] = "store" => batch[t] < MaxBatch /\ unchecked < IdxMod - 1
      BY Zenon DEF IInv, ControlInv, ThreadInv
    <3>2. CASE dpc[t] = "use"
      BY <1>1, <1>3, <2>6, <3>2 DEF UseChain, AddUsed, Goto, availVars, postedVars, drvVars,
         DevicePC
    <3>3. CASE dpc[t] = "store"
      <4>1. /\ batch' = [batch EXCEPT ![t] = @ + 1] /\ unchecked' = unchecked + 1
            /\ held' = [held EXCEPT ![t] = @ \ {h}]
            /\ \E x \in Resume(held'[t], batch'[t]) : dpc' = [dpc EXCEPT ![t] = x]
            /\ next_used' = WAdd(next_used, 1) /\ num_added' = WAdd(num_added, 1) /\ cur' = 0
            /\ UNCHANGED <<used_ring, availVars, used_idx, avail_event, used_flags, postedVars,
                           next_avail, event_idx_enabled, last_index, backs, drvVars, kick, irq>>
        BY <2>6, <3>3, Zenon DEF UseChain, AddUsed, Goto
      <4>2. batch' \in [Threads -> 0 .. MaxBatch] /\ unchecked' \in Idx
        BY <1>1, <3>1, <3>3, <4>1, BatchAssumption, Sizes DEF Idx
      <4>3. dpc' \in [Threads -> DevicePC]
        <5>1. PICK x \in Resume(held'[t], batch'[t]) : dpc' = [dpc EXCEPT ![t] = x]
          BY <4>1, Zenon
        <5>2. x \in DevicePC
          BY <5>1, Zenon DEF Resume, DevicePC
        <5> QED
          BY <1>1, <5>1, <5>2, Zenon
      <4>4. held' \in [Threads -> SUBSET Heads]
        <5>1. held \in [Threads -> SUBSET Heads] /\ held' = [held EXCEPT ![t] = @ \ {h}]
          BY <1>1, <4>1, Zenon
        <5>2. held[t] \ {h} \in SUBSET Heads
          BY <5>1
        <5> HIDE DEF TypeOK
        <5> QED
          BY <5>1, <5>2, Zenon
      <4>5. /\ next_used' \in Idx /\ num_added' \in Idx /\ cur' \in Heads
            /\ UNCHANGED <<used_ring, availVars, used_idx, avail_event, used_flags, postedVars,
                           next_avail, event_idx_enabled, last_index, backs, drvVars, kick, irq>>
        BY <1>1, <1>2, <1>3, <4>1, Zenon
      <4> QED
        BY <1>1, <4>2, <4>3, <4>4, <4>5, Zenon DEF availVars, postedVars, drvVars
    <3> QED
      BY <2>6, <3>2, <3>3, Zenon DEF UseChain, AddUsed
  <2>7. CASE NeedsNotification(t)
    BY <1>1, <1>2, <2>7, BatchAssumption DEF NeedsNotification, Resume, Goto, availVars,
       usedVars, postedVars, drvVars, DevicePC
  <2>8. CASE Notify(t)
    BY <1>1, <2>8, Zenon
       DEF Notify, Resume, Goto, availVars, usedVars, postedVars, queueVars, drvVars,
       DevicePC
  <2>9. CASE EnableNotification(t)
    BY <1>1, <1>2, <2>9 DEF EnableNotification, Goto, SetNotification, availVars, usedVars,
       postedVars, queueVars, drvVars, DevicePC
  <2>10. CASE WakeUp(t)
    BY <1>1, <2>10, Zenon
       DEF WakeUp, Goto, availVars, usedVars, postedVars, queueVars, drvVars, DevicePC
  <2> QED
    BY <1>4, <2>1, <2>2, <2>3, <2>4, <2>5, <2>6, <2>7, <2>8, <2>9, <2>10, Zenon DEF Thread
<1>5. ASSUME NEW h \in Heads, Offer(h)
      PROVE  TypeOK'
  BY <1>1, <1>3, <1>5, BatchAssumption DEF Offer, usedVars, postedVars, queueVars, devVars
<1>6. CASE KickCheck
  BY <1>1, <1>6, BatchAssumption DEF KickCheck, availVars, usedVars, postedVars, queueVars, devVars
<1>7. CASE Interrupt
  BY <1>1, <1>7, Zenon
     DEF Interrupt, availVars, usedVars, postedVars, queueVars, devVars, DriverPC
<1>8. CASE Reap
  BY <1>1, <1>3, <1>8, Zenon DEF Reap, usedVars, postedVars, queueVars, devVars, DriverPC
<1>9. CASE Recheck
  BY <1>1, <1>9, Zenon DEF Recheck, availVars, usedVars, postedVars, queueVars, devVars, DriverPC
<1>10. CASE PublishUsedIdx
  BY <1>1, <1>10 DEF PublishUsedIdx, availVars, postedVars, queueVars, devVars, drvVars
<1>11. CASE PublishNotification
  BY <1>1, <1>11, Zenon DEF PublishNotification, availVars, postedVars, queueVars, devVars, drvVars
<1>12. CASE UNCHANGED vars
  BY <1>1, <1>12 DEF vars, availVars, usedVars, postedVars, queueVars, devVars, drvVars
<1> QED
  BY <1>4, <1>5, <1>6, <1>7, <1>8, <1>9, <1>10, <1>11, <1>12, Zenon DEF Next, Device, Driver
-----------------------------------------------------------------------------
\* What is kept about the places of the heads, and the theorems.

\* The part of the state the places of heads depend on.
placeVars == <<free, held, avail_ring, next_avail, avail_idx, used_ring, last_used, next_used>>

\* A step that leaves the rings, the indices and the holders alone moves no head.
LEMMA PlacesUnchanged == PlacesInv /\ UNCHANGED placeVars => PlacesInv'
BY DEF PlacesInv, HeadsConserved, AvailHeads, UsedHeads, inflight, placeVars

\* A head that moves is taken from one place and put in another, and nothing
\* else moves: the fetch, the put-back, add_used, the offer and the reap.
LEMMA PlacesStep == IInv /\ [Next]_vars => PlacesInv'
<1> SUFFICES ASSUME IInv, [Next]_vars
             PROVE  PlacesInv'
  OBVIOUS
<1>1. TypeOK /\ PlacesInv /\ ControlInv /\ SignalInv
  BY DEF IInv
<1>2. /\ Cardinality(free) \in Nat /\ Cardinality(inflight) \in Nat
      /\ IsFiniteSet(free) /\ IsFiniteSet(inflight)
      /\ WSub(avail_idx, next_avail) \in Nat /\ WSub(next_used, last_used) \in Nat
  BY Distances DEF Idx
<1>3. ASSUME NEW t \in Threads, AvailNext(t), next_avail # last_index
      PROVE  PlacesInv'
  <2> DEFINE h == avail_ring[Slot(next_avail)]
             A2 == Held(avail_ring, WAdd(next_avail, 1), avail_idx)
  <2>1. /\ held' = [held EXCEPT ![t] = @ \cup {h}] /\ next_avail' = WAdd(next_avail, 1)
        /\ UNCHANGED <<free, avail_ring, avail_idx, used_ring, last_used, next_used>>
    BY <1>3 DEF AvailNext, availVars, usedVars, drvVars
  <2>2. avail_idx # next_avail
    <3>1. WSub(last_index, next_avail) <= WSub(avail_idx, next_avail)
      BY <1>1, <1>3 DEF AvailNext, ControlInv, ThreadInv
    <3>2. WSub(last_index, next_avail) > 0 /\ WSub(last_index, next_avail) \in Idx
      BY <1>1, <1>3, DistanceMoves, WSubValue DEF TypeOK
    <3> QED
      BY <1>1, <3>1, <3>2, DistanceMoves DEF TypeOK, Idx
  <2>3. /\ AvailHeads = {h} \cup A2 /\ h \notin A2
        /\ Distinct(avail_ring, WAdd(next_avail, 1), avail_idx)
    BY <1>1, <2>2, HeldShrinks, Zenon DEF TypeOK, PlacesInv, AvailHeads
  <2>4. WSub(avail_idx, WAdd(next_avail, 1)) = WSub(avail_idx, next_avail) - 1
    BY <1>1, <2>2, DistanceMoves DEF TypeOK
  <2>5. AvailHeads' = A2 /\ UsedHeads' = UsedHeads
    BY <2>1 DEF AvailHeads, UsedHeads
  <2>6. h \in Heads /\ h \notin inflight
    BY <1>1, <2>3, SlotType DEF TypeOK, PlacesInv
  <2> HIDE DEF h, A2
  <2>7. /\ inflight' = inflight \cup {h}
        /\ \A u, v \in Threads : u # v => held'[u] \cap held'[v] = {}
    BY <1>1, <2>1, <2>6, InflightMoves, Zenon DEF PlacesInv
  <2>8. Cardinality(inflight') = Cardinality(inflight) + 1
    BY <1>2, <2>6, <2>7, FS_AddElement, Zenon
  <2>9. HeadsConserved'
    BY <1>1, <1>2, <2>1, <2>3, <2>4, <2>5, <2>7, <2>8 DEF PlacesInv, HeadsConserved
  <2> QED
    BY <1>1, <2>1, <2>3, <2>5, <2>7, <2>9, Zenon DEF PlacesInv
<1>4. ASSUME NEW t \in Threads, GoToPreviousPosition(t)
      PROVE  PlacesInv'
  <2>1. /\ held' = [held EXCEPT ![t] = @ \ {cur}] /\ next_avail' = WSub(next_avail, 1)
        /\ UNCHANGED <<free, avail_ring, avail_idx, used_ring, last_used, next_used>>
    BY <1>4 DEF GoToPreviousPosition, availVars, usedVars, drvVars
  <2>2. /\ cur \in inflight /\ avail_ring[Slot(WSub(next_avail, 1))] = cur
        /\ inflight' = inflight \ {cur}
        /\ \A u, v \in Threads : u # v => held'[u] \cap held'[v] = {}
    <3>1. cur \in held[t] /\ cur \in Heads /\ avail_ring[Slot(WSub(next_avail, 1))] = cur
      BY <1>1, <1>4 DEF GoToPreviousPosition, ControlInv, ThreadInv, TypeOK
    <3> QED
      BY <1>1, <2>1, <3>1, InflightMoves, Zenon DEF PlacesInv
  <2>3. WSub(avail_idx, next_avail) < QSize
    BY <2>2, Distances DEF Idx
  <2>4. WSub(avail_idx, WSub(next_avail, 1)) = WSub(avail_idx, next_avail) + 1
    BY <1>1, <1>2, <2>3, DistanceMoves, Sizes DEF TypeOK
  <2>5. cur \notin AvailHeads
    BY <1>1, <2>2, Zenon DEF PlacesInv
  <2>6. /\ Held(avail_ring, WSub(next_avail, 1), avail_idx) = {cur} \cup AvailHeads
        /\ Distinct(avail_ring, WSub(next_avail, 1), avail_idx)
    BY <1>1, <2>2, <2>3, <2>5, HeldGrowsBack, Zenon DEF TypeOK, PlacesInv, AvailHeads
  <2>7. AvailHeads' = {cur} \cup AvailHeads /\ UsedHeads' = UsedHeads
    BY <2>1, <2>6 DEF AvailHeads, UsedHeads
  <2>8. Cardinality(inflight') = Cardinality(inflight) - 1
    BY <1>2, <2>2, FS_RemoveElement, Zenon
  <2>9. HeadsConserved'
    BY <1>1, <1>2, <2>1, <2>2, <2>4, <2>7, <2>8 DEF PlacesInv, HeadsConserved
  <2> QED
    BY <1>1, <2>1, <2>2, <2>6, <2>7, <2>9 DEF PlacesInv
<1>5. ASSUME NEW t \in Threads, NEW h \in Heads, UseChain(t, h)
      PROVE  PlacesInv'
  <2>1. h \in held[t] /\ h \in inflight
    BY <1>1, <1>5, Zenon DEF UseChain, AddUsed, ControlInv, ThreadInv, inflight
  <2>2. WSub(next_used, last_used) < QSize
    BY <2>1, Distances DEF Idx
  <2>3. CASE dpc[t] = "use"
    <3>1. /\ used_ring' = [used_ring EXCEPT ![Slot(next_used)] = h]
          /\ UNCHANGED <<free, held, inflight, avail_ring, next_avail, avail_idx, last_used, next_used>>
      BY <1>5, <2>3 DEF UseChain, AddUsed, inflight, availVars, drvVars
    <3>2. /\ Held(used_ring', last_used, next_used) = Held(used_ring, last_used, next_used)
          /\ Distinct(used_ring', last_used, next_used)
      <4>1. \A s \in Slots : s # Slot(next_used) => used_ring'[s] = used_ring[s]
        BY <1>1, <3>1 DEF TypeOK
      <4> QED
        BY <1>1, <2>2, <4>1, WriteNext DEF TypeOK, PlacesInv
    <3>3. AvailHeads' = AvailHeads /\ UsedHeads' = UsedHeads
      BY <3>1, <3>2, Zenon DEF AvailHeads, UsedHeads
    <3> QED
      BY <1>1, <3>1, <3>2, <3>3, Zenon DEF PlacesInv, HeadsConserved
  <2>4. CASE dpc[t] = "store"
    <3>1. /\ held' = [held EXCEPT ![t] = @ \ {h}] /\ next_used' = WAdd(next_used, 1)
          /\ used_ring[Slot(next_used)] = h
          /\ UNCHANGED <<free, avail_ring, next_avail, avail_idx, used_ring, last_used>>
      BY <1>1, <1>5, <2>4 DEF UseChain, AddUsed, availVars, drvVars, ControlInv, ThreadInv
    <3>2. /\ h \notin UsedHeads /\ inflight' = inflight \ {h}
          /\ \A u, v \in Threads : u # v => held'[u] \cap held'[v] = {}
      BY <1>1, <2>1, <3>1, InflightMoves, Zenon DEF PlacesInv
    <3>3. /\ Held(used_ring, last_used, WAdd(next_used, 1)) = UsedHeads \cup {h}
          /\ Distinct(used_ring, last_used, WAdd(next_used, 1))
      BY <1>1, <2>2, <3>1, <3>2, HeldGrows, Zenon DEF TypeOK, PlacesInv, UsedHeads
    <3>4. UsedHeads' = UsedHeads \cup {h} /\ AvailHeads' = AvailHeads
      BY <3>1, <3>3, Zenon DEF AvailHeads, UsedHeads
    <3>5. WSub(WAdd(next_used, 1), last_used) = WSub(next_used, last_used) + 1
      BY <1>1, <1>2, <2>2, DistanceMoves, Sizes DEF TypeOK
    <3>6. Cardinality(inflight') = Cardinality(inflight) - 1
      BY <1>2, <2>1, <3>2, FS_RemoveElement, Zenon
    <3>7. HeadsConserved'
      BY <1>1, <1>2, <2>1, <3>1, <3>2, <3>4, <3>5, <3>6 DEF PlacesInv, HeadsConserved
    <3> QED
      BY <1>1, <2>1, <3>1, <3>2, <3>3, <3>4, <3>7 DEF PlacesInv
  <2> QED
    BY <1>5, <2>3, <2>4, Zenon DEF UseChain, AddUsed
<1>6. ASSUME NEW h \in Heads, Offer(h)
      PROVE  PlacesInv'
  <2>1. /\ h \in free /\ free' = free \ {h} /\ avail_idx' = WAdd(avail_idx, 1)
        /\ avail_ring' = [avail_ring EXCEPT ![Slot(avail_idx)] = h]
        /\ UNCHANGED <<held, inflight, next_avail, used_ring, last_used, next_used>>
    BY <1>6 DEF Offer, inflight, usedVars, queueVars, devVars
  <2>2. WSub(avail_idx, next_avail) < QSize
    BY <2>1, Distances DEF Idx
  <2>3. /\ Held(avail_ring', next_avail, avail_idx) = AvailHeads
        /\ Distinct(avail_ring', next_avail, avail_idx)
        /\ avail_ring'[Slot(avail_idx)] = h
    <3>1. /\ \A s \in Slots : s # Slot(avail_idx) => avail_ring'[s] = avail_ring[s]
          /\ avail_ring'[Slot(avail_idx)] = h
      BY <1>1, <2>1, SlotType, Zenon DEF TypeOK
    <3> QED
      BY <1>1, <2>2, <3>1, WriteNext DEF TypeOK, PlacesInv, AvailHeads
  <2>4. h \notin AvailHeads
    BY <1>1, <2>1, Zenon DEF PlacesInv
  <2>5. /\ Held(avail_ring', next_avail, WAdd(avail_idx, 1)) = AvailHeads \cup {h}
        /\ Distinct(avail_ring', next_avail, WAdd(avail_idx, 1))
    BY <1>1, <2>2, <2>3, <2>4, HeldGrows, Zenon DEF TypeOK
  <2>6. AvailHeads' = AvailHeads \cup {h} /\ UsedHeads' = UsedHeads
    BY <2>1, <2>5, Zenon DEF AvailHeads, UsedHeads
  <2>7. WSub(WAdd(avail_idx, 1), next_avail) = WSub(avail_idx, next_avail) + 1
    BY <1>1, <1>2, <2>2, DistanceMoves, Sizes DEF TypeOK
  <2>8. Cardinality(free') = Cardinality(free) - 1
    BY <1>2, <2>1, FS_RemoveElement, Zenon
  <2>9. HeadsConserved'
    BY <1>1, <1>2, <2>1, <2>6, <2>7, <2>8 DEF PlacesInv, HeadsConserved
  <2> QED
    BY <1>1, <2>1, <2>5, <2>6, <2>9, Zenon DEF PlacesInv
<1>7. CASE Reap /\ last_used # used_idx
  <2> DEFINE h == used_ring[Slot(last_used)]
             U2 == Held(used_ring, WAdd(last_used, 1), next_used)
  <2>1. /\ free' = free \cup {h} /\ last_used' = WAdd(last_used, 1)
        /\ UNCHANGED <<held, inflight, avail_ring, next_avail, avail_idx, used_ring, next_used>>
    BY <1>7, Zenon DEF Reap, inflight, usedVars, queueVars, devVars
  <2>2. next_used # last_used
    <3>1. WSub(used_idx, last_used) > 0 /\ WSub(used_idx, last_used) \in Idx
      BY <1>1, <1>7, DistanceMoves, WSubValue, Zenon DEF TypeOK
    <3> QED
      BY <1>1, <1>2, <3>1, DistanceMoves DEF TypeOK, SignalInv, Idx
  <2>3. /\ UsedHeads = {h} \cup U2 /\ h \notin U2
        /\ Distinct(used_ring, WAdd(last_used, 1), next_used)
    BY <1>1, <2>2, HeldShrinks, Zenon DEF TypeOK, PlacesInv, UsedHeads
  <2>4. WSub(next_used, WAdd(last_used, 1)) = WSub(next_used, last_used) - 1
    BY <1>1, <2>2, DistanceMoves, Zenon DEF TypeOK
  <2>5. UsedHeads' = U2 /\ AvailHeads' = AvailHeads
    BY <2>1 DEF AvailHeads, UsedHeads
  <2> HIDE DEF h, U2
  <2>6. Cardinality(free') = Cardinality(free) + 1
    BY <1>1, <1>2, <2>1, <2>3, FS_AddElement, Zenon DEF PlacesInv
  <2>7. HeadsConserved'
    BY <1>1, <1>2, <2>1, <2>3, <2>4, <2>5, <2>6 DEF PlacesInv, HeadsConserved
  <2> QED
    BY <1>1, <2>1, <2>3, <2>5, <2>7, Zenon DEF PlacesInv
<1>8. CASE UNCHANGED placeVars
  BY <1>1, <1>8, PlacesUnchanged
<1>9. ASSUME NEW t \in Threads, Thread(t)
      PROVE  PlacesInv'
  <2>1. \/ (AvailNext(t) /\ next_avail # last_index) \/ GoToPreviousPosition(t)
        \/ (\E h \in Heads : UseChain(t, h)) \/ UNCHANGED placeVars
    BY <1>9, Zenon
       DEF Thread, AvailNext, DisableNotification, Iter, Keep, NeedsNotification, Notify,
       EnableNotification, WakeUp, placeVars, availVars, usedVars, queueVars, drvVars
  <2> QED
    BY <1>3, <1>4, <1>5, <1>8, <2>1, Zenon
<1>10. \/ Device
       \/ \E h \in Heads : Offer(h)
       \/ (Reap /\ last_used # used_idx)
       \/ UNCHANGED placeVars
  BY Zenon
     DEF Next, Driver, Reap, KickCheck, Interrupt, Recheck, PublishUsedIdx, PublishNotification,
     placeVars, vars, availVars, usedVars, queueVars, devVars, drvVars
<1> QED
  BY <1>6, <1>7, <1>8, <1>9, <1>10 DEF Device

\* The invariant holds of the empty queue.
LEMMA InitInv == Init => IInv
<1> SUFFICES ASSUME Init
             PROVE  IInv
  OBVIOUS
<1>1. 0 \in Idx /\ 0 \in Slots
  BY Sizes DEF Idx, Slots
<1>2. TypeOK
  <2>1. 0 \in 0 .. MaxBatch /\ 0 \in 0 .. MaxBack
    BY Sizes, BatchAssumption
  <2>2. [s \in Slots |-> 0] \in [Slots -> Heads]
    BY <1>1
  <2> QED
    BY <1>1, <2>1, <2>2, Sizes, Zenon DEF Init, TypeOK, DevicePC, DriverPC
<1>3. WSub(0, 0) = 0
  BY <1>1, DistanceMoves, Zenon
<1>4. PlacesInv
  <2>1. /\ AvailHeads = {} /\ UsedHeads = {}
        /\ Distinct(avail_ring, next_avail, avail_idx) /\ Distinct(used_ring, last_used, next_used)
    BY <1>1, HeldEmpty DEF Init, AvailHeads, UsedHeads
  <2>2. Cardinality(Slots) = QSize
    <3>1. Cardinality(0 .. QSize - 1) = IF 0 > QSize - 1 THEN 0 ELSE (QSize - 1) - 0 + 1
      BY Sizes, FS_Interval
    <3> QED
      BY <3>1, Sizes DEF Slots
  <2>3. Cardinality({}) = 0
    BY FS_EmptySet
  <2>4. inflight = {}
    BY DEF Init, inflight
  <2> QED
    BY <1>3, <2>1, <2>2, <2>3, <2>4, Sizes DEF Init, PlacesInv, HeadsConserved
<1>5. ControlInv
  BY BatchAssumption DEF Init, ControlInv, ThreadInv, LockInv, CountInv, QuietInv, AllAsleep, Locked
<1>6. SignalInv
  BY <1>3 DEF Init, SignalInv, AllAsleep
<1> QED
  BY <1>2, <1>4, <1>5, <1>6 DEF IInv

\* IInv is an invariant of the device and the driver together.
THEOREM Invariance == Spec => []IInv
<1>1. IInv /\ [Next]_vars => IInv'
  BY TypeStep, PlacesStep, ControlStep, SignalStep DEF IInv
<1> QED
  BY InitInv, <1>1, PTL DEF Spec

\* Every variable keeps its type: no index leaves 0 .. 2^16 - 1, no thread is ever
\* in two places of the loop, and a batch never outgrows MaxBatch.
THEOREM TypeCorrect == Spec => []TypeOK
<1>1. IInv => TypeOK
  BY DEF IInv
<1> QED
  BY <1>1, Invariance, PTL

\* No head is lost and none is in two places (AvailIter::next,
\* go_to_previous_position, add_used).
THEOREM HeadsAreConserved == Spec => []HeadsConserved
<1>1. IInv => HeadsConserved
  BY DEF IInv, PlacesInv
<1> QED
  BY <1>1, Invariance, PTL

\* Queue::iter never refuses the index of a driver that offers what it owns.
THEOREM IterAlwaysAccepts == Spec => []IterAccepts
<1>1. IInv => IterAccepts
  BY DEF IInv, ControlInv, ThreadInv, IterAccepts
<1> QED
  BY <1>1, Invariance, PTL

\* Once enable_notification has returned false, every later offer comes with a
\* doorbell.
THEOREM KicksAreNotLost == Spec => []NoLostKick
<1>1. IInv => NoLostKick
  <2> SUFFICES ASSUME IInv, AllAsleep, avail_idx # next_avail, ~kick
               PROVE  /\ drv_added > 0
                      /\ IF event_idx_enabled
                         THEN WSub(WSub(avail_idx, avail_event), 1) < drv_added
                         ELSE used_flags # NO_NOTIFY
    BY DEF NoLostKick
  <2>1. TypeOK /\ ControlInv /\ WSub(avail_idx, next_avail) <= drv_added
    BY DEF IInv, SignalInv
  <2>2. /\ WSub(avail_idx, next_avail) > 0 /\ WSub(avail_idx, next_avail) \in Nat
        /\ WSub(WSub(avail_idx, next_avail), 1) = WSub(avail_idx, next_avail) - 1
        /\ drv_added \in Nat
    <3>1. avail_idx \in Idx /\ next_avail \in Idx /\ drv_added \in Nat
      BY <2>1 DEF TypeOK
    <3>2. WSub(avail_idx, next_avail) > 0 /\ WSub(avail_idx, next_avail) \in Idx
      BY <3>1, DistanceMoves, WSubValue
    <3>3. WSub(avail_idx, next_avail) \in Nat /\ WSub(avail_idx, next_avail) # 0
      BY <3>2, Sizes DEF Idx
    <3> QED
      BY <3>1, <3>2, <3>3, WPredValue, Zenon
  <2>3. CASE event_idx_enabled
    <3>1. avail_event = next_avail
      BY <2>1, <2>3 DEF ControlInv, QuietInv
    <3> QED
      BY <2>1, <2>2, <2>3, <3>1
  <2>4. CASE ~event_idx_enabled
    BY <2>1, <2>2, <2>4 DEF ControlInv, QuietInv, NO_NOTIFY
  <2> QED
    BY <2>3, <2>4
<1> QED
  BY <1>1, Invariance, PTL

\* A driver that waits with used entries to take is interrupted, or will be by
\* the needs_notification call the device still has to make.
THEOREM InterruptsAreNotLost == Spec => []NoLostInterrupt
<1>1. IInv => NoLostInterrupt
  <2> SUFFICES ASSUME IInv, upc = "idle", next_used # last_used, ~irq,
                      \A t \in Threads : dpc[t] # "notify"
               PROVE  /\ \E t \in Threads : batch[t] > 0
                      /\ event_idx_enabled =>
                           WSub(WSub(next_used, used_event), 1) < num_added
    BY DEF NoLostInterrupt
  <2>1. TypeOK /\ ControlInv /\ SignalInv /\ WSub(next_used, last_used) <= unchecked
    BY DEF IInv, SignalInv
  <2>2. /\ WSub(next_used, last_used) > 0 /\ WSub(next_used, last_used) \in Nat
        /\ WSub(WSub(next_used, last_used), 1) = WSub(next_used, last_used) - 1
        /\ unchecked \in Nat
    <3>1. next_used \in Idx /\ last_used \in Idx /\ unchecked \in Nat
      BY <2>1 DEF TypeOK, Idx
    <3>2. WSub(next_used, last_used) > 0 /\ WSub(next_used, last_used) \in Idx
      BY <3>1, DistanceMoves, WSubValue
    <3>3. WSub(next_used, last_used) \in Nat /\ WSub(next_used, last_used) # 0
      BY <3>2, Sizes DEF Idx
    <3> QED
      BY <3>1, <3>2, <3>3, WPredValue, Zenon
  <2>3. event_idx_enabled => used_event = last_used /\ num_added = unchecked
    BY <2>1, Zenon DEF ControlInv, CountInv, SignalInv
  <2>4. \E t \in Threads : batch[t] > 0
    BY <2>1, <2>2 DEF ControlInv, CountInv
  <2> QED
    BY <2>1, <2>2, <2>3, <2>4
<1> QED
  BY <1>1, Invariance, PTL

\* add_used writes only slots whose earlier entry the driver has taken.
THEOREM UsedEntriesAreStable == Spec => UsedEntriesStable
<1> DEFINE Stable == \A x \in Window(last_used, used_idx) \cap Window(last_used', used_idx') :
                        used_ring'[Slot(x)] = used_ring[Slot(x)]
<1>1. ASSUME IInv, [Next]_vars
      PROVE  Stable
  <2>1. TypeOK /\ ControlInv /\ SignalInv
    BY <1>1 DEF IInv
  <2>2. CASE UNCHANGED used_ring
    BY <2>2
  <2>3. ASSUME NEW t \in Threads, NEW h \in Heads, UseChain(t, h), dpc[t] = "use"
        PROVE  Stable
    <3> SUFFICES ASSUME NEW x \in Window(last_used, used_idx)
                 PROVE  used_ring'[Slot(x)] = used_ring[Slot(x)]
      BY Zenon
    <3>1. h \in inflight /\ used_ring' = [used_ring EXCEPT ![Slot(next_used)] = h]
      BY <2>3 DEF UseChain, AddUsed, inflight
    <3>2. WSub(next_used, last_used) < QSize
      BY <1>1, <3>1, Distances DEF Idx
    <3>3. x \in Idx /\ x \in Window(last_used, next_used)
      <4>1. x \in Idx /\ WSub(x, last_used) < WSub(used_idx, last_used)
        BY DEF Window
      <4>2. /\ WSub(x, last_used) \in Idx /\ WSub(used_idx, last_used) \in Idx
            /\ WSub(next_used, last_used) \in Idx
        BY <2>1, <4>1, WSubValue DEF TypeOK
      <4>3. WSub(x, last_used) < WSub(next_used, last_used)
        BY <2>1, <4>1, <4>2, Sizes DEF SignalInv, Idx
      <4> QED
        BY <4>1, <4>3 DEF Window
    <3>4. Slot(x) # Slot(next_used) /\ Slot(x) \in Slots
      BY <2>1, <3>2, <3>3, NextSlotIsOutside, SlotType DEF TypeOK
    <3> QED
      BY <2>1, <3>1, <3>4, Zenon DEF TypeOK
  <2>4. UNCHANGED used_ring \/ \E t \in Threads : \E h \in Heads : UseChain(t, h) /\ dpc[t] = "use"
    BY <1>1, Zenon
       DEF Next, Device, Thread, Driver, DisableNotification, Iter, AvailNext, Keep,
       GoToPreviousPosition, UseChain, AddUsed, NeedsNotification, Notify,
       EnableNotification, WakeUp, Offer, KickCheck, Interrupt, Reap, Recheck,
       PublishUsedIdx, PublishNotification, vars, usedVars
  <2> QED
    BY <2>2, <2>3, <2>4
<1> QED
  BY <1>1, Invariance, PTL DEF Spec, UsedEntriesStable
-----------------------------------------------------------------------------
\* The refinement: the rings as sequences.

\* The state ChainHandOff talks about.
handOffVars == <<free, Entries(avail_ring, next_avail, avail_idx), inflight,
                 Entries(used_ring, last_used, next_used)>>

\* Every step of the device and the driver moves one chain as ChainHandOff allows,
\* or none.
LEMMA HandOffStep == IInv /\ [Next]_vars => [HandOff!Next]_handOffVars
<1> SUFFICES ASSUME IInv, [Next]_vars
             PROVE  HandOff!Next \/ UNCHANGED handOffVars
  BY DEF handOffVars
<1>1. /\ avail_idx \in Idx /\ next_avail \in Idx /\ next_used \in Idx /\ last_used \in Idx
      /\ used_idx \in Idx /\ last_index \in Idx /\ free \subseteq Heads
      /\ avail_ring \in [Slots -> Heads] /\ used_ring \in [Slots -> Heads]
      /\ TypeOK /\ HeadsConserved /\ SignalInv
  BY DEF IInv, TypeOK, PlacesInv
<1>2. ASSUME NEW t \in Threads, AvailNext(t), next_avail # last_index
      PROVE  HandOff!Take
  <2>1. ThreadInv(t) /\ dpc[t] = "next"
    BY <1>2 DEF IInv, ControlInv, AvailNext
  <2>2. avail_idx # next_avail
    <3>1. WSub(last_index, next_avail) <= WSub(avail_idx, next_avail)
      BY <2>1 DEF ThreadInv
    <3>2. WSub(last_index, next_avail) > 0 /\ WSub(last_index, next_avail) \in Idx
      BY <1>1, <1>2, DistanceMoves, WSubValue, Zenon
    <3> QED
      BY <1>1, <3>1, <3>2, DistanceMoves DEF Idx
  <2> DEFINE h == avail_ring[Slot(next_avail)]
  <2>3. /\ held' = [held EXCEPT ![t] = @ \cup {h}] /\ next_avail' = WAdd(next_avail, 1)
        /\ UNCHANGED <<free, avail_ring, avail_idx, used_ring, last_used, next_used>>
    BY <1>2 DEF AvailNext, availVars, usedVars, drvVars
  <2>4. h \in Heads
    BY <1>1, SlotType
  <2>5. inflight' = inflight \cup {h}
    BY <1>1, <2>3, <2>4, InflightMoves, Zenon
  <2>6. /\ Entries(avail_ring, next_avail, avail_idx) # <<>>
        /\ Head(Entries(avail_ring, next_avail, avail_idx)) = h
        /\ Tail(Entries(avail_ring, next_avail, avail_idx))
             = Entries(avail_ring, WAdd(next_avail, 1), avail_idx)
    BY <1>1, <2>2, EntriesShrink, Zenon
  <2>7. /\ Entries(avail_ring, next_avail, avail_idx)' = Entries(avail_ring, WAdd(next_avail, 1), avail_idx)
        /\ Entries(used_ring, last_used, next_used)' = Entries(used_ring, last_used, next_used)
        /\ free' = free
    BY <2>3, Zenon
  <2> QED
    BY <2>5, <2>6, <2>7, Zenon DEF HandOff!Take
<1>3. ASSUME NEW t \in Threads, GoToPreviousPosition(t)
      PROVE  HandOff!GiveBack(cur) /\ cur \in Heads
  <2>1. /\ cur \in held[t] /\ cur \in Heads /\ avail_ring[Slot(WSub(next_avail, 1))] = cur
        /\ held' = [held EXCEPT ![t] = @ \ {cur}] /\ next_avail' = WSub(next_avail, 1)
        /\ UNCHANGED <<free, avail_ring, avail_idx, used_ring, last_used, next_used>>
    BY <1>1, <1>3, Zenon DEF GoToPreviousPosition, IInv, ControlInv, ThreadInv, TypeOK, availVars,
       usedVars, drvVars
  <2>2. cur \in inflight /\ inflight' = inflight \ {cur}
    BY <1>1, <2>1, InflightMoves, Zenon
  <2>3. WSub(avail_idx, next_avail) < QSize
    BY <2>2, Distances DEF Idx
  <2>4. Entries(avail_ring, WSub(next_avail, 1), avail_idx)
          = <<cur>> \o Entries(avail_ring, next_avail, avail_idx)
    BY <1>1, <2>1, <2>3, EntriesPutBack, Zenon
  <2>5. /\ Entries(avail_ring, next_avail, avail_idx)' = Entries(avail_ring, WSub(next_avail, 1), avail_idx)
        /\ Entries(used_ring, last_used, next_used)' = Entries(used_ring, last_used, next_used)
    BY <2>1
  <2> QED
    BY <2>1, <2>2, <2>4, <2>5, Zenon DEF HandOff!GiveBack
<1>4. ASSUME NEW t \in Threads, NEW h \in Heads, UseChain(t, h)
      PROVE  HandOff!Complete(h) \/ UNCHANGED handOffVars
  <2>1. h \in held[t] /\ h \in inflight
    BY <1>4, Zenon DEF UseChain, AddUsed, IInv, ControlInv, ThreadInv, inflight
  <2>2. WSub(next_used, last_used) < QSize
    BY <2>1, Distances DEF Idx
  <2>3. used_ring' \in [Slots -> Heads]
    BY <1>1, <1>4, SlotType DEF UseChain, AddUsed
  <2>4. CASE dpc[t] = "use"
    <3>1. /\ used_ring' = [used_ring EXCEPT ![Slot(next_used)] = h]
          /\ UNCHANGED <<free, inflight, avail_ring, next_avail, avail_idx, last_used, next_used>>
      BY <1>4, <2>4 DEF UseChain, AddUsed, inflight, availVars, drvVars
    <3>2. \A s \in Slots : s # Slot(next_used) => used_ring'[s] = used_ring[s]
      BY <1>1, <3>1
    <3>3. Entries(used_ring', last_used, next_used) = Entries(used_ring, last_used, next_used)
      BY <1>1, <2>2, <2>3, <3>2, EntriesGrow
    <3> QED
      BY <3>1, <3>3, Zenon DEF handOffVars
  <2>5. CASE dpc[t] = "store"
    <3>1. /\ held' = [held EXCEPT ![t] = @ \ {h}] /\ next_used' = WAdd(next_used, 1)
          /\ used_ring[Slot(next_used)] = h
          /\ UNCHANGED <<free, avail_ring, next_avail, avail_idx, used_ring, last_used>>
      BY <1>4, <2>5 DEF UseChain, AddUsed, IInv, ControlInv, ThreadInv, availVars, drvVars
    <3>2. inflight' = inflight \ {h}
      BY <1>1, <2>1, <3>1, InflightMoves, Zenon
    <3>3. Entries(used_ring, last_used, WAdd(next_used, 1))
            = Append(Entries(used_ring, last_used, next_used), h)
      BY <1>1, <2>2, <3>1, EntriesGrow
    <3>4. /\ Entries(avail_ring, next_avail, avail_idx)' = Entries(avail_ring, next_avail, avail_idx)
          /\ Entries(used_ring, last_used, next_used)' = Entries(used_ring, last_used, WAdd(next_used, 1))
      BY <3>1
    <3> QED
      BY <2>1, <3>1, <3>2, <3>3, <3>4, Zenon DEF HandOff!Complete
  <2> QED
    BY <1>4, <2>4, <2>5, Zenon DEF UseChain, AddUsed
<1>5. ASSUME NEW h \in Heads, Offer(h)
      PROVE  HandOff!Offer(h)
  <2>1. /\ h \in free /\ free' = free \ {h} /\ avail_idx' = WAdd(avail_idx, 1)
        /\ avail_ring' = [avail_ring EXCEPT ![Slot(avail_idx)] = h]
        /\ UNCHANGED <<inflight, next_avail, used_ring, last_used, next_used>>
    BY <1>5, Zenon DEF Offer, inflight, usedVars, queueVars, devVars
  <2>2. WSub(avail_idx, next_avail) < QSize
    BY <2>1, Distances DEF Idx
  <2>3. /\ \A s \in Slots : s # Slot(avail_idx) => avail_ring'[s] = avail_ring[s]
        /\ avail_ring'[Slot(avail_idx)] = h /\ avail_ring' \in [Slots -> Heads]
    BY <1>1, <2>1, SlotType, Zenon
  <2>4. Entries(avail_ring', next_avail, WAdd(avail_idx, 1))
          = Append(Entries(avail_ring, next_avail, avail_idx), h)
    BY <1>1, <2>2, <2>3, EntriesGrow
  <2>5. /\ Entries(avail_ring, next_avail, avail_idx)' = Entries(avail_ring', next_avail, WAdd(avail_idx, 1))
        /\ Entries(used_ring, last_used, next_used)' = Entries(used_ring, last_used, next_used)
    BY <2>1
  <2> QED
    BY <2>1, <2>4, <2>5, Zenon DEF HandOff!Offer
<1>6. CASE Reap /\ last_used # used_idx
  <2>1. next_used # last_used
    <3>1. WSub(used_idx, last_used) > 0 /\ WSub(used_idx, last_used) \in Idx
      BY <1>1, <1>6, DistanceMoves, WSubValue, Zenon
    <3> QED
      BY <1>1, <3>1, DistanceMoves DEF SignalInv, Idx
  <2>2. /\ free' = free \cup {used_ring[Slot(last_used)]} /\ last_used' = WAdd(last_used, 1)
        /\ UNCHANGED <<inflight, avail_ring, next_avail, avail_idx, used_ring, next_used>>
    BY <1>6 DEF Reap, inflight, usedVars, queueVars, devVars
  <2>3. /\ Entries(used_ring, last_used, next_used) # <<>>
        /\ Head(Entries(used_ring, last_used, next_used)) = used_ring[Slot(last_used)]
        /\ Tail(Entries(used_ring, last_used, next_used))
             = Entries(used_ring, WAdd(last_used, 1), next_used)
    BY <1>1, <2>1, EntriesShrink, Zenon
  <2>4. /\ Entries(avail_ring, next_avail, avail_idx)' = Entries(avail_ring, next_avail, avail_idx)
        /\ Entries(used_ring, last_used, next_used)' = Entries(used_ring, WAdd(last_used, 1), next_used)
    BY <2>2
  <2>5. free' = free \cup {Head(Entries(used_ring, last_used, next_used))} /\ inflight' = inflight
    BY <2>2, <2>3
  <2>6. Entries(used_ring, last_used, next_used)' = Tail(Entries(used_ring, last_used, next_used))
    BY <2>3, <2>4, Zenon
  <2> QED
    BY <2>3, <2>4, <2>5, <2>6, Zenon DEF HandOff!Reap, HandOff!Next
<1>7. CASE UNCHANGED placeVars
  BY <1>7 DEF placeVars, handOffVars, inflight
<1>8. ASSUME NEW t \in Threads, Thread(t)
      PROVE  HandOff!Next \/ UNCHANGED handOffVars
  <2>1. \/ (AvailNext(t) /\ next_avail # last_index) \/ GoToPreviousPosition(t)
        \/ (\E h \in Heads : UseChain(t, h)) \/ UNCHANGED placeVars
    BY <1>8, Zenon
       DEF Thread, AvailNext, DisableNotification, Iter, Keep, NeedsNotification, Notify,
       EnableNotification, WakeUp, placeVars, availVars, usedVars, queueVars, drvVars
  <2> QED
    BY <1>2, <1>3, <1>4, <1>7, <2>1 DEF HandOff!Next
<1>9. \/ Device
      \/ \E h \in Heads : Offer(h)
      \/ (Reap /\ last_used # used_idx)
      \/ UNCHANGED placeVars
  BY Zenon
     DEF Next, Driver, Reap, KickCheck, Interrupt, Recheck, PublishUsedIdx, PublishNotification,
     placeVars, vars, availVars, usedVars, queueVars, devVars, drvVars
<1> QED
  BY <1>5, <1>6, <1>7, <1>8, <1>9 DEF Device, HandOff!Next

\* The queue implements ChainHandOff: with any number of threads, AvailIter::next
\* yields the chains in the order they were offered, go_to_previous_position puts the
\* last one back at the front, and add_used hands each one back once.
THEOREM ImplementsChainHandOff == Spec => ImplementsHandOff
<1>1. Init => HandOff!Init
  <2> SUFFICES ASSUME Init
               PROVE  HandOff!Init
    OBVIOUS
  <2>1. 0 \in Idx /\ WSub(0, 0) = 0
    BY Sizes, DistanceMoves DEF Idx
  <2>2. /\ Entries(avail_ring, next_avail, avail_idx) = <<>>
        /\ Entries(used_ring, last_used, next_used) = <<>>
    BY <2>1 DEF Init, Entries
  <2>3. inflight = {} /\ free = Heads
    BY DEF Init, inflight
  <2> QED
    BY <2>2, <2>3 DEF HandOff!Init
<1>2. IInv /\ [Next]_vars => [HandOff!Next]_(HandOff!vars)
  BY HandOffStep DEF handOffVars, HandOff!vars
<1> QED
  BY <1>1, <1>2, Invariance, PTL DEF Spec, ImplementsHandOff, HandOff!Spec
=============================================================================
