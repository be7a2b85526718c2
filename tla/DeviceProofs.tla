---------------------------- MODULE DeviceProofs ----------------------------
(***************************************************************************)
(* Two parts of a device.  The device status protocol of the MMIO          *)
(* transport is correct for any number of queues, any features and any     *)
(* driver.  The console loses, repeats and reorders no byte, whatever the  *)
(* capacity of its buffer and whatever chains the driver offers.           *)
(***************************************************************************)
EXTENDS VirtioMmio, Console, SequenceTheorems, TLAPS

(***************************************************************************)
(* VirtioMmio.                                                             *)
(***************************************************************************)

\* The event_idx flags are off until the features are negotiated: what makes the
\* arm FEATURES_OK, which never clears a flag, leave the right ones.
FlagsOff ==
  device_status \intersect {"FEATURES_OK", "DRIVER_OK"} = {} =>
    \A i \in QueueIds : ~queues[i].event_idx

IInv ==
  /\ TypeOK
  /\ FlagsOff
  /\ NegotiationSound
  /\ ActivatedOnce
  /\ LiveQueuesFrozen

\* A new set of queues has its type and no event_idx flag.
LEMMA NewQueuesType ==
  NewQueues \in [QueueIds -> QueueType] /\ \A i \in QueueIds : ~NewQueues[i].event_idx
BY MmioAssumption DEF NewQueues, QueueType

\* update_queue_field keeps the type of the queues and their event_idx flags.
LEMMA UpdateKeeps ==
  ASSUME TypeOK, NEW regs \in QueueValues, NEW ready \in BOOLEAN,
         UpdateQueueField(regs, ready)
  PROVE  /\ queues' \in [QueueIds -> QueueType]
         /\ \A i \in QueueIds : queues'[i].event_idx = queues[i].event_idx
<1>1. queues' = [queues EXCEPT ![queue_select].regs = regs, ![queue_select].ready = ready]
  BY DEF UpdateQueueField
<1>2. queues \in [QueueIds -> QueueType] /\ queue_select \in QueueIds
  BY DEF UpdateQueueField, TypeOK
<1> QED
  BY <1>1, <1>2, Zenon DEF QueueType

\* A register or configuration write keeps the invariant.
LEMMA WriteStep ==
  ASSUME IInv,
         \/ \E page \in 0 .. 2 : SelectFeatures(page)
         \/ \E i \in 0 .. NumQueues : SelectQueue(i)
         \/ \E v \in SUBSET Features : SetDriverFeatures(v)
         \/ \E v \in QueueValues : SetQueueRegister(v)
         \/ \E b \in BOOLEAN : SetQueueReady(b)
         \/ \E offset \in 0 .. ConfigLen, data \in ConfigData : WriteConfig(offset, data)
  PROVE  IInv'
<1>1. ASSUME NEW page \in 0 .. 2, SelectFeatures(page)
      PROVE  IInv'
  BY <1>1 DEF IInv, TypeOK, FlagsOff, NegotiationSound, ActivatedOnce, LiveQueuesFrozen,
              interruptVars, SelectFeatures
<1>2. ASSUME NEW i \in 0 .. NumQueues, SelectQueue(i)
      PROVE  IInv'
  BY <1>2 DEF IInv, TypeOK, FlagsOff, NegotiationSound, ActivatedOnce, LiveQueuesFrozen,
              interruptVars, SelectQueue
<1>3. ASSUME NEW v \in SUBSET Features, SetDriverFeatures(v)
      PROVE  IInv'
  BY <1>3 DEF IInv, TypeOK, FlagsOff, NegotiationSound, ActivatedOnce, LiveQueuesFrozen,
              interruptVars, SetDriverFeatures, CheckDeviceStatus
<1>4. ASSUME NEW regs \in QueueValues, NEW ready \in BOOLEAN, UpdateQueueField(regs, ready)
      PROVE  IInv'
  <2>1. /\ queues' \in [QueueIds -> QueueType]
        /\ \A i \in QueueIds : queues'[i].event_idx = queues[i].event_idx
    BY <1>4, UpdateKeeps DEF IInv
  <2>2. activations = 0
    BY <1>4 DEF IInv, ActivatedOnce, UpdateQueueField, CheckDeviceStatus
  <2> QED
    BY <1>4, <2>1, <2>2 DEF IInv, TypeOK, FlagsOff, NegotiationSound, ActivatedOnce,
                            LiveQueuesFrozen, interruptVars, UpdateQueueField
<1>5. ASSUME NEW v \in QueueValues, SetQueueRegister(v)
      PROVE  IInv'
  <2>1. queues[queue_select].ready \in BOOLEAN
    BY <1>5 DEF IInv, TypeOK, QueueType, SetQueueRegister
  <2> QED
    BY <1>4, <1>5, <2>1 DEF SetQueueRegister
<1>6. ASSUME NEW b \in BOOLEAN, SetQueueReady(b)
      PROVE  IInv'
  <2>1. queues[queue_select].regs \in QueueValues
    BY <1>6 DEF IInv, TypeOK, QueueType, SetQueueReady
  <2> QED
    BY <1>4, <1>6, <2>1 DEF SetQueueReady
<1>7. ASSUME NEW offset \in 0 .. ConfigLen, NEW data \in ConfigData, WriteConfig(offset, data)
      PROVE  IInv'
  <2>1. config_space' \in [0 .. ConfigLen - 1 -> Bytes]
    <3>1. data \in Seq(Bytes)
      <4>1. CASE \E a \in Bytes : data = <<a>>
        BY <4>1
      <4>2. CASE \E a \in Bytes, b \in Bytes : data = <<a, b>>
        BY <4>2
      <4> QED
        BY <4>1, <4>2 DEF ConfigData
    <3>2. config_space \in [0 .. ConfigLen - 1 -> Bytes] /\ ConfigLen \in Nat
      BY MmioAssumption DEF IInv, TypeOK
    <3>3. ASSUME NEW i \in 0 .. ConfigLen - 1, i \in offset .. offset + Len(data) - 1
          PROVE  data[i - offset + 1] \in Bytes
      BY <3>1, <3>2, <3>3
    <3> QED
      BY <1>7, <3>2, <3>3, Zenon DEF WriteConfig
  <2> QED
    BY <1>7, <2>1 DEF IInv, TypeOK, FlagsOff, NegotiationSound, ActivatedOnce,
                      LiveQueuesFrozen, interruptVars, WriteConfig
<1> QED
  BY <1>1, <1>2, <1>3, <1>5, <1>6, <1>7

\* A status write keeps the invariant, one step per arm of ack_device_status.
LEMMA StatusStep ==
  ASSUME IInv, NEW w \in SUBSET StatusBits, AckDeviceStatus(w)
  PROVE  IInv'
<1>1. CASE AckAcknowledge(w)
  <2>1. w = {"ACKNOWLEDGE"} /\ device_status = {}
    BY <1>1 DEF AckAcknowledge, Transition
  <2> QED
    BY <1>1, <2>1 DEF IInv, TypeOK, FlagsOff, NegotiationSound, ActivatedOnce,
                      LiveQueuesFrozen, interruptVars, AckAcknowledge
<1>2. CASE AckDriver(w)
  <2>1. "FEATURES_OK" \notin w /\ "DRIVER_OK" \notin w /\ device_status = {"ACKNOWLEDGE"}
    BY <1>2 DEF AckDriver, Transition
  <2> QED
    BY <1>2, <2>1 DEF IInv, TypeOK, FlagsOff, NegotiationSound, ActivatedOnce,
                      LiveQueuesFrozen, interruptVars, AckDriver
<1>3. CASE AckFeaturesOk(w)
  <2>1. "FEATURES_OK" \in w /\ "DRIVER_OK" \notin w /\ device_status = Negotiating
    BY <1>3 DEF AckFeaturesOk, Transition, Negotiating
  <2>2. activations = 0 /\ \A i \in QueueIds : ~queues[i].event_idx
    BY <2>1 DEF IInv, FlagsOff, ActivatedOnce, Negotiating
  <2>3. queues \in [QueueIds -> QueueType]
    BY DEF IInv, TypeOK
  <2>4. /\ queues' \in [QueueIds -> QueueType]
        /\ \A i \in QueueIds : queues'[i].event_idx <=> EventIdx \in driver_features
    BY <1>3, <2>2, <2>3, Zenon DEF AckFeaturesOk, QueueType
  <2> QED
    BY <1>3, <2>1, <2>2, <2>4 DEF IInv, TypeOK, FlagsOff, NegotiationSound, ActivatedOnce,
                                  LiveQueuesFrozen, interruptVars, AckFeaturesOk
<1>4. ASSUME NEW ok \in BOOLEAN, AckDriverOk(w, ok)
      PROVE  IInv'
  <2>1. "DRIVER_OK" \in w /\ device_status = Negotiated
    BY <1>4 DEF AckDriverOk, Transition
  <2>2. activations = 0 /\ "FEATURES_OK" \in device_status
    BY <2>1 DEF IInv, ActivatedOnce, Negotiated, Negotiating
  <2> QED
    BY <1>4, <2>1, <2>2 DEF IInv, TypeOK, FlagsOff, NegotiationSound, ActivatedOnce,
                            LiveQueuesFrozen, interruptVars, AckDriverOk
<1>5. CASE AckFailed(w)
  BY <1>5 DEF IInv, TypeOK, FlagsOff, NegotiationSound, ActivatedOnce, LiveQueuesFrozen,
              interruptVars, AckFailed, StatusBits
<1>6. CASE AckReset(w)
  BY <1>6, NewQueuesType, Zenon DEF IInv, TypeOK, FlagsOff, NegotiationSound, ActivatedOnce,
                             LiveQueuesFrozen, interruptVars, AckReset
<1> QED
  BY <1>1, <1>2, <1>3, <1>4, <1>5, <1>6 DEF AckDeviceStatus

\* The device's thread and the driver's handler leave the registers alone.
LEMMA InterruptStep ==
  ASSUME IInv,
         \/ \E b \in InterruptBits : PostEvent(b)
         \/ SetInterruptStatus \/ RaiseInterrupt
         \/ ReadInterruptStatus \/ InterruptAck \/ HandleEvents
  PROVE  IInv'
<1>1. UNCHANGED registerVars
  BY DEF PostEvent, SetInterruptStatus, RaiseInterrupt, ReadInterruptStatus, InterruptAck,
         HandleEvents
<1>2. /\ interrupt_status \subseteq InterruptBits /\ posting \subseteq InterruptBits
      /\ seen \subseteq InterruptBits /\ due \subseteq InterruptBits
  BY DEF IInv, TypeOK
<1>3. /\ interrupt_status' \subseteq InterruptBits /\ posting' \subseteq InterruptBits
      /\ seen' \subseteq InterruptBits /\ due' \subseteq InterruptBits
  BY <1>2 DEF PostEvent, SetInterruptStatus, RaiseInterrupt, ReadInterruptStatus, InterruptAck,
              HandleEvents
<1>4. /\ raising' \in BOOLEAN /\ irq' \in BOOLEAN /\ handler' \in {"idle", "ack", "handle"}
  BY Zenon DEF IInv, TypeOK, PostEvent, SetInterruptStatus, RaiseInterrupt, ReadInterruptStatus,
         InterruptAck, HandleEvents
<1>5. TypeOK'
  BY <1>1, <1>3, <1>4 DEF registerVars, IInv, TypeOK
<1> QED
  BY <1>1, <1>5 DEF registerVars, IInv, FlagsOff, NegotiationSound, ActivatedOnce,
                    LiveQueuesFrozen

\* The invariant holds in every state that a driver can bring the device to.
THEOREM DeviceInvariance == Spec => []IInv
<1>1. ASSUME Init
      PROVE  IInv
  <2>1. TypeOK
    <3>1. {interrupt_status, posting, seen, due} \subseteq SUBSET InterruptBits
      BY <1>1 DEF Init
    <3>2. {raising, irq} \subseteq BOOLEAN /\ handler \in {"idle", "ack", "handle"}
      BY <1>1, Zenon DEF Init
    <3> QED
      BY <1>1, <3>1, <3>2, NewQueuesType, MmioAssumption DEF Init, TypeOK
  <2> QED
    BY <1>1, <2>1, NewQueuesType DEF Init, IInv, FlagsOff, NegotiationSound, ActivatedOnce,
                                     LiveQueuesFrozen
<1>2. IInv /\ [Next]_vars => IInv'
  <2>1. CASE UNCHANGED vars
    BY <2>1 DEF vars, registerVars, interruptVars, IInv, TypeOK, FlagsOff, NegotiationSound,
                ActivatedOnce, LiveQueuesFrozen
  <2> QED
    BY <2>1, WriteStep, StatusStep, InterruptStep DEF Next
<1> QED
  BY <1>1, <1>2, PTL DEF Spec

\* All state keeps its type; a write that crosses the end of the configuration space
\* leaves it as long as it was.
THEOREM TypeCorrect == Spec => []TypeOK
BY DeviceInvariance, PTL DEF IInv

\* The features in force were offered, and the queues' event_idx flags agree with
\* them, for every sequence of register writes.
THEOREM FeaturesAreNegotiated == Spec => []NegotiationSound
BY DeviceInvariance, PTL DEF IInv

\* ack_device_status activates a device once between two resets.
THEOREM ActivationIsUnique == Spec => []ActivatedOnce
BY DeviceInvariance, PTL DEF IInv

\* update_queue_field and ack_device_status leave the queues of a running device
\* alone.
THEOREM RunningQueuesAreFrozen == Spec => []LiveQueuesFrozen
BY DeviceInvariance, PTL DEF IInv

\* Between two interrupts the handler has read nothing it still has to deal with.
HandlerInv == handler = "idle" => seen = {}

\* INTERRUPT_ACK takes away only what the handler has read and will deal with, so the
\* events of any number of kinds reach the driver, however its accesses and those of
\* the device's thread interleave.
THEOREM EventsReachTheDriver == Spec => []EventsNotLost
<1>1. Init => HandlerInv /\ EventsNotLost
  BY DEF Init, HandlerInv, EventsNotLost
<1>2. ASSUME HandlerInv, EventsNotLost, [Next]_vars
      PROVE  HandlerInv' /\ EventsNotLost'
  <2>1. CASE UNCHANGED interruptVars
    BY <1>2, <2>1 DEF interruptVars, HandlerInv, EventsNotLost
  <2>2. CASE \E w \in SUBSET StatusBits : AckReset(w)
    BY <2>2 DEF AckReset, HandlerInv, EventsNotLost
  <2>3. CASE \E b \in InterruptBits : PostEvent(b)
    BY <1>2, <2>3 DEF PostEvent, HandlerInv, EventsNotLost
  <2>4. CASE SetInterruptStatus
    BY <1>2, <2>4 DEF SetInterruptStatus, HandlerInv, EventsNotLost
  <2>5. CASE RaiseInterrupt
    BY <1>2, <2>5 DEF RaiseInterrupt, HandlerInv, EventsNotLost
  <2>6. CASE ReadInterruptStatus
    BY <1>2, <2>6 DEF ReadInterruptStatus, HandlerInv, EventsNotLost
  <2>7. CASE InterruptAck
    BY <1>2, <2>7 DEF InterruptAck, HandlerInv, EventsNotLost
  <2>8. CASE HandleEvents
    BY <1>2, <2>8 DEF HandleEvents, HandlerInv, EventsNotLost
  <2>9. ASSUME NEW w \in SUBSET StatusBits, AckDeviceStatus(w), ~AckReset(w)
        PROVE  UNCHANGED interruptVars
    BY <2>9 DEF AckDeviceStatus, AckAcknowledge, AckDriver, AckFeaturesOk, AckDriverOk, AckFailed
  <2> QED
    BY <1>2, <2>1, <2>2, <2>3, <2>4, <2>5, <2>6, <2>7, <2>8, <2>9, Zenon
    DEF Next, vars, SelectFeatures, SelectQueue, SetDriverFeatures, SetQueueRegister,
        SetQueueReady, UpdateQueueField, WriteConfig
<1> QED
  BY <1>1, <1>2, PTL DEF Spec

\* After FAILED only a reset has an effect.
THEOREM FailureIsFinal == Spec => FailedIsFinal
<1>1. ASSUME Next, "FAILED" \in device_status, device_status' # {}
      PROVE  UNCHANGED <<device_status, driver_features, queues, config_space, activations>>
  <2>1. ASSUME NEW w \in SUBSET StatusBits, AckDeviceStatus(w)
        PROVE  UNCHANGED <<device_status, driver_features, queues, config_space, activations>>
    BY <1>1, <2>1 DEF AckDeviceStatus, AckAcknowledge, AckDriver, AckFeaturesOk, AckDriverOk,
                      AckFailed, AckReset, Transition, Negotiating, Negotiated
  <2> QED
    BY <1>1, <2>1, Zenon DEF Next, SelectFeatures, SelectQueue, SetDriverFeatures, SetQueueRegister,
                      SetQueueReady, UpdateQueueField, WriteConfig, CheckDeviceStatus,
                      registerVars, PostEvent, SetInterruptStatus, RaiseInterrupt,
                      ReadInterruptStatus, InterruptAck, HandleEvents
<1>2. [Next]_vars => ["FAILED" \in device_status /\ device_status' # {} =>
          UNCHANGED <<device_status, driver_features, queues, config_space, activations>>]_vars
  BY <1>1
<1> QED
  BY <1>2, PTL DEF Spec, FailedIsFinal
-----------------------------------------------------------------------------
(***************************************************************************)
(* Console.                                                                *)
(***************************************************************************)

\* Sequences of numbers.

\* The elements of s come before those of t.
Below(s, t) == \A x \in Range(s), y \in Range(t) : x < y

\* A sequence put together is increasing when its parts are, one below the other.
LEMMA IncreasingConcat ==
  ASSUME NEW s \in Seq(Nat), NEW t \in Seq(Nat)
  PROVE  Increasing(s \o t) <=> Increasing(s) /\ Increasing(t) /\ Below(s, t)
<1> DEFINE u == s \o t
           m == Len(s)
           n == Len(t)
<1>1. /\ m \in Nat /\ n \in Nat /\ DOMAIN s = 1 .. m /\ DOMAIN t = 1 .. n /\ DOMAIN u = 1 .. m + n
      /\ \A k \in 1 .. m : u[k] = s[k]
      /\ \A k \in 1 .. n : u[m + k] = t[k]
  OBVIOUS
<1> HIDE DEF u, m, n
<1>2. ASSUME Increasing(u)
      PROVE  Increasing(s) /\ Increasing(t) /\ Below(s, t)
  <2>1. Increasing(s)
    BY <1>1, <1>2 DEF Increasing
  <2>2. ASSUME NEW j \in 1 .. n, NEW k \in 1 .. n, j < k
        PROVE  t[j] < t[k]
    <3>1. m + j \in 1 .. m + n /\ m + k \in 1 .. m + n /\ m + j < m + k
      BY <1>1, <2>2
    <3> QED
      BY <1>1, <1>2, <3>1, Zenon DEF Increasing
  <2>3. ASSUME NEW j \in 1 .. m, NEW k \in 1 .. n
        PROVE  s[j] < t[k]
    <3>1. j \in 1 .. m + n /\ m + k \in 1 .. m + n /\ j < m + k
      BY <1>1, <2>3
    <3> QED
      BY <1>1, <1>2, <3>1, Zenon DEF Increasing
  <2>4. Increasing(t)
    BY <1>1, <2>2, Zenon DEF Increasing
  <2>5. Below(s, t)
    BY <1>1, <2>3, Zenon DEF Below, Range
  <2> QED
    BY <2>1, <2>4, <2>5, Zenon
<1>3. ASSUME Increasing(s), Increasing(t), Below(s, t)
      PROVE  Increasing(u)
  <2>1. SUFFICES ASSUME NEW j \in 1 .. m + n, NEW k \in 1 .. m + n, j < k
                 PROVE  u[j] < u[k]
    BY <1>1 DEF Increasing
  <2>2. CASE k \in 1 .. m
    <3>1. j \in 1 .. m
      BY <1>1, <2>1, <2>2
    <3> QED
      BY <1>1, <1>3, <2>1, <2>2, <3>1, Zenon DEF Increasing
  <2>3. CASE k \notin 1 .. m /\ j \in 1 .. m
    <3>1. k - m \in 1 .. n /\ m + (k - m) = k
      BY <1>1, <2>3
    <3>2. u[k] \in Range(t) /\ u[j] \in Range(s)
      BY <1>1, <2>3, <3>1, Zenon DEF Range
    <3> QED
      BY <1>3, <3>2, Zenon DEF Below
  <2>4. CASE k \notin 1 .. m /\ j \notin 1 .. m
    <3>1. /\ k - m \in 1 .. n /\ m + (k - m) = k /\ j - m \in 1 .. n /\ m + (j - m) = j
          /\ j - m < k - m
      BY <1>1, <2>1, <2>4
    <3>2. u[k] = t[k - m] /\ u[j] = t[j - m]
      BY <1>1, <3>1, Zenon
    <3> QED
      BY <1>1, <1>3, <3>1, <3>2, Zenon DEF Increasing
  <2> QED
    BY <2>2, <2>3, <2>4
<1> QED
  BY <1>2, <1>3 DEF u

\* A sequence is its first n elements and the others.
LEMMA SplitSeq ==
  ASSUME NEW S, NEW s \in Seq(S), NEW n \in 0 .. Len(s)
  PROVE  LET a == SubSeq(s, 1, n)
             b == SubSeq(s, n + 1, Len(s))
         IN  /\ a \in Seq(S) /\ b \in Seq(S) /\ s = a \o b
             /\ Len(a) = n /\ Len(b) = Len(s) - n
<1> DEFINE a == SubSeq(s, 1, n)
           b == SubSeq(s, n + 1, Len(s))
<1>1. Len(s) \in Nat /\ n \in Nat /\ n <= Len(s)
  OBVIOUS
<1>2. Len(a) = n /\ a \in Seq(S) /\ Len(b) = Len(s) - n /\ b \in Seq(S)
  OBVIOUS
<1>3. 1 \in 1 .. Len(s) + 1 /\ n \in 1 - 1 .. Len(s) /\ Len(s) \in n .. Len(s)
  BY <1>1
<1>4. a \o b = s
  BY <1>3, ConcatAdjacentSubSeq, SubSeqFull, Zenon
<1> QED
  BY <1>2, <1>4, Zenon

\* The numbers that Numbered gives.
LEMMA NumberedType ==
  ASSUME NEW from \in Nat, NEW n \in Nat
  PROVE  /\ Numbered(from, n) \in Seq(Nat) /\ Len(Numbered(from, n)) = n
         /\ Range(Numbered(from, n)) = from + 1 .. from + n
         /\ Increasing(Numbered(from, n))
<1> DEFINE s == Numbered(from, n)
<1>1. /\ s = [k \in 1 .. n |-> from + k] /\ \A k \in 1 .. n : from + k \in Nat
  BY DEF Numbered
<1>2. s \in Seq(Nat) /\ Len(s) = n /\ DOMAIN s = 1 .. n
  BY <1>1
<1>3. Increasing(s)
  BY <1>1 DEF Increasing
<1>4. Range(s) = from + 1 .. from + n
  <2>1. ASSUME NEW x \in from + 1 .. from + n
        PROVE  x \in Range(s)
    <3>1. x - from \in 1 .. n /\ from + (x - from) = x
      OBVIOUS
    <3> QED
      BY <1>1, <1>2, <3>1, Zenon DEF Range
  <2>2. \A k \in 1 .. n : s[k] \in from + 1 .. from + n
    BY <1>1
  <2> HIDE DEF s
  <2> QED
    BY <1>2, <2>1, <2>2 DEF Range
<1> QED
  BY <1>2, <1>3, <1>4

-----------------------------------------------------------------------------
\* The input buffer.

\* The bytes in guest memory and those that wait, d and b: in order, and together
\* with the dropped ones, x, all that entered, once each.
Accounted(d, b, x, n) ==
  /\ Increasing(d) /\ Increasing(b) /\ Below(d, b)
  /\ (Range(d) \union Range(b)) \intersect x = {}
  /\ Range(d) \union Range(b) \union x = 1 .. n

\* BytesInOrder, part by part.
LEMMA AccountedIffInOrder ==
  ASSUME delivered \in Seq(Nat), input_buffer \in Seq(Nat)
  PROVE  BytesInOrder <=> Accounted(delivered, input_buffer, dropped, entered)
<1>1. Range(delivered \o input_buffer) = Range(delivered) \union Range(input_buffer)
  BY RangeConcatenation
<1>2. Increasing(delivered \o input_buffer) <=>
        Increasing(delivered) /\ Increasing(input_buffer) /\ Below(delivered, input_buffer)
  BY IncreasingConcat
<1> QED
  BY <1>1, <1>2, Zenon DEF BytesInOrder, Accounted

\* New bytes go behind all others.
LEMMA EnqueueAccounted ==
  ASSUME NEW d \in Seq(Nat), NEW b \in Seq(Nat), NEW x, NEW m \in Nat, NEW n \in Nat,
         Accounted(d, b, x, m)
  PROVE  Accounted(d, b \o Numbered(m, n), x, m + n)
<1> DEFINE new == Numbered(m, n)
<1>1. new \in Seq(Nat) /\ Range(new) = m + 1 .. m + n /\ Increasing(new)
  BY NumberedType, Zenon
<1>2. Range(d) \subseteq 1 .. m /\ Range(b) \subseteq 1 .. m /\ x \subseteq 1 .. m
  BY DEF Accounted
<1>3. Range(b \o new) = Range(b) \union Range(new)
  BY <1>1, RangeConcatenation
<1>4. \A i \in 1 .. m, j \in m + 1 .. m + n : i < j /\ i # j
  OBVIOUS
<1>5. (1 .. m) \union (m + 1 .. m + n) = 1 .. m + n
  OBVIOUS
<1>6. Below(d, new) /\ Below(b, new)
  BY <1>1, <1>2, <1>4, Zenon DEF Below
<1>7. Increasing(b \o new)
  BY <1>1, <1>6, IncreasingConcat DEF Accounted
<1>8. Below(d, b \o new)
  BY <1>3, <1>6, Zenon DEF Below, Accounted
<1>9. Range(new) \intersect x = {}
  BY <1>1, <1>2, <1>4, Zenon
<1> HIDE DEF new
<1>10. (Range(d) \union Range(b \o new)) \intersect x = {}
  BY <1>3, <1>9 DEF Accounted
<1>11. Range(d) \union Range(b \o new) \union x = 1 .. m + n
  BY <1>1, <1>3, <1>5 DEF Accounted
<1> QED
  BY <1>7, <1>8, <1>10, <1>11 DEF Accounted, new

\* The first bytes of the buffer, a, can move to guest memory or be dropped.
LEMMA DrainAccounted ==
  ASSUME NEW d \in Seq(Nat), NEW a \in Seq(Nat), NEW b \in Seq(Nat), NEW x, NEW m,
         Accounted(d, a \o b, x, m)
  PROVE  /\ Accounted(d \o a, b, x, m)
         /\ Accounted(d, b, x \union Range(a), m)
<1>1. /\ Range(a \o b) = Range(a) \union Range(b)
      /\ Range(d \o a) = Range(d) \union Range(a)
  BY RangeConcatenation
<1>2. Increasing(d) /\ Increasing(a) /\ Increasing(b) /\ Below(a, b)
  BY IncreasingConcat DEF Accounted
<1>3. Below(d, a) /\ Below(d, b)
  BY <1>1, Zenon DEF Accounted, Below
<1>4. Increasing(d \o a)
  BY <1>2, <1>3, IncreasingConcat
<1>5. Below(d \o a, b)
  BY <1>1, <1>2, <1>3, Zenon DEF Below
<1>6. Range(d) \subseteq Nat /\ Range(a) \subseteq Nat /\ Range(b) \subseteq Nat
  BY RangeOfSeq
<1>7. Range(d) \intersect Range(a) = {} /\ Range(a) \intersect Range(b) = {}
  <2>1. \A i \in Nat : ~(i < i)
    OBVIOUS
  <2> QED
    BY <1>2, <1>3, <1>6, <2>1, Zenon DEF Below
<1> QED
  BY <1>1, <1>2, <1>3, <1>4, <1>5, <1>7 DEF Accounted

\* What the operations on the buffer keep: beside the properties, a call that is in
\* its loop has written what it counted and could still put it back.
InputInv ==
  /\ input_buffer \in Seq(Nat) /\ delivered \in Seq(Nat)
  /\ receiving \in BOOLEAN /\ sent_bytes \in Nat /\ entered \in Nat /\ reported \in Nat
  /\ free_seen \in [Producers -> {Unknown} \union 0 .. Capacity]
  /\ Accounted(delivered, input_buffer, dropped, entered)
  /\ CapacityPromise
  /\ reported <= Len(delivered)
  /\ receiving => /\ reported + sent_bytes <= Len(delivered)
                  /\ sent_bytes + Len(input_buffer) <= Capacity

\* Every operation on the buffer, and every turn of the loop of
\* process_receiveq_chain, keeps the invariant.
LEMMA InputStep == InputInv /\ [ConsoleNext]_consoleVars => InputInv'
<1> SUFFICES ASSUME InputInv, [ConsoleNext]_consoleVars
             PROVE  InputInv'
  OBVIOUS
<1> DEFINE l == Len(input_buffer)
           g == Len(delivered)
<1>0. /\ input_buffer \in Seq(Nat) /\ delivered \in Seq(Nat) /\ l \in Nat /\ g \in Nat
      /\ Capacity \in Nat /\ MaxLen \in Nat /\ l <= Capacity
      /\ entered \in Nat /\ reported \in Nat /\ sent_bytes \in Nat /\ reported <= g
  BY ConsoleAssumption DEF InputInv, CapacityPromise
<1>a. Accounted(delivered, input_buffer, dropped, entered)
  BY Zenon DEF InputInv
<1>r. /\ receiving \in BOOLEAN
      /\ receiving => reported + sent_bytes <= g /\ sent_bytes + l <= Capacity
  BY Zenon DEF InputInv
<1>s. /\ free_seen \in [Producers -> {Unknown} \union 0 .. Capacity]
      /\ \A t \in Producers : free_seen[t] \in Int /\ free_seen[t] <= Capacity - l
  BY <1>0 DEF InputInv, CapacityPromise, Unknown
\* With less in the buffer, what producers saw is still free.
<1>f. ASSUME Len(input_buffer') \in Nat, Len(input_buffer') <= l, UNCHANGED free_seen
      PROVE  CapacityPromise'
  BY <1>0, <1>s, <1>f DEF CapacityPromise
<1>1. ASSUME NEW n \in 0 .. MaxBytes, EnqueueData(n)
      PROVE  InputInv'
  <2>n. n \in Nat
    OBVIOUS
  <2>1. n \in Nat /\ Numbered(entered, n) \in Seq(Nat) /\ Len(Numbered(entered, n)) = n
    BY <1>0, <2>n, NumberedType, Zenon
  <2>0. /\ ~receiving /\ l + n <= Capacity
        /\ input_buffer' = input_buffer \o Numbered(entered, n) /\ entered' = entered + n
        /\ UNCHANGED <<receiving, delivered, dropped, sent_bytes, reported>>
    BY <1>1, Zenon DEF EnqueueData
  <2>2. input_buffer' \in Seq(Nat) /\ Len(input_buffer') = l + n /\ entered' \in Nat
    <3> DEFINE new == Numbered(entered, n)
    <3>1. entered + n \in Nat
      BY <1>0, <2>n
    <3> HIDE DEF new
    <3>2. input_buffer \o new \in Seq(Nat) /\ Len(input_buffer \o new) = l + Len(new)
      BY <1>0, <2>1, ConcatProperties, Zenon DEF new
    <3> QED
      BY <2>0, <2>1, <3>1, <3>2, Zenon DEF new
  <2>3. Accounted(delivered', input_buffer', dropped', entered')
    BY <1>0, <1>a, <2>0, <2>1, EnqueueAccounted
  <2>4. free_seen' \in [Producers -> {Unknown} \union 0 .. Capacity] /\ CapacityPromise'
    <3>1. free_seen' = [t \in Producers |-> Unknown]
      BY <1>1 DEF EnqueueData
    <3>2. Unknown <= Capacity - (l + n)
      BY <1>0, <2>0, <2>1 DEF Unknown
    <3> HIDE DEF l
    <3> QED
      BY <2>0, <2>2, <3>1, <3>2 DEF CapacityPromise
  <2> QED
    BY <1>0, <1>a, <1>r, <2>0, <2>2, <2>3, <2>4 DEF InputInv
<1>2. ASSUME NEW t \in Producers, AvailableCapacity(t)
      PROVE  InputInv'
  <2>1. free_seen' = [free_seen EXCEPT ![t] = Capacity - l] /\ Capacity - l \in 0 .. Capacity
    BY <1>0, <1>2 DEF AvailableCapacity
  <2>2. UNCHANGED <<input_buffer, delivered, dropped, entered, receiving, sent_bytes, reported>>
    BY <1>2 DEF AvailableCapacity
  <2>3. free_seen' \in [Producers -> {Unknown} \union 0 .. Capacity]
    BY <1>s, <2>1
  <2>4. CapacityPromise'
    <3>1. l <= Capacity /\ Capacity - l <= Capacity - l
      BY <1>0
    <3>2. ASSUME NEW u \in Producers
          PROVE  free_seen'[u] <= Capacity - l
      <4>1. free_seen'[u] = IF u = t THEN Capacity - l ELSE free_seen[u]
        BY <1>s, <2>1
      <4> QED
        BY <1>s, <3>1, <4>1, Zenon
    <3> QED
      BY <2>2, <3>1, <3>2, Zenon DEF CapacityPromise
  <2> QED
    BY <1>0, <1>a, <1>r, <2>2, <2>3, <2>4 DEF InputInv
<1>3. CASE ClearInputBuffer
  <2>1. /\ input_buffer' = <<>> /\ ~receiving
        /\ dropped' = dropped \union Range(input_buffer)
        /\ UNCHANGED <<receiving, delivered, entered, sent_bytes, reported, free_seen>>
    BY <1>3, Zenon DEF ClearInputBuffer
  <2>2. input_buffer \o <<>> = input_buffer /\ <<>> \in Seq(Nat) /\ Len(<<>>) = 0
    BY <1>0
  <2>3. Accounted(delivered, <<>>, dropped \union Range(input_buffer), entered)
    BY <1>0, <1>a, <2>2, DrainAccounted, Zenon
  <2>4. CapacityPromise'
    BY <1>0, <1>f, <2>1, <2>2
  <2> QED
    BY <1>0, <1>a, <1>r, <1>s, <2>1, <2>2, <2>3, <2>4 DEF InputInv
<1>4. CASE StartReceive
  <2>1. /\ receiving' = TRUE /\ sent_bytes' = 0
        /\ UNCHANGED <<input_buffer, delivered, dropped, entered, reported, free_seen>>
    BY <1>4 DEF StartReceive
  <2>2. reported' + sent_bytes' <= Len(delivered') /\ sent_bytes' + Len(input_buffer') <= Capacity
    BY <1>0, <2>1
  <2>3. CapacityPromise'
    BY <2>1 DEF InputInv, CapacityPromise
  <2> QED
    BY <1>0, <1>a, <1>r, <1>s, <2>1, <2>2, <2>3 DEF InputInv
<1>5. ASSUME NEW d \in Descriptor, Send(d)
      PROVE  InputInv'
  <2> DEFINE n == IF d.len < l THEN d.len ELSE l
             a == SubSeq(input_buffer, 1, n)
             b == SubSeq(input_buffer, n + 1, l)
  <2>1. n \in 0 .. l
    BY <1>0 DEF Descriptor
  <2>2. /\ a \in Seq(Nat) /\ b \in Seq(Nat) /\ input_buffer = a \o b
        /\ Len(a) = n /\ Len(b) = l - n
    <3>1. input_buffer \in Seq(Nat) /\ n \in 0 .. Len(input_buffer)
      BY <1>0, <2>1
    <3> HIDE DEF n
    <3> QED
      BY ONLY <3>1, SplitSeq, Zenon DEF l
  <2>3. /\ receiving /\ UNCHANGED <<entered, free_seen>>
        /\ \/ /\ receiving' = FALSE /\ reported' = reported + 0
              /\ UNCHANGED <<input_buffer, delivered, dropped, sent_bytes>>
           \/ /\ receiving' = FALSE /\ reported' = reported + 0 /\ input_buffer' = b
              /\ dropped' = dropped \union Range(a)
              /\ UNCHANGED <<delivered, sent_bytes>>
           \/ /\ input_buffer' = b /\ delivered' = delivered \o a
              /\ sent_bytes' = sent_bytes + n /\ UNCHANGED dropped
              /\ \/ receiving' = FALSE /\ reported' = reported + sent_bytes'
                 \/ UNCHANGED <<receiving, reported>>
    <3>1. Drain(n).taken = a /\ Drain(n).rest = b
      BY Zenon DEF Drain
    <3> HIDE DEF a, b
    <3> QED
      BY <1>5, <3>1, Zenon DEF Send, Return
  <2>4. /\ Accounted(delivered \o a, b, dropped, entered)
        /\ Accounted(delivered, b, dropped \union Range(a), entered)
    BY <1>0, <1>a, <2>2, DrainAccounted, Zenon
  <2>n. n \in Nat /\ n <= l
    BY <1>0, <2>1
  <2> HIDE DEF n, a, b
  <2>5. CASE /\ receiving' = FALSE /\ reported' = reported + 0
             /\ UNCHANGED <<input_buffer, delivered, dropped, sent_bytes>>
    <3>1. reported' = reported /\ CapacityPromise'
      BY <1>0, <2>3, <2>5 DEF InputInv, CapacityPromise
    <3> QED
      BY <1>0, <1>a, <1>r, <1>s, <2>3, <2>5, <3>1, Zenon DEF InputInv
  <2>6. CASE /\ receiving' = FALSE /\ reported' = reported + 0 /\ input_buffer' = b
             /\ dropped' = dropped \union Range(a)
             /\ UNCHANGED <<delivered, sent_bytes>>
    <3>1. reported' = reported /\ Len(input_buffer') \in Nat /\ Len(input_buffer') <= l
      BY <1>0, <2>2, <2>6, <2>n
    <3>2. CapacityPromise'
      BY <1>f, <2>3, <3>1
    <3> QED
      BY <1>0, <1>a, <1>r, <1>s, <2>2, <2>3, <2>4, <2>6, <3>1, <3>2, Zenon DEF InputInv
  <2>7. CASE /\ input_buffer' = b /\ delivered' = delivered \o a
             /\ sent_bytes' = sent_bytes + n /\ UNCHANGED dropped
             /\ \/ receiving' = FALSE /\ reported' = reported + sent_bytes'
                \/ UNCHANGED <<receiving, reported>>
    <3>2. Len(input_buffer') \in Nat /\ Len(input_buffer') = l - n /\ Len(input_buffer') <= l
      BY <1>0, <2>2, <2>7, <2>n
    <3>3. CapacityPromise'
      BY <1>f, <2>3, <3>2, Zenon
    <3>4. delivered' \in Seq(Nat) /\ Len(delivered') = g + n
      BY <1>0, <2>2, <2>7, ConcatProperties, Zenon
    <3> HIDE DEF l, g
    <3>5. reported + sent_bytes <= g /\ sent_bytes + l <= Capacity
      BY <1>r, <2>3, Zenon
    <3>6. /\ sent_bytes' \in Nat /\ reported + sent_bytes' \in Nat
          /\ reported + sent_bytes' <= Len(delivered') /\ reported <= Len(delivered')
          /\ sent_bytes' + Len(input_buffer') <= Capacity
      <4>1. sent_bytes' = sent_bytes + n
        BY <2>7
      <4> QED
        BY <1>0, <2>n, <3>2, <3>4, <3>5, <4>1
    <3>7. /\ reported' \in Nat /\ reported' <= Len(delivered') /\ receiving' \in BOOLEAN
          /\ receiving' => reported' + sent_bytes' <= Len(delivered')
      BY <1>0, <1>r, <2>7, <3>6, Zenon
    <3> QED
      BY <1>0, <1>a, <1>r, <1>s, <2>2, <2>3, <2>4, <2>7, <3>3, <3>4, <3>6, <3>7 DEF InputInv
  <2> QED
    BY <2>3, <2>5, <2>6, <2>7, Zenon
<1>6. CASE EndReceive
  <2>1. /\ receiving /\ receiving' = FALSE /\ reported' = reported + sent_bytes
        /\ UNCHANGED <<input_buffer, sent_bytes, entered, delivered, dropped, free_seen>>
    BY <1>6 DEF EndReceive, Return
  <2>2. reported' \in Nat /\ reported' <= Len(delivered')
    BY <1>0, <1>r, <2>1
  <2>3. CapacityPromise'
    BY <2>1 DEF InputInv, CapacityPromise
  <2> QED
    BY <1>0, <1>a, <1>r, <1>s, <2>1, <2>2, <2>3, Zenon DEF InputInv
<1>7. CASE UNCHANGED inputVars
  BY <1>7 DEF inputVars, InputInv, CapacityPromise, Accounted
<1>8. \A d \in TxDescriptor : Transmit(d) => UNCHANGED inputVars
  BY DEF Transmit
<1> QED
  BY <1>1, <1>2, <1>3, <1>4, <1>5, <1>6, <1>7, <1>8 DEF ConsoleNext, consoleVars

\* The invariant of the input buffer holds for every capacity.
LEMMA InputInvariance == ConsoleSpec => []InputInv
<1>1. ASSUME ConsoleInit
      PROVE  InputInv
  <2>1. /\ input_buffer = <<>> /\ delivered = <<>> /\ dropped = {} /\ receiving = FALSE
        /\ entered = 0 /\ sent_bytes = 0 /\ reported = 0 /\ free_seen = [t \in Producers |-> Unknown]
    BY <1>1 DEF ConsoleInit
  <2>2. <<>> \in Seq(Nat) /\ Len(<<>>) = 0 /\ Range(<<>>) = {} /\ DOMAIN <<>> = {}
    BY DEF Range
  <2>3. 1 .. 0 = {}
    OBVIOUS
  <2>4. Accounted(<<>>, <<>>, {}, 0)
    BY <2>2, <2>3 DEF Accounted, Increasing, Below
  <2>5. Unknown <= Capacity - 0 /\ 0 <= Capacity /\ Capacity \in Nat
    BY ConsoleAssumption DEF Unknown
  <2>6. CapacityPromise
    BY <2>1, <2>2, <2>5 DEF CapacityPromise
  <2>7. free_seen \in [Producers -> {Unknown} \union 0 .. Capacity]
    BY <2>1
  <2>8. FALSE \in BOOLEAN /\ 0 \in Nat /\ 0 <= 0
    OBVIOUS
  <2> QED
    BY <2>1, <2>2, <2>4, <2>6, <2>7, <2>8, Zenon DEF InputInv
<1> QED
  BY <1>1, InputStep, PTL DEF ConsoleSpec

\* Bytes reach the guest in order and none is lost, doubled or forgotten, for every
\* capacity and all chains of the driver.
THEOREM BytesStayInOrder == ConsoleSpec => []BytesInOrder
<1>1. InputInv => BytesInOrder
  BY AccountedIffInOrder DEF InputInv
<1> QED
  BY <1>1, InputInvariance, PTL

\* What available_capacity promised a producer holds until bytes are enqueued.
THEOREM CapacityIsKept == ConsoleSpec => []CapacityPromise
<1>1. InputInv => CapacityPromise
  BY DEF InputInv
<1> QED
  BY <1>1, InputInvariance, PTL

\* process_receiveq_chain reports no byte it has not written.
THEOREM ReportsAreTrue == ConsoleSpec => []ReportedDelivered
<1>1. InputInv => ReportedDelivered
  BY DEF InputInv, ReportedDelivered
<1> QED
  BY <1>1, InputInvariance, PTL
-----------------------------------------------------------------------------
\* The output.

\* Beside the property: every byte in the sink, and every byte left out, was offered.
OutputInv ==
  /\ output \in Seq(Nat) /\ offered \in Nat /\ transmit_ok \in BOOLEAN
  /\ Increasing(output)
  /\ Range(output) \subseteq 1 .. offered /\ short \subseteq 1 .. offered
  /\ transmit_ok => flushed = Len(output) /\ Range(output) = (1 .. offered) \ short

\* Every descriptor of the transmit queue keeps the invariant.
LEMMA OutputStep == OutputInv /\ [ConsoleNext]_consoleVars => OutputInv'
<1> SUFFICES ASSUME OutputInv, [ConsoleNext]_consoleVars
             PROVE  OutputInv'
  OBVIOUS
<1>1. ASSUME NEW d \in TxDescriptor, Transmit(d)
      PROVE  OutputInv'
  <2> DEFINE n == offered
             m == d.len
             t == d.taken
             new == Numbered(n, t)
             left == n + t + 1 .. n + m
  <2>0. m \in Nat /\ t \in Nat /\ t <= m /\ n \in Nat /\ output \in Seq(Nat)
    <3>1. MaxLen \in Nat /\ m \in 0 .. MaxLen /\ t \in 0 .. MaxLen /\ t <= m
      BY ConsoleAssumption DEF TxDescriptor
    <3>2. n \in Nat /\ output \in Seq(Nat)
      BY Zenon DEF OutputInv
    <3> HIDE DEF m, t
    <3> QED
      BY <3>1, <3>2
  <2>1. offered' = n + m /\ n + m \in Nat
    BY <1>1, <2>0 DEF Transmit
  <2>2. CASE d.write_only
    <3>1. transmit_ok' = FALSE /\ UNCHANGED <<output, flushed, short>>
      BY <1>1, <2>2 DEF Transmit
    <3>2. 1 .. n \subseteq 1 .. n + m
      BY <2>0
    <3> QED
      BY <2>0, <2>1, <3>1, <3>2, Zenon DEF OutputInv
  <2>3. CASE ~d.write_only
    <3>1. /\ output' = output \o new /\ short' = short \union left
          /\ transmit_ok' = (transmit_ok /\ d.end = "ok")
          /\ flushed' = IF d.end = "ok" THEN Len(output') ELSE flushed
      BY <1>1, <2>3 DEF Transmit
    <3>2. new \in Seq(Nat) /\ Range(new) = n + 1 .. n + t /\ Increasing(new)
      BY <2>0, NumberedType, Zenon
    <3>3. output' \in Seq(Nat) /\ Range(output') = Range(output) \union Range(new)
      BY <2>0, <3>1, <3>2, ConcatProperties, RangeConcatenation
    <3>4. \A i \in 1 .. n, j \in n + 1 .. n + t : i < j
      BY <2>0
    <3>5. Increasing(output')
      <4>1. Below(output, new)
        BY <3>2, <3>4, Zenon DEF Below, OutputInv
      <4> QED
        BY <2>0, <3>1, <3>2, <4>1, IncreasingConcat DEF OutputInv
    <3>6. /\ 1 .. n + m = (1 .. n) \union (n + 1 .. n + t) \union left
          /\ (n + 1 .. n + t) \intersect left = {} /\ (1 .. n) \intersect left = {}
          /\ (n + 1 .. n + t) \intersect (1 .. n) = {}
      BY <2>0
    <3> HIDE DEF new, left, n, m, t
    <3>7. Range(output') \subseteq 1 .. offered' /\ short' \subseteq 1 .. offered'
      BY <2>1, <3>1, <3>2, <3>3, <3>6, Zenon DEF OutputInv, n
    <3>8. Range(output) = (1 .. n) \ short => Range(output') = (1 .. offered') \ short'
      <4>1. short \subseteq 1 .. n
        BY DEF OutputInv, n
      <4> QED
        BY <2>1, <3>1, <3>2, <3>3, <3>6, <4>1
    <3>9. transmit_ok' => flushed' = Len(output') /\ Range(output') = (1 .. offered') \ short'
      BY <3>1, <3>8, Zenon DEF OutputInv, n
    <3>10. transmit_ok' \in BOOLEAN
      BY <3>1
    <3> QED
      BY <2>1, <3>3, <3>5, <3>7, <3>9, <3>10 DEF OutputInv
  <2> QED
    BY <2>2, <2>3
<1>2. CASE UNCHANGED outputVars
  BY <1>2 DEF outputVars, OutputInv
<1>3. /\ \A k \in 0 .. MaxBytes : EnqueueData(k) => UNCHANGED outputVars
      /\ \A u \in Producers : AvailableCapacity(u) => UNCHANGED outputVars
      /\ ClearInputBuffer => UNCHANGED outputVars
      /\ StartReceive => UNCHANGED outputVars
      /\ \A d \in Descriptor : Send(d) => UNCHANGED outputVars
      /\ EndReceive => UNCHANGED outputVars
  BY DEF EnqueueData, AvailableCapacity, ClearInputBuffer, StartReceive, Send, EndReceive
<1> QED
  BY <1>1, <1>2, <1>3, Zenon DEF ConsoleNext, consoleVars

\* The sink gets the bytes of the transmit queue in order, and all of them that were
\* not left out, for every length and outcome of the writes.
THEOREM TransmitsInOrder == ConsoleSpec => []TransmitInOrder
<1>1. ASSUME ConsoleInit
      PROVE  OutputInv
  <2>1. output = <<>> /\ flushed = 0 /\ offered = 0 /\ short = {} /\ transmit_ok = TRUE
    BY <1>1 DEF ConsoleInit
  <2>2. <<>> \in Seq(Nat) /\ Len(<<>>) = 0 /\ Range(<<>>) = {} /\ DOMAIN <<>> = {}
    BY DEF Range
  <2>3. 1 .. 0 = {}
    OBVIOUS
  <2> QED
    BY <2>1, <2>2, <2>3 DEF OutputInv, Increasing
<1>2. OutputInv => TransmitInOrder
  BY DEF OutputInv, TransmitInOrder
<1> QED
  BY <1>1, <1>2, OutputStep, PTL DEF ConsoleSpec
=============================================================================
