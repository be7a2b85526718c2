----------------------------- MODULE VirtioMmio -----------------------------
(***************************************************************************)
(* A virtio device behind the MMIO transport: the writes of a driver to    *)
(* the registers and the configuration space (VirtioMmioDevice::write),    *)
(* in any order and with any values, and the device status protocol        *)
(* (VirtioDevice::ack_device_status).  A write the code refuses with a     *)
(* warning changes nothing and is no step here.                            *)
(*                                                                         *)
(* A queue is what the driver wrote to its size and address registers (one *)
(* abstract value, see module QueueConfig for the registers themselves),   *)
(* its ready flag and its event_idx flag.                                  *)
(***************************************************************************)
EXTENDS Naturals, Sequences

CONSTANTS
  Features,        \* the feature bits
  Page,            \* the 32-bit page, 0 or 1, of every feature bit
  EventIdx,        \* VIRTIO_F_RING_EVENT_IDX
  DeviceFeatures,  \* the features the device offers
  NumQueues,
  QueueValues,     \* what size and address registers of a queue may hold
  InitialQueue,    \* what they hold in a new queue
  InterruptBits,   \* the reasons for an interrupt (used buffers, configuration change)
  Bytes,           \* values of a byte of the configuration space
  ConfigLen        \* length of the configuration space

ASSUME MmioAssumption ==
  /\ EventIdx \in Features /\ DeviceFeatures \subseteq Features
  /\ Page \in [Features -> {0, 1}]
  /\ NumQueues \in Nat /\ ConfigLen \in Nat
  /\ InitialQueue \in QueueValues

VARIABLES
  device_status,           \* the set of status bits
  driver_features,
  driver_features_select,
  queue_select,
  queues,
  config_space,
  interrupt_status,        \* shared with the device's thread, which sets bits in it
  \* the device's thread (external)
  posting,                 \* the bit it is about to set
  raising,                 \* it has set a bit and is about to raise the interrupt
  irq,                     \* the interrupt is raised
  \* the driver's interrupt handler (external)
  handler,                 \* "idle", "ack" or "handle"
  seen,                    \* the interrupt status it has read
  \* history
  due,                     \* events that the driver's handler has not dealt with
  activations,             \* successful calls of activate since the last reset
  live                     \* the queues the last of them was given

interruptVars == <<interrupt_status, posting, raising, irq, handler, seen, due>>
registerVars == <<device_status, driver_features, driver_features_select, queue_select, queues,
                  config_space, activations, live>>
vars == <<registerVars, interruptVars>>

StatusBits == {"ACKNOWLEDGE", "DRIVER", "FEATURES_OK", "DRIVER_OK", "FAILED",
               "DEVICE_NEEDS_RESET"}
Negotiating == {"ACKNOWLEDGE", "DRIVER"}
Negotiated == Negotiating \union {"FEATURES_OK"}

QueueIds == 0 .. NumQueues - 1
NewQueues == [i \in QueueIds |-> [regs |-> InitialQueue, ready |-> FALSE, event_idx |-> FALSE]]

\* VirtioConfig::new
Init ==
  /\ device_status = {} /\ driver_features = {}
  /\ driver_features_select = 0 /\ queue_select = 0
  /\ queues = NewQueues
  /\ config_space \in [0 .. ConfigLen - 1 -> Bytes]
  /\ interrupt_status = {} /\ posting = {} /\ raising = FALSE /\ irq = FALSE
  /\ handler = "idle" /\ seen = {} /\ due = {}
  /\ activations = 0 /\ live = NewQueues
-----------------------------------------------------------------------------
\* VirtioDevice::check_device_status
CheckDeviceStatus(set, cleared) == set \subseteq device_status /\ device_status \intersect cleared = {}

\* VIRTIO_MMIO_DRIVER_FEATURES_SEL and VIRTIO_MMIO_QUEUE_SEL: page 2 and queue
\* NumQueues stand for all that do not exist.
SelectFeatures(page) ==
  /\ driver_features_select' = page
  /\ UNCHANGED <<device_status, driver_features, queue_select, queues, config_space, activations,
                 live, interruptVars>>

SelectQueue(i) ==
  /\ queue_select' = i
  /\ UNCHANGED <<device_status, driver_features, driver_features_select, queues, config_space,
                 activations, live, interruptVars>>

\* Bug: the features stay writable after FEATURES_OK.
SetDriverFeaturesAlways(v) ==
  /\ CheckDeviceStatus({"DRIVER"}, {"FAILED"})
  /\ driver_features_select \in {0, 1}
  /\ \A f \in v : Page[f] = driver_features_select
  /\ driver_features' = {f \in driver_features : Page[f] # driver_features_select} \union v
  /\ UNCHANGED <<device_status, driver_features_select, queue_select, queues, config_space,
                 activations, live, interruptVars>>

\* VIRTIO_MMIO_DRIVER_FEATURES: replace the selected page, keep the other.
SetDriverFeatures(v) ==
  /\ CheckDeviceStatus({"DRIVER"}, {"FEATURES_OK", "FAILED"})
  /\ driver_features_select \in {0, 1}
  /\ \A f \in v : Page[f] = driver_features_select
  /\ driver_features' = {f \in driver_features : Page[f] # driver_features_select} \union v
  /\ UNCHANGED <<device_status, driver_features_select, queue_select, queues, config_space,
                 activations, live, interruptVars>>

\* Bug: update_queue_field does not look at DRIVER_OK.
UpdateQueueFieldWhileLive(regs, ready) ==
  /\ CheckDeviceStatus({"FEATURES_OK"}, {"FAILED"})
  /\ queue_select \in QueueIds
  /\ queues' = [queues EXCEPT ![queue_select].regs = regs, ![queue_select].ready = ready]
  /\ UNCHANGED <<device_status, driver_features, driver_features_select, queue_select,
                 config_space, activations, live, interruptVars>>

\* update_queue_field, for a queue that exists.
UpdateQueueField(regs, ready) ==
  /\ CheckDeviceStatus({"FEATURES_OK"}, {"DRIVER_OK", "FAILED"})
  /\ queue_select \in QueueIds
  /\ queues' = [queues EXCEPT ![queue_select].regs = regs, ![queue_select].ready = ready]
  /\ UNCHANGED <<device_status, driver_features, driver_features_select, queue_select,
                 config_space, activations, live, interruptVars>>

\* The registers of update_queue_field: QUEUE_NUM and the six halves of the
\* addresses (the queue may refuse the value), QUEUE_READY.
SetQueueRegister(v) == queue_select \in QueueIds /\ UpdateQueueField(v, queues[queue_select].ready)
SetQueueReady(b) == queue_select \in QueueIds /\ UpdateQueueField(queues[queue_select].regs, b)

\* Bug: the whole of data is written, wherever the configuration space ends.
WriteConfigUnclipped(offset, data) ==
  /\ CheckDeviceStatus({"DRIVER"}, {"FAILED"})
  /\ offset < ConfigLen
  /\ config_space' = [i \in DOMAIN config_space \union (offset .. offset + Len(data) - 1) |->
                        IF i \in offset .. offset + Len(data) - 1
                        THEN data[i - offset + 1] ELSE config_space[i]]
  /\ UNCHANGED <<device_status, driver_features, driver_features_select, queue_select, queues,
                 activations, live, interruptVars>>

\* Bug: a failed device still takes writes to its configuration space.
WriteConfigFailed(offset, data) ==
  /\ CheckDeviceStatus({"DRIVER"}, {})
  /\ offset < ConfigLen
  /\ config_space' = [i \in DOMAIN config_space |->
                        IF i \in offset .. offset + Len(data) - 1
                        THEN data[i - offset + 1] ELSE config_space[i]]
  /\ UNCHANGED <<device_status, driver_features, driver_features_select, queue_select, queues,
                 activations, live, interruptVars>>

\* A write at VIRTIO_MMIO_CONFIG and above; what lies past the end is dropped.
WriteConfig(offset, data) ==
  /\ CheckDeviceStatus({"DRIVER"}, {"FAILED"})
  /\ offset < ConfigLen
  /\ config_space' = [i \in DOMAIN config_space |->
                        IF i \in offset .. offset + Len(data) - 1
                        THEN data[i - offset + 1] ELSE config_space[i]]
  /\ UNCHANGED <<device_status, driver_features, driver_features_select, queue_select, queues,
                 activations, live, interruptVars>>
-----------------------------------------------------------------------------
\* ack_device_status(w), one action per arm of the match.

\* The changed bits are exactly `bit` and the current status is `before`.  The
\* driver may leave out bits that are set: the value stored is the one written.
Transition(w, bit, before) == w \ device_status = {bit} /\ device_status = before

AckAcknowledge(w) ==
  /\ Transition(w, "ACKNOWLEDGE", {})
  /\ device_status' = w
  /\ UNCHANGED <<driver_features, driver_features_select, queue_select, queues, config_space,
                 activations, live, interruptVars>>

AckDriver(w) ==
  /\ Transition(w, "DRIVER", {"ACKNOWLEDGE"})
  /\ device_status' = w
  /\ UNCHANGED <<driver_features, driver_features_select, queue_select, queues, config_space,
                 activations, live, interruptVars>>

\* Refused when the driver took a feature that was not offered.
AckFeaturesOk(w) ==
  /\ Transition(w, "FEATURES_OK", Negotiating)
  /\ driver_features \subseteq DeviceFeatures
  /\ queues' = IF EventIdx \in driver_features
               THEN [i \in QueueIds |-> [queues[i] EXCEPT !.event_idx = TRUE]]
               ELSE queues
  /\ device_status' = w
  /\ UNCHANGED <<driver_features, driver_features_select, queue_select, config_space,
                 activations, live, interruptVars>>

\* Bug: the status is stored although activate failed.
AckDriverOkAnyway(w, ok) ==
  /\ Transition(w, "DRIVER_OK", Negotiated)
  /\ device_status' = w
  /\ activations' = IF ok THEN activations + 1 ELSE activations
  /\ live' = IF ok THEN queues ELSE live
  /\ UNCHANGED <<driver_features, driver_features_select, queue_select, queues, config_space,
                 interruptVars>>

\* activate (external) starts the device on its queues, or fails and the driver
\* may try again.
AckDriverOk(w, ok) ==
  /\ Transition(w, "DRIVER_OK", Negotiated)
  /\ ok
  /\ device_status' = w
  /\ activations' = activations + 1
  /\ live' = queues
  /\ UNCHANGED <<driver_features, driver_features_select, queue_select, queues, config_space,
                 interruptVars>>

\* No other arm matches a value with FAILED in it.
AckFailed(w) ==
  /\ "FAILED" \in w
  /\ device_status' = device_status \union {"FAILED"}
  /\ UNCHANGED <<driver_features, driver_features_select, queue_select, queues, config_space,
                 activations, live, interruptVars>>

\* The driver writes 0.  The device's reset is external: assumed to return the
\* status, the features and the queues to their initial values when it succeeds,
\* and to leave them alone when it fails.  It stops the device's
\* thread; the interrupt status may be left as it is.
AckReset(w) ==
  /\ w = {}
  /\ device_status' = {} /\ driver_features' = {}
  /\ queues' = NewQueues
  /\ activations' = 0 /\ live' = NewQueues
  /\ interrupt_status' \in {interrupt_status, {}}
  /\ posting' = {} /\ raising' = FALSE
  /\ handler' = "idle" /\ seen' = {} /\ due' = {}
  /\ UNCHANGED <<driver_features_select, queue_select, config_space, irq>>

AckDeviceStatus(w) ==
  \/ AckAcknowledge(w) \/ AckDriver(w) \/ AckFeaturesOk(w)
  \/ \E ok \in BOOLEAN : AckDriverOk(w, ok)
  \/ AckFailed(w) \/ AckReset(w)

-----------------------------------------------------------------------------
\* Interrupts.

\* The thread of a running device has something for the driver, then sets the bit in
\* interrupt_status, then raises the interrupt.
PostEvent(b) ==
  /\ "DRIVER_OK" \in device_status
  /\ posting = {} /\ ~raising
  /\ posting' = {b} /\ due' = due \union {b}
  /\ UNCHANGED <<registerVars, interrupt_status, raising, irq, handler, seen>>

SetInterruptStatus ==
  /\ posting # {}
  /\ interrupt_status' = interrupt_status \union posting
  /\ posting' = {} /\ raising' = TRUE
  /\ UNCHANGED <<registerVars, irq, handler, seen, due>>

RaiseInterrupt ==
  /\ raising /\ raising' = FALSE /\ irq' = TRUE
  /\ UNCHANGED <<registerVars, interrupt_status, posting, handler, seen, due>>

\* The driver's handler reads VIRTIO_MMIO_INTERRUPT_STATUS, writes what it has read to
\* VIRTIO_MMIO_INTERRUPT_ACK, and deals with the events it has read.
ReadInterruptStatus ==
  /\ irq /\ handler = "idle"
  /\ irq' = FALSE /\ handler' = "ack" /\ seen' = interrupt_status
  /\ UNCHANGED <<registerVars, interrupt_status, posting, raising, due>>

\* Bug: the status is cleared, whatever the driver acknowledges.
InterruptAckAll ==
  /\ handler = "ack" /\ handler' = "handle"
  /\ interrupt_status' = IF CheckDeviceStatus({"DRIVER_OK"}, {}) THEN {} ELSE interrupt_status
  /\ UNCHANGED <<registerVars, posting, raising, irq, seen, due>>

InterruptAck ==
  /\ handler = "ack" /\ handler' = "handle"
  /\ interrupt_status' = IF CheckDeviceStatus({"DRIVER_OK"}, {})
                         THEN interrupt_status \ seen ELSE interrupt_status
  /\ UNCHANGED <<registerVars, posting, raising, irq, seen, due>>

HandleEvents ==
  /\ handler = "handle" /\ handler' = "idle"
  /\ due' = due \ seen /\ seen' = {}
  /\ UNCHANGED <<registerVars, interrupt_status, posting, raising, irq>>
-----------------------------------------------------------------------------
ConfigData == {<<a>> : a \in Bytes} \union {<<a, b>> : a \in Bytes, b \in Bytes}

Next ==
  \/ \E page \in 0 .. 2 : SelectFeatures(page)
  \/ \E i \in 0 .. NumQueues : SelectQueue(i)
  \/ \E v \in SUBSET Features : SetDriverFeatures(v)
  \/ \E v \in QueueValues : SetQueueRegister(v)
  \/ \E b \in BOOLEAN : SetQueueReady(b)
  \/ \E offset \in 0 .. ConfigLen, data \in ConfigData : WriteConfig(offset, data)
  \/ \E w \in SUBSET StatusBits : AckDeviceStatus(w)
  \/ \E b \in InterruptBits : PostEvent(b)
  \/ SetInterruptStatus \/ RaiseInterrupt
  \/ ReadInterruptStatus \/ InterruptAck \/ HandleEvents

Spec == Init /\ [][Next]_vars
-----------------------------------------------------------------------------
QueueType == [regs : QueueValues, ready : BOOLEAN, event_idx : BOOLEAN]

TypeOK ==
  /\ device_status \subseteq StatusBits /\ driver_features \subseteq Features
  /\ driver_features_select \in 0 .. 2 /\ queue_select \in 0 .. NumQueues
  /\ queues \in [QueueIds -> QueueType] /\ live \in [QueueIds -> QueueType]
  /\ config_space \in [0 .. ConfigLen - 1 -> Bytes]
  /\ {interrupt_status, posting, seen, due} \subseteq SUBSET InterruptBits
  /\ {raising, irq} \subseteq BOOLEAN /\ handler \in {"idle", "ack", "handle"}
  /\ activations \in Nat

\* As long as the driver sees FEATURES_OK, the features it took are features the
\* device offered, and every queue uses event indices exactly if the driver took
\* that feature; whatever status values the driver wrote before.
NegotiationSound ==
  "FEATURES_OK" \in device_status =>
    /\ driver_features \subseteq DeviceFeatures
    /\ \A i \in QueueIds : queues[i].event_idx <=> EventIdx \in driver_features

\* DRIVER_OK is set exactly while the device runs, and a device that runs was
\* activated once: a driver cannot start it again without a reset, nor see
\* DRIVER_OK after an activation that failed.
ActivatedOnce == activations = IF "DRIVER_OK" \in device_status THEN 1 ELSE 0

\* A running device keeps the queues it was activated with: no register write,
\* and no status the driver can reach without a reset, changes them.
LiveQueuesFrozen == activations > 0 => queues = live

\* No event is lost between the device's thread and the driver's handler, which change
\* interrupt_status at the same time: an event the driver has not dealt with is still
\* to be signalled, or in the status with the interrupt raised or about to be, or
\* among those the handler has read.
EventsNotLost ==
  \A b \in due :
    \/ b \in posting \/ b \in seen
    \/ b \in interrupt_status /\ (raising \/ irq)

\* Once the driver has set FAILED, nothing but a reset changes the features, the
\* queues or the configuration space, or starts the device.
FailedIsFinal ==
  []["FAILED" \in device_status /\ device_status' # {} =>
       UNCHANGED <<device_status, driver_features, queues, config_space, activations>>]_vars
=============================================================================
