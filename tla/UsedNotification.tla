-------------------------- MODULE UsedNotification --------------------------
(***************************************************************************)
(* The used-ring side of a queue through calls that fail and through save  *)
(* and restore: does needs_notification still tell the device to interrupt *)
(* the driver exactly when the driver asked for it?                        *)
(*                                                                         *)
(* Each call is given the guest memory to use, so each access of a call    *)
(* may fail on its own; a call that fails half-way keeps what it has done. *)
(* The driver moves used_event to any value between calls.                 *)
(***************************************************************************)
EXTENDS WrapIndex

CONSTANT MaxAdds   \* bound: add_used calls between two needs_notification calls

ASSUME MaxAddsAssumption == MaxAdds \in Nat

VARIABLES
  next_used, num_added, event_idx_enabled,   \* the Queue object
  used_idx, used_event,                      \* in guest memory
  answer,     \* what needs_notification last returned
  checked,    \* next_used at that call
  adds,       \* entries added since then
  restored    \* since then the queue was restored from its state, and entries with it forgotten

notificationVars ==
  <<next_used, num_added, event_idx_enabled, used_idx, used_event, answer, checked, adds, restored>>

NotificationInit ==
  /\ next_used = 0 /\ num_added = 0 /\ event_idx_enabled \in BOOLEAN
  /\ used_idx = 0 /\ used_event = 0
  /\ answer = FALSE /\ checked = 0 /\ adds = 0 /\ restored = FALSE

\* Queue::add_used: nothing happens when the head is refused or the element is
\* not written; the counters advance before idx is stored.
AddUsed(written, stored) ==
  /\ adds < MaxAdds
  /\ IF written
     THEN /\ next_used' = WAdd(next_used, 1)
          /\ num_added' = WAdd(num_added, 1)
          /\ adds' = adds + 1
          /\ used_idx' = IF stored THEN next_used' ELSE used_idx
     ELSE UNCHANGED <<next_used, num_added, adds, used_idx>>
  /\ UNCHANGED <<event_idx_enabled, used_event, answer, checked, restored>>

\* Did used_event lie among the last num_added entries?
EventCrossed ==
  LET old == WSub(next_used, num_added)
  IN  WSub(WSub(next_used, used_event), 1) < WSub(next_used, old)

\* Bug: num_added is reset before the load of used_event that may fail.
NeedsNotificationResetsFirst(loaded) ==
  /\ num_added' = IF event_idx_enabled THEN 0 ELSE num_added
  /\ IF event_idx_enabled /\ ~loaded
     THEN UNCHANGED <<answer, checked, adds, restored>>
     ELSE /\ answer' = (event_idx_enabled => EventCrossed)
          /\ checked' = next_used /\ adds' = 0 /\ restored' = FALSE
  /\ UNCHANGED <<next_used, event_idx_enabled, used_idx, used_event>>

\* Queue::needs_notification: an error when used_event cannot be loaded.
NeedsNotification(loaded) ==
  /\ IF event_idx_enabled /\ ~loaded
     THEN UNCHANGED <<num_added, answer, checked, adds, restored>>
     ELSE /\ num_added' = IF event_idx_enabled THEN 0 ELSE num_added
          /\ answer' = (event_idx_enabled => EventCrossed)
          /\ checked' = next_used /\ adds' = 0 /\ restored' = FALSE
  /\ UNCHANGED <<next_used, event_idx_enabled, used_idx, used_event>>

\* Queue::state, and try_from on another Queue: num_added is not part of the state.
RestoreQueue ==
  /\ num_added' = 0
  /\ restored' = (restored \/ adds > 0)
  /\ UNCHANGED <<next_used, event_idx_enabled, used_idx, used_event, answer, checked, adds>>

\* Queue::reset, and a new negotiation.
ResetQueue ==
  /\ next_used' = 0 /\ num_added' = 0 /\ event_idx_enabled' \in BOOLEAN
  /\ used_idx' = 0 /\ used_event' = 0
  /\ answer' = FALSE /\ checked' = 0 /\ adds' = 0 /\ restored' = FALSE

\* The driver (external) asks to be interrupted when entry v is used.
SetUsedEvent(v) ==
  /\ used_event' = v
  /\ UNCHANGED <<next_used, num_added, event_idx_enabled, used_idx, answer, checked, adds,
                 restored>>

NotificationNext ==
  \/ \E written, stored \in BOOLEAN : AddUsed(written, stored)
  \/ \E loaded \in BOOLEAN : NeedsNotification(loaded)
  \/ RestoreQueue \/ ResetQueue
  \/ \E v \in Idx : SetUsedEvent(v)

NotificationSpec == NotificationInit /\ [][NotificationNext]_notificationVars
-----------------------------------------------------------------------------
NotificationTypeOK ==
  /\ {next_used, num_added, used_idx, used_event, checked} \subseteq Idx
  /\ {event_idx_enabled, answer, restored} \subseteq BOOLEAN
  /\ adds \in 0 .. MaxAdds

\* needs_notification answers true exactly when the entry the driver named in
\* used_event is among those added since it last returned a value, whatever
\* calls failed in between, wherever the indices wrapped and however often the queue
\* was saved and restored, unless it was restored with entries nobody had asked about.
AnswerExact ==
  [][NeedsNotification(TRUE) /\ event_idx_enabled /\ ~restored =>
       (answer' <=> used_event \in Window(checked, next_used))]_notificationVars
=============================================================================
