---------------------------- MODULE MCVirtioMmio ----------------------------
(* A device with two queues and two feature bits: event indices, offered, on *)
(* page 0, and a bit on page 1 that is not offered.                          *)
EXTENDS VirtioMmio

MCFeatures == {"event_idx", "unknown"}
MCPage == [f \in MCFeatures |-> IF f = "unknown" THEN 1 ELSE 0]
MCDeviceFeatures == {"event_idx"}
=============================================================================
