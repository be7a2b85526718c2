--------------------------- MODULE MCQueueConfig ---------------------------
\* QueueConfig for TLC: one region of memory from address 0, or two regions
\* with a hole between them.
EXTENDS QueueConfig

OneRegion == 0 .. 127
TwoRegions == (0 .. 47) \cup (64 .. 127)
=============================================================================
