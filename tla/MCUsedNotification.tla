------------------------- MODULE MCUsedNotification -------------------------
\* UsedNotification for TLC.
EXTENDS UsedNotification
=============================================================================
