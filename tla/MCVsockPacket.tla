--------------------------- MODULE MCVsockPacket ---------------------------
(* VsockPacket in a small guest memory: two regions with a hole between     *)
(* them, the second up to the end of the address space.                     *)
EXTENDS VsockPacket

MCRegions == {[start |-> 0, end |-> 4], [start |-> 5, end |-> 7]}
=============================================================================
