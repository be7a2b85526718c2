---------------------------- MODULE MCBlkDevice ----------------------------
(* BlkDevice on a file of two sectors and a half, two units to a sector. *)
EXTENDS BlkDevice

MCFeatureSets ==
  {{}, {"FLUSH", "DISCARD", "WRITE_ZEROES"}, {"RO", "FLUSH", "DISCARD", "WRITE_ZEROES"}}

MCSectors == 0 .. 2

B(len, mapped) == [len |-> len, mapped |-> mapped]

MCBuffers == {B(0, 0), B(1, 1), B(1, 0), B(2, 2), B(2, 1), B(3, 3), B(4, 4), B(4, 3)}

Seg(sector, n, flags) == [sector |-> sector, num_sectors |-> n, flags |-> flags]

MCSegments ==
  {Seg(0, 1, {}), Seg(1, 1, {"unmap"}), Seg(0, 2, {"unmap"}), Seg(1, 2, {}),
   Seg(2, 0, {}), Seg(0, 1, {"reserved"})}

MCData == {0, 1}
=============================================================================
