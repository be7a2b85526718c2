---------------------------- MODULE ChainHandOff ----------------------------
(***************************************************************************)
(* What a virtqueue promises to the two sides that use it, with no rings,  *)
(* no indices and no notifications: descriptor chains travel from the      *)
(* driver to the device in the order they were offered, the device holds   *)
(* each of them once and completes them in any order, and the driver gets  *)
(* them back in the order they were completed.                             *)
(***************************************************************************)
EXTENDS Sequences

CONSTANT Heads

VARIABLES
  free,      \* with the driver
  offered,   \* on their way to the device
  taken,     \* with the device
  used       \* on their way back

vars == <<free, offered, taken, used>>

Init == free = Heads /\ offered = <<>> /\ taken = {} /\ used = <<>>

Offer(h) ==
  /\ h \in free
  /\ free' = free \ {h}
  /\ offered' = Append(offered, h)
  /\ UNCHANGED <<taken, used>>

Take ==
  /\ offered # <<>>
  /\ taken' = taken \cup {Head(offered)}
  /\ offered' = Tail(offered)
  /\ UNCHANGED <<free, used>>

\* The device puts a chain back to take it again next.
GiveBack(h) ==
  /\ h \in taken
  /\ taken' = taken \ {h}
  /\ offered' = <<h>> \o offered
  /\ UNCHANGED <<free, used>>

Complete(h) ==
  /\ h \in taken
  /\ taken' = taken \ {h}
  /\ used' = Append(used, h)
  /\ UNCHANGED <<free, offered>>

Reap ==
  /\ used # <<>>
  /\ free' = free \cup {Head(used)}
  /\ used' = Tail(used)
  /\ UNCHANGED <<offered, taken>>

Next ==
  \/ \E h \in Heads : Offer(h) \/ GiveBack(h) \/ Complete(h)
  \/ Take \/ Reap

Spec == Init /\ [][Next]_vars
=============================================================================
