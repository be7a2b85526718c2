----------------------------- MODULE WrapIndex -----------------------------
(***************************************************************************)
(* The arithmetic of ring indices.  The code keeps every ring index as a   *)
(* Wrapping<u16> and finds the ring slot of an index as `index % size`.    *)
(* IdxMod stands for 2^16 and QSize for the queue size: every valid queue  *)
(* size is a power of two not above 2^15, hence divides 2^16 at least      *)
(* twice, and these are the only facts about the two numbers used here.    *)
(***************************************************************************)
EXTENDS Integers

CONSTANTS
  QSize,   \* the number of slots of each ring (Queue::size)
  IdxMod   \* the modulus of ring indices (2^16 in the code)

ASSUME SizeAssumption ==
  /\ QSize \in Nat \ {0}
  /\ IdxMod \in Nat
  /\ 2 * QSize <= IdxMod
  /\ IdxMod % QSize = 0

Idx == 0 .. IdxMod - 1
Slots == 0 .. QSize - 1

\* Wrapping<u16> addition and subtraction.
WAdd(x, y) == (x + y) % IdxMod
WSub(x, y) == (x - y) % IdxMod

\* The ring slot of an index.
Slot(x) == x % QSize

\* The indices from `from` up to, and not including, `to`, going round.
Window(from, to) == {x \in Idx : WSub(x, from) < WSub(to, from)}

\* What a ring holds between two indices, and that no value is there twice.
Held(ring, from, to) == {ring[Slot(x)] : x \in Window(from, to)}
Distinct(ring, from, to) ==
  \A x, y \in Window(from, to) : ring[Slot(x)] = ring[Slot(y)] => x = y

\* The entries of a ring from one index to another, oldest first.
Entries(ring, from, to) ==
  [i \in 1 .. WSub(to, from) |-> ring[Slot(WAdd(from, i - 1))]]
=============================================================================
