--------------------------- MODULE DescriptorChain ---------------------------
(***************************************************************************)
(* DescriptorChain: the iterator over the descriptors of one chain.  The   *)
(* driver fills the descriptor table of the queue, and a table that        *)
(* indirect descriptors point to, with whatever it likes: links in a loop  *)
(* or out of range, misshapen indirect tables, more bytes than a chain may *)
(* have.  The tables do not change while the device walks the chain.       *)
(*                                                                         *)
(* A descriptor has a length, a link to the next one (NoNext without       *)
(* VRING_DESC_F_NEXT) and the flag VRING_DESC_F_INDIRECT.                  *)
(***************************************************************************)
EXTENDS Integers, Sequences

CONSTANTS
  QSize,       \* size of the queue, the length of its descriptor table
  MaxTable,    \* longest indirect table (u16::MAX in the code)
  ByteMod,     \* one more than the bytes a chain may have (2^32 in the code)
  DataLens,    \* lengths of ordinary descriptors
  TableLens    \* lengths of indirect descriptors, in bytes

ASSUME ChainAssumption ==
  /\ QSize \in Nat \ {0} /\ MaxTable \in Nat /\ ByteMod \in Nat \ {0}
  /\ DataLens \subseteq 0 .. ByteMod - 1 /\ TableLens \subseteq Nat

VARIABLES
  tables,    \* [main, indirect], functions from indices to descriptors
  chain,     \* the DescriptorChain
  \* history
  yielded,   \* the places, <<table, index>>, of the descriptors returned
  result     \* what the last call of next returned

vars == <<tables, chain, yielded, result>>

DescSize == 16
NoNext == -1

Descriptors(n) ==
  [len : DataLens, next : {NoNext} \union 0 .. n, indirect : {FALSE}] \union
  [len : TableLens, next : {NoNext} \union 0 .. n, indirect : {TRUE}]

\* DescriptorChain::new
NewChain(head) ==
  [desc_table |-> "main", queue_size |-> QSize, next_index |-> head, ttl |-> QSize,
   yielded_bytes |-> 0, is_indirect |-> FALSE]

\* The memory at an indirect table may end before the length the descriptor gives.
Init ==
  /\ \E mapped \in 0 .. MaxTable :
       tables \in [main : [0 .. QSize - 1 -> Descriptors(QSize)],
                   indirect : [0 .. mapped - 1 -> Descriptors(MaxTable)]]
  /\ \E head \in 0 .. QSize : chain = NewChain(head)
  /\ yielded = <<>> /\ result = "new"
-----------------------------------------------------------------------------
\* The checks and the read at the start of next.
CanRead(c) ==
  /\ c.ttl > 0 /\ c.next_index < c.queue_size
  /\ c.next_index \in DOMAIN tables[c.desc_table]

Read(c) == tables[c.desc_table][c.next_index]

\* Bug: the longest indirect table is refused.
CanSwitchShorter(c, d) ==
  /\ ~c.is_indirect
  /\ d.len % DescSize = 0
  /\ d.len \div DescSize < MaxTable

\* switch_to_indirect_table
CanSwitch(c, d) ==
  /\ ~c.is_indirect
  /\ d.len % DescSize = 0
  /\ d.len \div DescSize <= MaxTable

\* Bug: ttl stays as the main table left it.
SwitchedKeepsTtl(c, d) ==
  [c EXCEPT !.desc_table = "indirect", !.queue_size = d.len \div DescSize,
            !.next_index = 0, !.is_indirect = TRUE]

Switched(c, d) ==
  [c EXCEPT !.desc_table = "indirect", !.queue_size = d.len \div DescSize,
            !.next_index = 0, !.ttl = d.len \div DescSize, !.is_indirect = TRUE]

\* Bug: the sum is not checked.
AddsUpWrapping(c, d) == TRUE

\* yielded_bytes.checked_add
AddsUp(c, d) == c.yielded_bytes + d.len < ByteMod

\* Bug: the flag NEXT is not looked at.
AdvancedPastEnd(c, d) ==
  [c EXCEPT !.yielded_bytes = @ + d.len,
            !.next_index = IF d.next # NoNext THEN d.next ELSE 0,
            !.ttl = @ - 1]

Advanced(c, d) ==
  [c EXCEPT !.yielded_bytes = @ + d.len,
            !.next_index = IF d.next # NoNext THEN d.next ELSE @,
            !.ttl = IF d.next # NoNext THEN @ - 1 ELSE 0]

\* The chain after a switch, if the descriptor read asks for one that is possible.
\* The recursive call of next that follows cannot switch again.
Resolved(c) == IF CanRead(c) /\ Read(c).indirect /\ CanSwitch(c, Read(c))
               THEN Switched(c, Read(c)) ELSE c

\* Is the descriptor read then one to return?
Yields(c) == CanRead(c) /\ ~Read(c).indirect /\ AddsUp(c, Read(c))

\* Bug: a descriptor that is refused is skipped.
NextDescriptorSkips ==
  /\ LET c == Resolved(chain)
     IN  IF Yields(c)
         THEN /\ chain' = Advanced(c, Read(c))
              /\ yielded' = Append(yielded, <<c.desc_table, c.next_index>>)
              /\ result' = "some"
         ELSE /\ chain' = IF CanRead(c) /\ Read(c).next # NoNext
                          THEN [c EXCEPT !.next_index = Read(c).next, !.ttl = @ - 1] ELSE c
              /\ result' = "none"
              /\ UNCHANGED yielded
  /\ UNCHANGED tables

\* DescriptorChain::next; a switch stays when the call then returns None.
NextDescriptor ==
  /\ LET c == Resolved(chain)
     IN  IF Yields(c)
         THEN /\ chain' = Advanced(c, Read(c))
              /\ yielded' = Append(yielded, <<c.desc_table, c.next_index>>)
              /\ result' = "some"
         ELSE /\ chain' = c
              /\ result' = "none"
              /\ UNCHANGED yielded
  /\ UNCHANGED tables

Next == NextDescriptor

Spec == Init /\ [][Next]_vars
-----------------------------------------------------------------------------
Table(p) == p[1]
Desc(p) == tables[p[1]][p[2]]

TypeOK ==
  /\ chain \in [desc_table : {"main", "indirect"}, queue_size : 0 .. QSize + MaxTable,
                next_index : Nat, ttl : 0 .. QSize + MaxTable, yielded_bytes : 0 .. ByteMod - 1,
                is_indirect : BOOLEAN]
  /\ yielded \in Seq({"main", "indirect"} \X Nat)
  /\ result \in {"new", "some", "none"}

\* However the tables are linked, the walk ends: a chain has at most as many
\* descriptors as the two tables together, and one less when it uses both.
ChainBounded ==
  /\ ~chain.is_indirect => Len(yielded) + chain.ttl <= QSize
  /\ chain.is_indirect => Len(yielded) + chain.ttl <= QSize - 1 + chain.queue_size

\* Consecutive descriptors are linked: each one is where the one before it
\* points to, and only the step to the start of the indirect table is not a link.
LinksFollowed ==
  \A k \in 1 .. Len(yielded) - 1 :
    LET p == yielded[k]
        s == yielded[k + 1]
    IN  IF Table(p) = Table(s)
        THEN Desc(p).next = s[2]
        ELSE /\ s = <<"indirect", 0>>
             /\ Desc(p).next # NoNext /\ Desc(<<"main", Desc(p).next>>).indirect

\* next stops before the end of a chain, or before its first descriptor, only for a
\* fault of the driver: a head or a link out of its table, memory that is not there, an
\* indirect descriptor inside an indirect table or with a length that is no number of
\* descriptors or too many of them, too many bytes, or a loop.  A legal chain of any
\* length is returned to its last descriptor, through an indirect table too.
StopsOnlyForFault ==
  result = "none" =>
    LET c == [chain EXCEPT !.ttl = 1]
        d == Read(c)
    IN  \/ yielded # <<>> /\ Desc(yielded[Len(yielded)]).next = NoNext
        \/ ~CanRead(c)
        \/ d.indirect /\ \/ c.is_indirect
                          \/ d.len % DescSize # 0
                          \/ d.len > MaxTable * DescSize
        \/ ~d.indirect /\ ~AddsUp(c, d)
        \/ \E k \in 1 .. Len(yielded) : yielded[k] = <<chain.desc_table, chain.next_index>>

\* Once next has returned None it returns None: a device that asks again gets no
\* descriptor from the middle of the chain.
NoneIsFinal == [][result = "none" => result' = "none" /\ UNCHANGED yielded]_vars

\* queue_size is the maximum size of a descriptor chain.
ChainWithinQueueSize == Len(yielded) <= QSize
=============================================================================
