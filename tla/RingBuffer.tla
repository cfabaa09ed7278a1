----------------------------- MODULE RingBuffer -----------------------------
(* One series of the ring buffer that the plots are drawn from              *)
(* (interface_ring_buffer.h): two indices into an array of buffer_size      *)
(* values.  start = end means empty, so one cell is never used.  The array  *)
(* comes from malloc: its cells hold anything until they are written.       *)
EXTENDS Naturals, Sequences

CONSTANTS
  buffer_size,
  Values,
  Unwritten,   \* what malloc left in a cell
  UINT         \* the number of unsigned values, 2^32 in the code

ASSUME SizeAssumption == buffer_size \in Nat \ {0} /\ UINT \in Nat /\ UINT > 2 * buffer_size
ASSUME UnwrittenAssumption == Unwritten \notin Values

VARIABLES start, end, data

vars == <<start, end, data>>

Cells == 0..buffer_size - 1

TypeOK == start \in Cells /\ end \in Cells /\ data \in [Cells -> Values \cup {Unwritten}]

Init == start = 0 /\ end = 0 /\ data = [c \in Cells |-> Unwritten]

\* Unsigned arithmetic.
Minus(a, b) == IF a >= b THEN a - b ELSE UINT + a - b
Plus(a, b) == IF a + b >= UINT THEN a + b - UINT ELSE a + b

\* Mutant: the stored length of a ring that has wrapped around is not corrected.
DataStored_NoWrap(s, e) == Minus(e, s)

\* interface_ring_buffer_data_stored: the difference wraps below zero, and the
\* addition of buffer_size brings it back.
DataStored(s, e) ==
  IF e < s THEN Plus(Minus(e, s), buffer_size) ELSE Minus(e, s)

Stored == DataStored(start, end)

\* Mutant: the cell is wrapped only when it is beyond the end of the array.
IndexInRing_OffByOne(s, index) ==
  IF s + index > buffer_size THEN s + index - buffer_size ELSE s + index

\* interface_index_in_ring, for index < DataStored.
IndexInRing(s, index) ==
  IF s + index >= buffer_size THEN s + index - buffer_size ELSE s + index

\* The index after c.
After(c) == IF c + 1 = buffer_size THEN 0 ELSE c + 1

\* Mutant: the oldest value is given up one value too early.
Push_Early(v) ==
  /\ data' = [data EXCEPT ![end] = v]
  /\ end' = After(end)
  /\ start' = IF After(After(end)) = start THEN After(start) ELSE start

\* interface_ring_buffer_push: a full ring gives up its oldest value.
Push(v) ==
  /\ data' = [data EXCEPT ![end] = v]
  /\ end' = After(end)
  /\ start' = IF After(end) = start THEN After(start) ELSE start

\* interface_ring_buffer_pop.
Pop ==
  /\ start # end
  /\ start' = After(start)
  /\ UNCHANGED <<end, data>>

\* interface_ring_buffer_empty_select: the values stay in their cells.
Empty == start' = 0 /\ end' = 0 /\ UNCHANGED data

Next == (\E v \in Values : Push(v)) \/ Pop \/ Empty

Spec == Init /\ [][Next]_vars

-----------------------------------------------------------------------------
\* interface_ring_buffer_get, for every index the assertion of
\* interface_index_in_ring allows: the series as its readers see it.
Series == [k \in 1..Stored |-> data[IndexInRing(start, k - 1)]]

\* A reader who respects the stored length never meets a cell that was not
\* written, and one cell always stays free.
SeriesWritten ==
  /\ Stored < buffer_size
  /\ \A k \in 1..Stored : IndexInRing(start, k - 1) \in Cells /\ Series[k] \in Values

\* The ring is a memory of the last buffer_size - 1 values.
H == INSTANCE History WITH history <- Series, Capacity <- buffer_size - 1
HistorySpec == H!Spec
=============================================================================
