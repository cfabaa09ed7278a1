------------------------------- MODULE History ------------------------------
(* What a plot asks of the memory behind one of its lines: the most recent  *)
(* values, oldest first, at most Capacity of them.                          *)
EXTENDS Naturals, Sequences

CONSTANTS Values, Capacity

VARIABLE history

Init == history = <<>>

\* A new value pushes out the oldest one when the memory is full.
Push(v) ==
  history' = IF Len(history) < Capacity THEN Append(history, v)
             ELSE IF Capacity = 0 THEN <<>>
             ELSE Append(Tail(history), v)

Pop == history # <<>> /\ history' = Tail(history)

Forget == history' = <<>>

Next == (\E v \in Values : Push(v)) \/ Pop \/ Forget

Spec == Init /\ [][Next]_history
=============================================================================
