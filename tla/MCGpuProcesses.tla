--------------------------- MODULE MCGpuProcesses ---------------------------
(* Two pids, of which one may be used again, or one that is used three times. *)
EXTENDS GpuProcesses, TLC

\* Neither the devices nor the pids nor the addresses are told apart.
Alike == Permutations(Devices) \cup Permutations(Pids) \cup Permutations(Entries)

Bounded == \A p, q \in Pids : p # q => inc[p] + inc[q] <= 3

MCSpec == Init /\ [][Next /\ Bounded']_vars
=============================================================================
