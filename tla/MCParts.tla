------------------------------- MODULE MCParts ------------------------------
(* Four components that share no variable in one run: the initial state     *)
(* says which of them goes on, the others stay as they start.  The sweep is *)
(* there three times: over the two numbers of one process, over the three   *)
(* of one for a single device, and over those of two processes, of which    *)
(* only one lets kcmp compare its files.                                    *)
EXTENDS RingBuffer, Layout, Devices, FdinfoSweep

VARIABLE part

\* Too small for the headers, just large enough to merge plots, two stacks of
\* plots, and headers side by side.
MCTerminals == {<<10, 40>>, <<17, 27>>, <<25, 44>>, <<60, 90>>}

MCDeviceOrder == <<"amd", "msm">>
MCOwner == [f \in Files |-> IF f = "a1" THEN "amd" ELSE "msm"]

Sweeps == {"sweep", "sweep of three", "sweep of two"}

\* Process p has nothing but these files, at these numbers.
Holds(p, files, numbers) ==
  \A n \in Numbers : fds[p][n] \in {NoFile} \cup IF n \in numbers THEN files ELSE {}

AmdOnly == sweeping => active = {"amd"}

Bounded ==
  CASE part = "sweep" -> Holds(1, Files \cup {OtherFile}, 1..2) /\ Holds(2, {}, {})
    [] part = "sweep of three" -> Holds(1, Files, 1..3) /\ Holds(2, {}, {}) /\ AmdOnly
    [] part = "sweep of two" -> AmdOnly /\ \A p \in Pids : Holds(p, {"a1", OtherFile}, 1..2)

FirstLayout ==
  /\ terminal = <<10, 40>> /\ draws = [d \in Monitored |-> 0]
  /\ ~fields /\ ~hide

MCInit ==
  /\ part \in {"ring", "layout", "vendor"} \cup Sweeps
  /\ Init /\ LayoutInit /\ DevicesInit /\ SweepInit
  /\ part # "layout" => FirstLayout
  /\ part # "vendor" => vendor = "nvidia"

MCNext ==
  /\ UNCHANGED part
  /\ \/ part = "ring" /\ Next /\ UNCHANGED <<layoutVars, deviceVars, sweepVars>>
     \/ part = "layout" /\ LayoutNext /\ UNCHANGED <<vars, deviceVars, sweepVars>>
     \/ part = "vendor" /\ DevicesNext /\ UNCHANGED <<vars, layoutVars, sweepVars>>
     \/ part \in Sweeps /\ SweepNext /\ Bounded' /\ UNCHANGED <<vars, layoutVars, deviceVars>>

MCSpec == MCInit /\ [][MCNext]_<<vars, layoutVars, deviceVars, sweepVars, part>>
=============================================================================
