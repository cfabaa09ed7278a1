------------------------------ MODULE SortOrder -----------------------------
(* How the rows of the two views are sorted: the comparators of the GPU     *)
(* view (interface.c) and that of the process pool (sys_proc_pool.c).  Each *)
(* drawing sorts the rows as they were listed.                              *)
(*                                                                          *)
(* A row is a process and its value of the field it is sorted by, which it  *)
(* may not have.  View and field are those of the moment: ProcessView has   *)
(* the keys that change them.                                               *)
EXTENDS Integers, Sequences, FiniteSets, SequencesExt

CONSTANTS
  RowCount,   \* bound: the rows listed
  Own,        \* nvtop_pid
  U64         \* one more than the largest of the unsigned values compared

ASSUME SortAssumption == RowCount \in Nat \ {0} /\ Own \in 1..RowCount /\ U64 \in Nat \ {0, 1}

VARIABLES
  view,        \* view_mode: "all" or "gpu"
  field,       \* sort_processes_by
  descending,  \* sort_descending_order
  filter,      \* filter_nvtop_pid
  listed,
  shown

sortVars == <<view, field, descending, filter, listed, shown>>

Rates == {"gpu_rate", "enc_rate", "dec_rate"}
AlwaysTold == {"pid", "gpu_id", "type"}
GpuFields == AlwaysTold \cup Rates \cup {"user", "memory", "command", "cpu_usage", "cpu_mem_usage"}
Signed == {"priority", "nice"}
Numbers == Signed \cup {"pid", "ppid", "threads", "virt", "res", "shr", "cpu_pct", "memory", "time"}
AllFields == GpuFields \cup Numbers \cup {"state"}

-----------------------------------------------------------------------------
(* The GPU view: each field's descending comparator, and the ascending one. *)

Falling(a, b) == IF a.value >= b.value THEN -1 ELSE 1

\* -strcmp
TextFalling(a, b) == IF a.value = b.value THEN 0 ELSE Falling(a, b)

IfBoth(a, b, result) == IF a.has /\ b.has THEN result ELSE 0

\* Mutant: a rate that is missing is equal to every other.
RateFalling_Both(f, a, b) == IfBoth(a, b, IF f = "gpu_rate" THEN -Falling(b, a) ELSE Falling(a, b))

\* compare_process_gpu_rate_desc and those of the encoder and the decoder.
RateFalling(f, a, b) ==
  CASE a.has /\ b.has -> IF f = "gpu_rate" THEN -Falling(b, a) ELSE Falling(a, b)
    [] a.has /\ ~b.has -> IF a.value > 0 THEN -1 ELSE 0
    [] ~a.has /\ b.has -> IF b.value > 0 THEN 1 ELSE 0
    [] OTHER -> 0

\* Type 1 is graphical.
CompareDesc(f, a, b) ==
  CASE f \in {"pid", "gpu_id"} -> Falling(a, b)
    [] f \in {"memory", "cpu_usage", "cpu_mem_usage"} -> IfBoth(a, b, Falling(a, b))
    [] f \in {"user", "command"} -> IfBoth(a, b, TextFalling(a, b))
    [] f = "type" -> IF (a.value = 1) # (b.value = 1) THEN 1 ELSE 0
    [] f \in Rates -> RateFalling(f, a, b)

\* That of the type compares command lines, here told apart by the process.
CompareAsc(f, a, b) ==
  CASE f = "type" -> -TextFalling([a EXCEPT !.value = a.pid], [b EXCEPT !.value = b.pid])
    [] f \in Rates \cup {"gpu_id"} -> -CompareDesc(f, a, b)
    [] OTHER -> CompareDesc(f, b, a)

-----------------------------------------------------------------------------
(* The process pool.                                                        *)

\* What is not a number is the pid; the others are cast to unsigned.
SortValue(f, r) ==
  CASE f = "command" -> r.value
    [] f \in Numbers \ {"pid"} -> r.value % U64
    [] OTHER -> r.pid

\* Equal rows are told apart by the pid.
SortedCompare(f, a, b) ==
  LET va == SortValue(f, a)  vb == SortValue(f, b)
      c == IF va < vb THEN -1 ELSE IF va > vb THEN 1 ELSE a.pid - b.pid
  IN  IF descending THEN -c ELSE c

-----------------------------------------------------------------------------
(* Drawing.                                                                 *)

Compare(a, b) ==
  CASE view = "all" -> SortedCompare(field, a, b)
    [] view = "gpu" /\ descending -> CompareDesc(field, a, b)
    [] OTHER -> CompareAsc(field, a, b)

Permuted(rows) == {[i \in DOMAIN rows |-> rows[p[i]]] : p \in SetToSeqs(DOMAIN rows)}

\* What qsort of the C library may make of them, a merge sort: of two neighbours
\* the first does not come after the second, or the second after the first, when
\* the comparator is asked in that order.
Sorts(rows) ==
  {s \in Permuted(rows) :
     \A i \in 1..(Len(s) - 1) : Compare(s[i], s[i + 1]) <= 0 \/ Compare(s[i + 1], s[i]) > 0}

\* filter_out_nvtop_pid: the first of its rows.
Filtered(rows) ==
  LET own == {i \in DOMAIN rows : rows[i].pid = Own} IN
  IF filter /\ own # {} THEN RemoveAt(rows, CHOOSE i \in own : \A j \in own : i <= j) ELSE rows

\* sort_process has no comparator for some fields, and calls qsort with whatever
\* is in its variable: any order, if the program goes on.
SortedRows ==
  CASE view = "all" -> Sorts(listed)
    [] view = "gpu" /\ field \in GpuFields -> Sorts(Filtered(listed))
    [] OTHER -> Permuted(Filtered(listed))

Compared == IF view = "all" THEN Numbers \cup {"command"} ELSE GpuFields

\* The rows there may be.  Priorities may be negative; a value that is missing,
\* or never compared, is 0; two processes are enough for the GPU view.
RowChoices ==
  {r \in [pid : 1..RowCount, has : BOOLEAN, value : -1..RowCount] :
     /\ view = "gpu" => r.pid < RowCount
     /\ CASE field = "pid" -> r.value = r.pid
          [] view = "all" /\ field \in Signed -> r.value \in {-1, 0, 1}
          [] field \in Compared \ (Signed \cup {"pid"}) -> r.value \in {0, 1}
          [] OTHER -> r.value = 0
     /\ ~r.has => view = "gpu" /\ field \in GpuFields \ AlwaysTold /\ r.value = 0}

\* A pid has one row in the pool, and one per device in the GPU view, where the
\* devices come one after the other.
Listable(rows) ==
  /\ view = "all" => \A i, j \in DOMAIN rows : i # j => rows[i].pid # rows[j].pid
  /\ view = "gpu" /\ field = "gpu_id" =>
       \A i, j \in DOMAIN rows : i < j => rows[i].value <= rows[j].value

SortInit ==
  /\ view \in {"all", "gpu"} /\ field \in AllFields
  /\ descending \in BOOLEAN /\ filter = FALSE
  /\ listed \in {rows \in [1..RowCount -> RowChoices] : Listable(rows)}
  /\ shown \in SortedRows

\* The next refresh or frame: one row goes, another one comes.
Relisted ==
  /\ UNCHANGED <<view, field, descending, filter>>
  /\ \E r \in RowChoices : listed' = Append(Tail(listed), r)
  /\ Listable(listed')
  /\ shown' \in SortedRows'

\* '+', '-' and the setup window.
OtherOrder ==
  /\ UNCHANGED <<view, field, listed>>
  /\ \/ descending' = ~descending /\ filter' = filter
     \/ view = "gpu" /\ filter' = ~filter /\ descending' = descending
  /\ shown' \in SortedRows'

SortNext == Relisted \/ OtherOrder

SortSpec == SortInit /\ [][SortNext]_sortVars

-----------------------------------------------------------------------------
(* Properties.                                                              *)

\* "Enter sorts by the selected one" (nvhtop.md), whatever order the rows were
\* listed in and whichever have no value.  In the pool the order is total, so
\* that rows do not move under the cursor while their values stay; it is by the
\* pid for fields that are neither numbers nor the command, and with negative
\* priorities there is none.  In the GPU view a rate that is missing counts as
\* zero; there is no order by the type, by fields that have no comparator, or
\* by values other than rates when one is missing.
RowsInOrder ==
  LET own(r) == IF field \in Compared THEN r.value ELSE r.pid
      weight(r) == IF r.has THEN r.value ELSE 0
      Above(r, s) ==
        CASE view = "all" -> own(r) > own(s) \/ (own(r) = own(s) /\ r.pid > s.pid)
          [] OTHER -> weight(r) >= weight(s)
      comparable == IF view = "all" THEN \A i \in DOMAIN shown : shown[i].value >= 0
                    ELSE /\ field \in GpuFields \ {"type"}
                         /\ field \in Rates \/ \A i \in DOMAIN shown : shown[i].has
  IN  comparable =>
        \A i, j \in DOMAIN shown :
          i < j => IF descending THEN Above(shown[i], shown[j]) ELSE Above(shown[j], shown[i])
=============================================================================
