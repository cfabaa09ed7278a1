----------------------------- MODULE PoolRecords ----------------------------
(* The records behind the frames of the process pool (sys_proc_pool.c).     *)
(*                                                                          *)
(* Every process seen in /proc has one record, owned by indexed_collection  *)
(* and found there by pid; the frame sorted[] holds pointers to records.    *)
(* A cycle of the producer first frees the records of processes that have   *)
(* gone (GC, over the previous frame), then scans /proc and builds the next *)
(* frame.  Processes start and exit at any moment, also between the moment  *)
(* readdir lists a pid and the moment its stat file is read, and a pid may  *)
(* be used again.  The semaphores are left to ProcPool: here the consumer   *)
(* has the frame while pc = "shown".                                        *)
EXTENDS Naturals, Sequences, FiniteSets

CONSTANTS
  Pids,            \* the pids in use, 1 .. pid_max
  Self,            \* nvhtop's own process, which outlives its pool
  Blocks,          \* addresses malloc may return for a record
  NULL,
  MaxIncarnation,  \* bound: how often one pid is used
  Slack,           \* the free slots an array may keep (32 in the code)
  ProcMayFail,     \* whether opendir("/proc") may fail
  FilesMayFail     \* whether the stat file of a live process may not open

ASSUME PidsAssumption == Pids \subseteq Nat \ {0} /\ Self \in Pids
ASSUME NullAssumption == NULL \notin Blocks
ASSUME BoundsAssumption == MaxIncarnation \in Nat \ {0} /\ Slack \in Nat
ASSUME SwitchesAssumption == ProcMayFail \in BOOLEAN /\ FilesMayFail \in BOOLEAN

VARIABLES
  \* the kernel
  up,          \* the pids of the processes that exist now
  inc,         \* which use of its pid the last process with it is, 0 if none
  \* struct sys_proc_pool
  indexed_collection,
  records, record_slots,   \* what is in records[0..h-1], and its capacity
  sorted, sorted_slots,    \* what is in sorted[0..sorted_count-1]
  \* the heap
  heap,        \* the allocated records
  rec,         \* what each record says
  \* the producer
  pc, i, unread, cursor,
  \* history
  steady,      \* the processes that existed since the scan began, and whose
               \* stat file could be read
  before       \* the incarnation each pid was shown with in the last frame

kernel == <<up, inc>>
arrays == <<records, record_slots, sorted, sorted_slots>>
pool == <<indexed_collection, arrays, heap, rec>>
scan == <<pc, i, unread, cursor>>
vars == <<kernel, pool, scan, steady, before>>

\* A record: its pid, whether it has a previous sample, and the incarnations
\* of the pid its two CPU samples come from (0: no delta was computed).
Records == [pid : Pids \cup {0}, has_prev : BOOLEAN,
            sampled : 0..MaxIncarnation, base : 0..MaxIncarnation]
Cleared == [pid |-> 0, has_prev |-> FALSE, sampled |-> 0, base |-> 0]

TypeOK ==
  /\ up \subseteq Pids /\ Self \in up
  /\ inc \in [Pids -> 0..MaxIncarnation]
  /\ indexed_collection \in [Pids -> Blocks \cup {NULL}]
  /\ records \in Seq(Blocks) /\ sorted \in Seq(Blocks)
  /\ record_slots \in Nat /\ sorted_slots \in Nat
  /\ heap \subseteq Blocks
  /\ rec \in [Blocks -> Records]
  /\ pc \in {"gc", "open", "list", "read", "build", "shown"}
  /\ i \in Nat \ {0}
  /\ unread \subseteq Pids
  /\ cursor \in Pids \cup {0}
  /\ steady \subseteq Pids
  /\ before \in [Pids -> 0..MaxIncarnation]

Init ==
  /\ up \in {S \in SUBSET Pids : Self \in S}
  /\ inc = [p \in Pids |-> IF p \in up THEN 1 ELSE 0]
  /\ indexed_collection = [p \in Pids |-> NULL]
  /\ records = <<>> /\ record_slots = 0
  /\ sorted = <<>> /\ sorted_slots = 0
  /\ heap = {}
  /\ rec = [b \in Blocks |-> Cleared]
  /\ pc = "gc" /\ i = 1 /\ unread = {} /\ cursor = 0
  /\ steady = {}
  /\ before = [p \in Pids |-> 0]

-----------------------------------------------------------------------------
(* The processes of the system.                                             *)

Fork(p) ==
  /\ p \notin up /\ inc[p] < MaxIncarnation
  /\ up' = up \cup {p}
  /\ inc' = [inc EXCEPT ![p] = @ + 1]
  /\ UNCHANGED <<pool, scan, steady, before>>

Exit(p) ==
  /\ p \in up /\ p # Self
  /\ up' = up \ {p}
  /\ steady' = steady \ {p}
  /\ UNCHANGED <<inc, pool, scan, before>>

-----------------------------------------------------------------------------
(* sys_proc_pool_produce.                                                   *)

\* Mutant: the GC frees the record and leaves it in the collection.
Collect_KeepsIndex ==
  /\ pc = "gc" /\ i <= Len(sorted) /\ sorted[i] \in heap
  /\ i' = i + 1
  /\ LET b == sorted[i] IN
     IF rec[b].pid \in up
     THEN UNCHANGED <<heap, rec>>
     ELSE heap' = heap \ {b} /\ rec' = [rec EXCEPT ![b] = Cleared]
  /\ UNCHANGED <<kernel, indexed_collection, arrays, pc, unread, cursor, steady, before>>

\* GC of the previous frame's i-th record: stat("/proc/<pid>") fails only if
\* no process has that pid.  What a freed block holds is undefined; nothing
\* depends on it as long as NoDanglingRow holds, and no behaviour is modelled
\* beyond the point where a freed record is used.
Collect ==
  /\ pc = "gc" /\ i <= Len(sorted) /\ sorted[i] \in heap
  /\ i' = i + 1
  /\ LET b == sorted[i] IN
     IF rec[b].pid \in up
     THEN UNCHANGED <<indexed_collection, heap, rec>>
     ELSE /\ indexed_collection' = [indexed_collection EXCEPT ![rec[b].pid] = NULL]
          /\ heap' = heap \ {b}
          /\ rec' = [rec EXCEPT ![b] = Cleared]
  /\ UNCHANGED <<kernel, arrays, pc, unread, cursor, steady, before>>

GCDone ==
  /\ pc = "gc" /\ i > Len(sorted)
  /\ pc' = "open" /\ i' = 1
  /\ UNCHANGED <<kernel, pool, unread, cursor, steady, before>>

\* A scan that cannot begin returns frame_done to itself; sorted[] and
\* sorted_count are what they were, and the next cycle begins with its GC.
OpenFails ==
  /\ pc = "open" /\ ProcMayFail
  /\ pc' = "gc"
  /\ UNCHANGED <<kernel, pool, i, unread, cursor, steady, before>>

Open ==
  /\ pc = "open"
  /\ pc' = "list"
  /\ steady' = up
  /\ UNCHANGED <<kernel, pool, i, unread, cursor, before>>

\* Mutant: the last pid of a stretch is not read.
List_OffByOne ==
  /\ pc = "list"
  /\ \E last \in {p \in Pids : p > cursor} :
       /\ cursor' = last
       /\ unread' = {p \in up : cursor < p /\ p < last}
  /\ pc' = "read"
  /\ UNCHANGED <<kernel, pool, i, steady, before>>

\* readdir refills its buffer: the next stretch of pids, as they are now.
List ==
  /\ pc = "list"
  /\ \E last \in {p \in Pids : p > cursor} :
       /\ cursor' = last
       /\ unread' = {p \in up : cursor < p /\ p <= last}
  /\ pc' = "read"
  /\ UNCHANGED <<kernel, pool, i, steady, before>>

\* The entry the loop is at: readdir returns pids in ascending order.
Current(p) == p \in unread /\ \A q \in unread : p <= q

\* Mutant: every scan allocates a record, whether or not the pid has one.
RecordOf_Fresh(p, b) ==
  /\ b \in Blocks \ heap
  /\ indexed_collection' = [indexed_collection EXCEPT ![p] = b]
  /\ heap' = heap \cup {b}

\* indexed_collection[pid], with a cleared record if there was none.
RecordOf(p, b) ==
  IF indexed_collection[p] # NULL
  THEN b = indexed_collection[p] /\ UNCHANGED <<indexed_collection, heap>>
  ELSE /\ b \in Blocks \ heap
       /\ indexed_collection' = [indexed_collection EXCEPT ![p] = b]
       /\ heap' = heap \cup {b}

\* The record as it is before its stat file is read.
Found(p, b) == IF indexed_collection[p] # NULL THEN rec[b] ELSE Cleared

\* Mutant: the baseline is that of the row, if the row had the same pid.
ReadStat_PerSlot(p) ==
  /\ pc = "read" /\ Current(p) /\ p \in up
  /\ \E b \in Blocks :
       /\ RecordOf(p, b)
       /\ rec' = [rec EXCEPT ![b] =
            [pid |-> p, has_prev |-> TRUE, sampled |-> inc[p],
             base |-> IF /\ Len(records) < Len(sorted)
                         /\ rec[sorted[Len(records) + 1]].pid = p
                      THEN rec[sorted[Len(records) + 1]].sampled ELSE 0]]
       /\ records' = Append(records, b)
       /\ record_slots' = IF Len(records) < record_slots THEN record_slots
                          ELSE record_slots + 1
  /\ unread' = unread \ {p}
  /\ UNCHANGED <<kernel, sorted, sorted_slots, pc, i, cursor, steady, before>>

\* read_stat succeeds: the CPU delta is taken against the record's previous
\* sample, and the record gets the next slot of records[].
ReadStat(p) ==
  /\ pc = "read" /\ Current(p) /\ p \in up
  /\ \E b \in Blocks :
       /\ RecordOf(p, b)
       /\ rec' = [rec EXCEPT ![b] =
            [pid |-> p, has_prev |-> TRUE, sampled |-> inc[p],
             base |-> IF Found(p, b).has_prev THEN Found(p, b).sampled ELSE 0]]
       /\ records' = Append(records, b)
       /\ record_slots' = IF Len(records) < record_slots THEN record_slots
                          ELSE record_slots + 1
  /\ unread' = unread \ {p}
  /\ UNCHANGED <<kernel, sorted, sorted_slots, pc, i, cursor, steady, before>>

\* read_stat fails: the process is gone, or its file cannot be opened.  The
\* record stays in the collection and the pid gets no row.
ReadStatFails(p) ==
  /\ pc = "read" /\ Current(p)
  /\ p \notin up \/ FilesMayFail
  /\ \E b \in Blocks :
       /\ RecordOf(p, b)
       /\ rec' = [rec EXCEPT ![b] = [Found(p, b) EXCEPT !.pid = p]]
  /\ unread' = unread \ {p}
  /\ steady' = steady \ {p}
  /\ UNCHANGED <<kernel, arrays, pc, i, cursor, before>>

\* The buffer is used up; the scan is over after the last pid.
ReadDone ==
  /\ pc = "read" /\ unread = {}
  /\ pc' = IF \E p \in Pids : p > cursor THEN "list" ELSE "build"
  /\ UNCHANGED <<kernel, pool, i, unread, cursor, steady, before>>

\* Mutant: the slots are compared as signed numbers, and none is appended.
Fit_NoAppend(n, h) == IF n > h + Slack THEN h ELSE n

\* What realloc leaves of an array of n slots that is to hold h: at most Slack
\* more than needed.  The difference is unsigned, so sorted[], which may be too
\* small, is set to h as well.
Fit(n, h) == IF n < h \/ n - h > Slack THEN h ELSE n

\* Mutant: the rows are copied only if the frame has grown.
Build_KeepsRows ==
  /\ pc = "build"
  /\ record_slots' = Fit(record_slots, Len(records))
  /\ sorted_slots' = Fit(sorted_slots, Len(records))
  /\ sorted' = IF Len(records) > Len(sorted) THEN records
               ELSE SubSeq(sorted, 1, Len(records))
  /\ records' = <<>> /\ cursor' = 0
  /\ pc' = "shown"
  /\ UNCHANGED <<kernel, indexed_collection, heap, rec, i, unread,
                 steady, before>>

\* realloc to size 0 returns NULL, which the code takes for a failure: it
\* keeps the capacity (and a pointer that was freed; the array is not modelled).
Build ==
  /\ pc = "build"
  /\ LET h == Len(records)
         zero(n) == h = 0 /\ n > Slack
     IN /\ record_slots' = IF zero(record_slots) THEN record_slots ELSE Fit(record_slots, h)
        /\ sorted_slots' = IF zero(sorted_slots) THEN sorted_slots ELSE Fit(sorted_slots, h)
  /\ sorted' = records /\ records' = <<>> /\ cursor' = 0
  /\ pc' = "shown"
  /\ UNCHANGED <<kernel, indexed_collection, heap, rec, i, unread, steady, before>>

\* The consumer has drawn the frame and gives it back.
Shown ==
  /\ pc = "shown"
  /\ pc' = "gc" /\ steady' = {}
  /\ before' = [p \in Pids |->
       IF \E k \in 1..Len(sorted) : rec[sorted[k]].pid = p
       THEN rec[indexed_collection[p]].sampled ELSE 0]
  /\ UNCHANGED <<kernel, pool, i, unread, cursor>>

Produce == \/ Collect \/ GCDone \/ OpenFails \/ Open \/ List
           \/ \E p \in Pids : ReadStat(p) \/ ReadStatFails(p)
           \/ ReadDone \/ Build

Next == Produce \/ Shown \/ \E p \in Pids : Fork(p) \/ Exit(p)

Spec == Init /\ [][Next]_vars

-----------------------------------------------------------------------------
(* What must hold.                                                          *)

\* The records of the pids.
Owned == {indexed_collection[p] : p \in Pids} \ {NULL}

\* The collection owns every record: no two pids share one, none is freed
\* while it is there, and none is allocated that sys_proc_pool_free, which
\* walks the collection, would not free.
OneRecordPerPid ==
  /\ Owned = heap
  /\ \A p, q \in Pids :
       indexed_collection[p] = indexed_collection[q] /\ p # q
         => indexed_collection[p] = NULL
  /\ \A p \in Pids : indexed_collection[p] # NULL => rec[indexed_collection[p]].pid = p

\* The pointers somebody may follow: the rows the GC has still to visit, the
\* rows on screen, and the rows found so far by a scan.
Followed ==
  IF pc = "gc" THEN {sorted[k] : k \in {k \in 1..Len(sorted) : k >= i}}
  ELSE IF pc = "shown" THEN {sorted[k] : k \in 1..Len(sorted)}
  ELSE IF pc \in {"list", "read", "build"} THEN {records[k] : k \in 1..Len(records)}
  ELSE {}

\* No freed record is ever looked at or freed again, although sorted[] keeps
\* the pointers of the records the GC frees until the scan replaces them.
NoDanglingRow == Followed \subseteq heap

\* The display and the scan follow live pointers even if scans fail: whatever
\* is freed leaves the collection as well, and the GC's own walk is the only
\* one that may meet a freed record.
DisplayLive == pc # "gc" => Followed \subseteq heap

\* A frame has at most one row per pid, and a row for every process that
\* existed from the beginning of the scan to its end.
Rows == {rec[sorted[k]].pid : k \in 1..Len(sorted)}
FrameComplete ==
  pc = "shown" => /\ Cardinality(Rows) = Len(sorted)
                  /\ steady \subseteq Rows

\* "PID-stable" (sys_proc_pool.c:411): a process shown in two frames running
\* has its CPU usage computed against its own previous sample.  It says nothing
\* of a process that was not in the frame before: one whose pid another had until
\* then, between two GC passes, is measured against the other's sample.
OwnBaseline ==
  pc = "shown" =>
    \A k \in 1..Len(sorted) :
      LET r == rec[sorted[k]] IN
      before[r.pid] = r.sampled => r.base = r.sampled

\* After a frame is built, both arrays hold it and waste at most Slack slots.
ArraysFit ==
  pc = "shown" =>
    \A n \in {record_slots, sorted_slots} :
      Len(sorted) <= n /\ (Len(sorted) > 0 => n <= Len(sorted) + Slack)

\* "Records have stable addresses for their whole lifetime" (nvhtop.md, I9):
\* the record of a process is never replaced while the process exists.
StableAddress ==
  [][\A p \in Pids : indexed_collection[p] # NULL /\ p \in up
       => indexed_collection'[p] = indexed_collection[p]]_vars
=============================================================================
