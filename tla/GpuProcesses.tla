---------------------------- MODULE GpuProcesses ----------------------------
(* The processes of the monitored devices and the cache of what is known    *)
(* about them (extract_gpuinfo.c).                                          *)
(*                                                                          *)
(* A refresh lists the processes of every monitored device and points each  *)
(* row at the command line and user name of an entry of the cache, found by *)
(* pid.  Entries met in this refresh move from cached_process_info to       *)
(* updated_process_info; those left behind are freed at its end.  A device  *)
(* the user no longer monitors keeps its rows.  Processes start and exit at *)
(* any moment, and a pid may be used again.                                 *)
EXTENDS Naturals, FiniteSets

CONSTANTS
  Devices,
  Pids,
  Entries,         \* addresses calloc may return for an entry
  NULL,
  MaxIncarnation   \* bound: how often one pid is used

ASSUME NullAssumption == NULL \notin Entries \cup Pids \cup Devices
ASSUME IncarnationAssumption == MaxIncarnation \in Nat \ {0}

VARIABLES
  \* the kernel
  up,          \* the pids of the processes that exist now
  inc,         \* which use of its pid the last process with it is, 0 if none
  \* the devices
  monitored,
  processes,   \* per device, the pids of processes[0..processes_count-1]
  cmdline,     \* per device and pid, the row's pointer to the command line of
               \* an entry
  user_name,   \* per device and pid, the row's pointer to the user name of one
  \* the cache
  cached, updated,  \* the two tables
  entry,            \* what each entry says
  heap,             \* the allocated entries
  \* where the refresh is
  pc, todo, at, unread, row,
  \* history
  refreshed,   \* the devices of the last refresh
  metBefore,   \* the pids met by the refresh before this one
  met,         \* the pids met by this refresh so far, or by the last one
  firstUser,   \* the incarnations there were when the user and the command line
  firstCommand \* of the pid were to be read, as it was first met in the unbroken
               \* series of refreshes that each listed it; 0 if it had gone

kernel == <<up, inc>>
rows == <<processes, cmdline, user_name>>
cache == <<cached, updated, entry, heap>>
place == <<pc, todo, at, unread, row>>
history == <<refreshed, metBefore, met, firstUser, firstCommand>>
vars == <<kernel, monitored, rows, cache, place, history>>

Incarnations == 0..MaxIncarnation
\* How many refreshes ago an entry's CPU time was sampled (-1 in the code is
\* "none", what a failing read and a new entry leave).
Ages == {"none", "now", "last", "older"}
\* An entry names a process: the incarnations that its user and its command line
\* were read from, 0 for one that is not known.
Contents == [pid : Pids \cup {NULL}, user : Incarnations, command : Incarnations, sample : Ages]
Blank == [pid |-> NULL, user |-> 0, command |-> 0, sample |-> "none"]
Places == {"idle", "device", "row", "command", "measure", "exit"}

TypeOK ==
  /\ up \subseteq Pids
  /\ inc \in [Pids -> Incarnations]
  /\ monitored \subseteq Devices
  /\ processes \in [Devices -> SUBSET Pids]
  /\ cmdline \in [Devices -> [Pids -> Entries \cup {NULL}]]
  /\ user_name \in [Devices -> [Pids -> Entries \cup {NULL}]]
  /\ cached \subseteq Entries /\ updated \subseteq Entries /\ heap \subseteq Entries
  /\ entry \in [Entries -> Contents]
  /\ pc \in Places
  /\ todo \subseteq Devices /\ at \in Devices \cup {NULL}
  /\ unread \subseteq (IF at = NULL THEN {} ELSE processes[at])
  /\ row \in Pids \cup {NULL}
  /\ refreshed \subseteq Devices
  /\ metBefore \subseteq Pids /\ met \subseteq Pids
  /\ firstUser \in [Pids -> Incarnations] /\ firstCommand \in [Pids -> Incarnations]

Init ==
  /\ up \in SUBSET Pids
  /\ inc = [p \in Pids |-> IF p \in up THEN 1 ELSE 0]
  /\ monitored \in (SUBSET Devices) \ {{}}
  /\ processes = [d \in Devices |-> {}]
  /\ cmdline = [d \in Devices |-> [p \in Pids |-> NULL]]
  /\ user_name = [d \in Devices |-> [p \in Pids |-> NULL]]
  /\ cached = {} /\ updated = {} /\ heap = {}
  /\ entry = [e \in Entries |-> Blank]
  /\ pc = "idle" /\ todo = {} /\ at = NULL /\ unread = {} /\ row = NULL
  /\ refreshed = {}
  /\ metBefore = {} /\ met = {}
  /\ firstUser = [p \in Pids |-> 0] /\ firstCommand = [p \in Pids |-> 0]

-----------------------------------------------------------------------------
(* The processes of the system, and the user.                               *)

Fork(p) ==
  /\ p \notin up /\ inc[p] < MaxIncarnation
  /\ up' = up \cup {p}
  /\ inc' = [inc EXCEPT ![p] = @ + 1]
  /\ UNCHANGED <<monitored, rows, cache, place, history>>

Exit(p) ==
  /\ p \in up
  /\ up' = up \ {p}
  /\ UNCHANGED <<inc, monitored, rows, cache, place, history>>

\* The setup window has been closed: the devices to monitor are others than
\* before, at least one of them.  No process is refreshed before the next
\* interval is over, but the screen is drawn.
ChangeMonitored ==
  /\ pc = "idle"
  /\ monitored' \in (SUBSET Devices) \ {{}}
  /\ UNCHANGED <<kernel, rows, cache, place, history>>

-----------------------------------------------------------------------------
(* gpuinfo_refresh_processes.                                               *)

\* processes_count = 0 for every device of the list.
BeginRefresh ==
  /\ pc = "idle" /\ pc' = "device"
  /\ todo' = monitored /\ refreshed' = monitored
  /\ processes' = [d \in Devices |-> IF d \in monitored THEN {} ELSE processes[d]]
  /\ metBefore' = met /\ met' = {}
  /\ firstUser' = [p \in Pids |-> IF p \in met THEN firstUser[p] ELSE 0]
  /\ firstCommand' = [p \in Pids |-> IF p \in met THEN firstCommand[p] ELSE 0]
  /\ UNCHANGED <<kernel, monitored, cmdline, user_name, cache, at, unread, row>>

\* The sweep and the vendor list the processes of a device, those that exist,
\* with no command line and no user yet.
RefreshRunningProcesses(d) ==
  /\ pc = "device" /\ d \in todo
  /\ \E found \in SUBSET up :
       /\ processes' = [processes EXCEPT ![d] = found]
       /\ unread' = found
  /\ cmdline' = [cmdline EXCEPT ![d] = [p \in Pids |-> NULL]]
  /\ user_name' = [user_name EXCEPT ![d] = [p \in Pids |-> NULL]]
  /\ todo' = todo \ {d} /\ at' = d /\ pc' = "row"
  /\ UNCHANGED <<kernel, monitored, cache, row, history>>

\* The incarnation of p that can be read about now, 0 if there is none.
Living(p) == IF p \in up THEN inc[p] ELSE 0

\* A read of it may fail all the same.
Reads(p) == {0, Living(p)}

Find(table, p) == {e \in table : entry[e].pid = p}

\* Mutant: only the old table is searched.
NewEntry_OldOnly(p, e) ==
  /\ Find(cached, p) = {}
  /\ e \in Entries \ heap
  /\ heap' = heap \cup {e} /\ updated' = updated \cup {e}
  /\ \E u \in Reads(p) :
       entry' = [entry EXCEPT ![e] = [pid |-> p, user |-> u, command |-> 0, sample |-> "none"]]
  /\ UNCHANGED cached

\* A pid that is in neither table gets an entry, and its user is read: it is not
\* known if the process has gone.
NewEntry(p, e) ==
  /\ Find(cached, p) = {} /\ Find(updated, p) = {}
  /\ e \in Entries \ heap
  /\ heap' = heap \cup {e} /\ updated' = updated \cup {e}
  /\ \E u \in Reads(p) :
       entry' = [entry EXCEPT ![e] = [pid |-> p, user |-> u, command |-> 0, sample |-> "none"]]
  /\ UNCHANGED cached

\* Mutant: the entry is used where it is.
KeepEntry_InPlace(p, e) ==
  /\ e \in Find(cached, p)
  /\ UNCHANGED cache

\* "Already encountered so delete from cached list to avoid freeing memory at
\* the end of this function".
KeepEntry(p, e) ==
  /\ e \in Find(cached, p)
  /\ cached' = cached \ {e} /\ updated' = updated \cup {e}
  /\ UNCHANGED <<entry, heap>>

\* Another device has listed the pid in this refresh.
ShareEntry(p, e) ==
  /\ Find(cached, p) = {} /\ e \in Find(updated, p)
  /\ UNCHANGED cache

\* The row points to what the entry has.
PointTo(p, e) ==
  /\ cmdline' = [cmdline EXCEPT ![at][p] = IF entry'[e].command # 0 THEN e ELSE NULL]
  /\ user_name' = [user_name EXCEPT ![at][p] = IF entry'[e].user # 0 THEN e ELSE NULL]

Meet(p) ==
  /\ pc = "row" /\ p \in unread
  /\ row' = p /\ met' = met \cup {p}
  /\ IF p \in metBefore \cup met THEN UNCHANGED <<firstUser, firstCommand>>
     ELSE /\ firstUser' = [firstUser EXCEPT ![p] = Living(p)]
          /\ firstCommand' = [firstCommand EXCEPT ![p] = Living(p)]
  /\ UNCHANGED <<kernel, monitored, processes, todo, at, refreshed, metBefore>>

MeetNew(p) ==
  /\ Meet(p) /\ pc' = "command"
  /\ \E e \in Entries : NewEntry(p, e)
  /\ UNCHANGED <<cmdline, user_name, unread>>

\* The process may be another one by now, or gone.
ReadCommand ==
  /\ pc = "command" /\ pc' = "measure"
  /\ \E e \in Find(updated, row), c \in Reads(row) :
       entry' = [entry EXCEPT ![e].command = c] /\ PointTo(row, e)
  /\ unread' = unread \ {row}
  /\ firstCommand' = [firstCommand EXCEPT ![row] = Living(row)]
  /\ UNCHANGED <<kernel, monitored, processes, cached, updated, heap, todo, at, row,
                 refreshed, metBefore, met, firstUser>>

MeetKnown(p) ==
  /\ Meet(p) /\ pc' = "measure" /\ unread' = unread \ {p}
  /\ \E e \in Entries : (KeepEntry(p, e) \/ ShareEntry(p, e)) /\ PointTo(p, e)

\* Mutant: a read that fails leaves the sample there was.
Measure_Keeps ==
  /\ pc = "measure" /\ pc' = "row" /\ row' = NULL
  /\ \E e \in Find(heap, row) :
       entry' = [entry EXCEPT ![e].sample = IF row \in up THEN "now" ELSE entry[e].sample]
  /\ UNCHANGED <<kernel, monitored, rows, cached, updated, heap, todo, at, unread,
                 history>>

\* get_process_info: the CPU usage since the entry's sample, which becomes the
\* new one; without a sample the usage is 0.  A read that fails leaves none.
Measure ==
  /\ pc = "measure" /\ pc' = "row" /\ row' = NULL
  /\ \E e \in Find(heap, row), age \in {"none"} \cup IF row \in up THEN {"now"} ELSE {} :
       entry' = [entry EXCEPT ![e].sample = age]
  /\ UNCHANGED <<kernel, monitored, rows, cached, updated, heap, todo, at, unread,
                 history>>

DeviceDone ==
  /\ pc = "row" /\ unread = {}
  /\ pc' = "device" /\ at' = NULL
  /\ UNCHANGED <<kernel, monitored, rows, cache, todo, unread, row, history>>

\* What the time from one refresh to the next does to a sample.
Older(age) == CASE age = "now" -> "last" [] age = "last" -> "older" [] OTHER -> age

\* Mutant: the entries that were not met are kept for the next refresh.
CleanOldCache_Keeps ==
  /\ pc = "device" /\ todo = {}
  /\ pc' = "idle"
  /\ cached' = cached \cup updated /\ updated' = {}
  /\ entry' = [e \in Entries |-> [entry[e] EXCEPT !.sample = Older(@)]]
  /\ UNCHANGED <<kernel, monitored, rows, heap, todo, at, unread, row, history>>

\* gpuinfo_clean_old_cache: what this refresh did not meet is freed.  What is
\* in freed memory is undefined; it is not looked at where the rows are live.
CleanOldCache ==
  /\ pc = "device" /\ todo = {}
  /\ pc' = "idle"
  /\ heap' = heap \ cached
  /\ cached' = updated /\ updated' = {}
  /\ entry' = [e \in Entries |-> IF e \in cached THEN Blank
                                 ELSE [entry[e] EXCEPT !.sample = Older(@)]]
  /\ UNCHANGED <<kernel, monitored, rows, todo, at, unread, row, history>>

\* gpuinfo_clear_cache, when the program ends.
ClearCache ==
  /\ pc = "idle" /\ pc' = "exit"
  /\ heap' = heap \ cached /\ cached' = {}
  /\ entry' = [e \in Entries |-> IF e \in cached THEN Blank ELSE entry[e]]
  /\ UNCHANGED <<kernel, monitored, rows, updated, todo, at, unread, row,
                 history>>

Refresh == \/ BeginRefresh
           \/ \E d \in Devices : RefreshRunningProcesses(d)
           \/ \E p \in Pids : MeetNew(p) \/ MeetKnown(p)
           \/ ReadCommand \/ Measure \/ DeviceDone \/ CleanOldCache

Next == \/ Refresh \/ ClearCache \/ ChangeMonitored
        \/ \E p \in Pids : Fork(p) \/ Exit(p)

Spec == Init /\ [][Next]_vars

-----------------------------------------------------------------------------
(* What must hold.                                                          *)

\* The two tables own every entry: a pid has at most one entry in both
\* together, no entry is in both, none is freed while it is in one, and none
\* is forgotten, so that gpuinfo_clear_cache leaves nothing behind.
OneEntryPerPid ==
  /\ cached \cup updated = heap /\ cached \cap updated = {}
  /\ \A e, f \in heap : entry[e].pid = entry[f].pid => e = f
  /\ pc = "exit" => heap = {}

\* The rows of d that are drawn or that the refresh has populated.
Populated(d) == IF d \in todo \/ pc = "exit" THEN {}
                ELSE processes[d] \ (IF d = at THEN unread ELSE {})

\* Whether the row of p on device d points at memory of p's that is not freed.
Live(d, p) ==
  \A e \in {cmdline[d][p], user_name[d][p]} \ {NULL} : e \in heap /\ entry[e].pid = p

\* Between two refreshes, and in the middle of one, every row of a device that
\* took part in the last refresh points to a live entry of its own pid.
RefreshedRowsLive == \A d \in refreshed : \A p \in Populated(d) : Live(d, p)

\* "delete from cached list to avoid freeing memory" (extract_gpuinfo.c:219):
\* what is drawn, in the GPU view the rows of every monitored device, is not
\* freed.
DrawnRowsLive ==
  pc = "idle" => \A d \in monitored : \A p \in processes[d] : Live(d, p)

\* A user and a command line are read again once a refresh has missed the pid:
\* those a row shows are of the processes there were when the pid was first met
\* in the unbroken series, and they are shown if they could be read then.
NameOfFirstMet ==
  \A d \in refreshed : \A p \in Populated(d) : \E e \in Find(heap, p) :
    /\ cmdline[d][p] = IF entry[e].command # 0 THEN e ELSE NULL
    /\ user_name[d][p] = IF entry[e].user # 0 THEN e ELSE NULL
    /\ entry[e].command \in {0, firstCommand[p]}
    /\ entry[e].user \in {0, firstUser[p]}

\* A CPU usage is never averaged over more than one interval: the sample it is
\* computed against was taken by the last refresh or by this one.
UsageOfOneInterval == \A e \in heap : entry[e].sample # "older"
=============================================================================
