----------------------------- MODULE FdinfoSweep ----------------------------
(* The sweep of fdinfo (extract_processinfo_fdinfo.c) and the caches of the *)
(* vendors that take part in it.                                            *)
(*                                                                          *)
(* Each process is visited once: its descriptors are walked in the order of *)
(* their numbers.  One that is a DRM file and, says kcmp, not the same open *)
(* file as one seen before, is put to the callbacks in the order of their   *)
(* registration until one takes it; what it tells is added to the process's *)
(* row.  A vendor remembers how long every client of a process had used an  *)
(* engine, and derives the usage from what it remembered in its last sweep. *)
(* Processes open, duplicate, pass on and close files at any moment, also   *)
(* between two steps of the walk over their descriptors.                    *)
EXTENDS Naturals, Sequences, FiniteSets, SequencesExt, Functions

CONSTANTS
  Devices,      \* devices with a callback, as a sequence: registration order
  Precise,      \* those whose parser refuses what names another device
  Files,        \* open DRM files, each of one client
  Owner,        \* the device of each file
  Telling,      \* the files whose fdinfo names its device (drm-pdev)
  Lax,          \* the devices whose parser takes what names no client: amdgpu's
  Pids,
  Permitted,    \* the processes for which kcmp is permitted
  MaxFds,       \* bound: the descriptors of a process
  NoFile,       \* what a free descriptor holds
  OtherFile     \* any file that is not of a DRM device

ASSUME OwnerAssumption == Owner \in [Files -> ToSet(Devices)] /\ Telling \subseteq Files
ASSUME DevicesAssumption == Devices \in Seq(ToSet(Devices))
ASSUME PidsAssumption == 0 \notin Pids
ASSUME FdsAssumption == MaxFds \in Nat /\ NoFile \notin Files /\ OtherFile \notin Files

DeviceSet == ToSet(Devices)
Numbers == 1..MaxFds   \* the code's numbers, which begin at 0, plus one

VARIABLES
  fds,        \* per process, the file at each number
  active,     \* the devices whose callback is enabled: the monitored ones
  unvisited,  \* processes that readdir of /proc has still to tell
  sweeping,
  client_pid, \* the process that is visited; 0: none
  left,       \* the numbers that readdir of its fdinfo has still to tell
  seen_fds,   \* the numbers that were put to the callbacks
  fd_num,     \* the number that is looked at; 0: none
  against,    \* those of seen_fds it has still to be compared with
  asked,      \* the callbacks, by their index, that have still to be asked
  rows,       \* per device, its processes: pid, files counted, usages derived
  last,       \* per device, last_update_process_cache: the age of each entry
  current,    \* per device, current_update_process_cache
  gaveUp      \* history: processes that closed a number of seen_fds or fd_num
              \* while they were visited in this sweep

caches == <<rows, last, current>>
walk == <<client_pid, left, seen_fds, fd_num, against, asked>>
sweepVars == <<fds, active, unvisited, sweeping, walk, caches, gaveUp>>

\* Entries are as old as sweeps of their device have begun since.
Grown(cache) == [c \in DOMAIN cache |-> IF cache[c] = 0 THEN 1 ELSE 2]

NoEntries == [d \in DeviceSet |-> <<>>]

SweepInit ==
  /\ fds = [p \in Pids |-> [n \in Numbers |-> NoFile]]
  /\ active = DeviceSet
  /\ unvisited = {} /\ sweeping = FALSE
  /\ client_pid = 0 /\ fd_num = 0
  /\ left = {} /\ seen_fds = {} /\ against = {} /\ asked = {}
  /\ rows = [d \in DeviceSet |-> <<>>]
  /\ last = NoEntries /\ current = NoEntries
  /\ gaveUp = {}

-----------------------------------------------------------------------------
(* The processes of the system, and the user.                               *)

\* A file is opened, duplicated, or received from another process.
Open(p, n, f) ==
  /\ fds[p][n] = NoFile
  /\ fds' = [fds EXCEPT ![p][n] = f]
  /\ UNCHANGED <<active, unvisited, sweeping, walk, caches, gaveUp>>

\* The process that exits closes all.
Close(p, n) ==
  /\ fds[p][n] # NoFile
  /\ fds' = [fds EXCEPT ![p][n] = NoFile]
  /\ gaveUp' = IF p = client_pid /\ n \in seen_fds \cup {fd_num} THEN gaveUp \cup {p} ELSE gaveUp
  /\ UNCHANGED <<active, unvisited, sweeping, walk, caches>>

\* processinfo_enable_disable_callback_for, when the monitored devices change.
Monitor ==
  /\ ~sweeping
  /\ active' \in SUBSET DeviceSet
  /\ UNCHANGED <<fds, unvisited, sweeping, walk, caches, gaveUp>>

-----------------------------------------------------------------------------
(* processinfo_sweep_fdinfos.                                               *)

\* gpuinfo_refresh_processes forgets the rows of the monitored devices.  Nothing
\* is swept when no callback is active, or /proc does not open.
BeginSweep ==
  /\ ~sweeping /\ sweeping' = TRUE
  /\ \/ active # {} /\ unvisited' = Pids
     \/ unvisited' = {}
  /\ rows' = [d \in DeviceSet |-> IF d \in active THEN <<>> ELSE rows[d]]
  /\ gaveUp' = {}
  /\ UNCHANGED <<fds, active, walk, last, current>>

\* The directories of a process are opened, and the numbers in use listed; it is
\* passed over if one does not open.
Enter(p) ==
  /\ sweeping /\ client_pid = 0 /\ p \in unvisited
  /\ unvisited' = unvisited \ {p}
  /\ \/ client_pid' = p /\ left' = {n \in Numbers : fds[p][n] # NoFile}
     \/ UNCHANGED <<client_pid, left>>
  /\ UNCHANGED <<fds, active, sweeping, seen_fds, fd_num, against, asked, caches, gaveUp>>

Lowest(n, S) == n \in S /\ \A k \in S : n <= k

\* The next number that is told, if by now it is one of a DRM file (is_drm_fd).
NextFd ==
  /\ client_pid # 0 /\ fd_num = 0
  /\ \E n \in left :
       /\ Lowest(n, left) /\ left' = left \ {n}
       /\ IF fds[client_pid][n] \in Files
          THEN fd_num' = n /\ against' = seen_fds /\ asked' = {i \in DOMAIN Devices : Devices[i] \in active}
          ELSE UNCHANGED <<fd_num, against, asked>>
  /\ UNCHANGED <<fds, active, unvisited, sweeping, client_pid, seen_fds, caches, gaveUp>>

NextNumber == fd_num' = 0 /\ against' = {} /\ asked' = {}

\* Mutant: a failure of kcmp is taken for no.
SameFile_Equal(p, m, n) == p \in Permitted /\ fds[p][m] = fds[p][n]

\* kcmp(KCMP_FILE) <= 0: the same open file, or it fails.
SameFile(p, m, n) == p \notin Permitted \/ NoFile \in {fds[p][m], fds[p][n]} \/ fds[p][m] = fds[p][n]

\* One kcmp.
Compare ==
  /\ \E m \in against :
       /\ Lowest(m, against)
       /\ IF SameFile(client_pid, m, fd_num) THEN NextNumber
          ELSE against' = against \ {m} /\ UNCHANGED <<fd_num, asked>>
  /\ UNCHANGED <<fds, active, unvisited, sweeping, client_pid, left, seen_fds, caches, gaveUp>>

\* A parser: the client is looked for in the last cache and leaves it, a usage
\* comes of it; it is entered in the current one unless it is there already.
Parse(cache, client) ==
  [usage |-> IF client \in DOMAIN cache.last THEN <<cache.last[client]>> ELSE <<>>,
   last |-> Restrict(cache.last, DOMAIN cache.last \ {client}),
   current |-> IF client \in DOMAIN cache.current THEN cache.current
               ELSE [c \in DOMAIN cache.current \cup {client} |->
                       IF c = client THEN 0 ELSE cache.current[c]]]

\* The row of the process is the last one of the device, or a new one.
Counted(table, p, f, usage) ==
  LET told == [file |-> f, base |-> usage]
      found == table # <<>> /\ Last(table).pid = p
  IN  IF found THEN [table EXCEPT ![Len(table)].files = Append(@, told)]
      ELSE Append(table, [pid |-> p, files |-> <<told>>])

\* A callback takes what does not name another device.  What names no client, as
\* the number of a file that is gone by now, is taken by a lax one, and counted
\* without a usage.
Take(d, f) ==
  LET parsed == Parse([last |-> last[d], current |-> current[d]], <<client_pid, f>>) IN
  /\ d \in Precise /\ f \in Telling => Owner[f] = d
  /\ IF f \in Files
     THEN /\ last' = [last EXCEPT ![d] = parsed.last]
          /\ current' = [current EXCEPT ![d] = parsed.current]
          /\ rows' = [rows EXCEPT ![d] = Counted(@, client_pid, f, parsed.usage)]
     ELSE /\ d \in Lax /\ rows' = [rows EXCEPT ![d] = Counted(@, client_pid, NoFile, <<>>)]
          /\ UNCHANGED <<last, current>>

\* A callback that is active reads what the number now stands for, as the one
\* before it did, and takes or refuses it; one that does not open is refused.
Offer ==
  /\ fd_num # 0 /\ against = {}
  /\ seen_fds' = seen_fds \cup {fd_num}
  /\ \E i \in asked :
       /\ Lowest(i, asked)
       /\ \/ Take(Devices[i], fds[client_pid][fd_num]) /\ NextNumber
          \/ /\ IF asked = {i} THEN NextNumber ELSE asked' = asked \ {i} /\ UNCHANGED <<fd_num, against>>
             /\ UNCHANGED caches
  /\ UNCHANGED <<fds, active, unvisited, sweeping, client_pid, left, gaveUp>>

Leave ==
  /\ client_pid # 0 /\ fd_num = 0 /\ left = {}
  /\ client_pid' = 0 /\ seen_fds' = {}
  /\ UNCHANGED <<fds, active, unvisited, sweeping, left, fd_num, against, asked, caches, gaveUp>>

\* Mutant: entries of clients that were not met stay.
Swapped_Keeps(cur, old) == [c \in DOMAIN cur \cup DOMAIN old |-> IF c \in DOMAIN cur THEN 1 ELSE 2]

\* swap_process_cache_for_next_update: what is left of the old cache is freed.
Swapped(cur, old) == Grown(cur)

\* refresh_running_processes of every monitored device.
EndSweep ==
  /\ sweeping /\ unvisited = {} /\ client_pid = 0 /\ sweeping' = FALSE
  /\ last' = [d \in DeviceSet |-> IF d \in active THEN Swapped(current[d], last[d]) ELSE last[d]]
  /\ current' = [d \in DeviceSet |-> IF d \in active THEN <<>> ELSE current[d]]
  /\ UNCHANGED <<fds, active, unvisited, walk, rows, gaveUp>>

SweepNext ==
  \/ \E p \in Pids, n \in Numbers : Close(p, n) \/ \E f \in Files \cup {OtherFile} : Open(p, n, f)
  \/ Monitor \/ BeginSweep \/ \E p \in Pids : Enter(p)
  \/ NextFd \/ Compare \/ Offer \/ Leave \/ EndSweep

SweepSpec == SweepInit /\ [][SweepNext]_sweepVars

-----------------------------------------------------------------------------
(* Properties.                                                              *)

\* What the rows of a process count are files of its own.
Real(p) ==
  \A d \in active : \A i \in DOMAIN rows[d] :
    rows[d][i].pid = p => \A k \in DOMAIN rows[d][i].files : rows[d][i].files[k].file \in Files

\* No file of a process is in two places of its rows.
Unique(p) ==
  \A d, e \in active : \A i \in DOMAIN rows[d], j \in DOMAIN rows[e] :
    LET mine == rows[d][i].files  others == rows[e][j].files IN
    rows[d][i].pid = p /\ rows[e][j].pid = p =>
      \A k \in DOMAIN mine, l \in DOMAIN others :
        mine[k].file \in Files /\ mine[k].file = others[l].file => d = e /\ i = j /\ k = l

\* "We only care about unique opens" (processinfo_sweep_fdinfos): at any moment of
\* a sweep a process has one row per monitored device; in all its rows together no
\* open file of its own is counted more than once, and nothing else is.  It may be
\* otherwise for a process that closed a descriptor which the walk had put to the
\* callbacks or was looking at: what is kept of the files seen is their numbers.
CountedOnce ==
  sweeping =>
    /\ \A d \in active : IsInjective([i \in DOMAIN rows[d] |-> rows[d][i].pid])
    /\ \A p \in Pids \ gaveUp : Unique(p) /\ Real(p)

\* A usage is derived from what the client had used when the sweep before, of
\* the same device, met it in the same process: not from an older one.
GrowthSinceLastSweep ==
  \A d \in DeviceSet : \A i \in DOMAIN rows[d] : \A k \in DOMAIN rows[d][i].files :
    rows[d][i].files[k].base \in {<<>>, <<1>>}
=============================================================================
