# nvhtop: a verification project in TLA+

nvhtop is nvtop, a terminal monitor for GPUs, with an htop-like table of all
processes added to it.  This directory holds TLA+ models of the parts of it that
keep state and that are hard to test: what two threads do to one frame, who owns
and who frees the memory the screen is drawn from, what the rings behind the
plots contain after options have changed, which process a key press sends a
signal to, what a vendor's device still shows when a question to its library is
not answered, where the windows lie, and what is left of the options after the
next start.  TLC checks every model on a small instance; TLAPS proves the most
important invariants for every value of the constants.

`PROJECT.json` is the machine-readable side of this file: it lists the
components, the runs, the source lines every definition stands for (`map`), the
hazards with the properties that cover them, and the theorems.  Paths below are
relative to the repository.

    tlc -config MCProcPool.cfg MCProcPool      # a run
    tlapm ProcPoolProofs.tla                   # a module of proofs

## 1. The system

### Components

| component | where | state | operations |
|---|---|---|---|
| Process pool: thread and handoff | `djeti/sys_proc_pool.c`, `src/interface.c` 675-725, 1723-1755 | two semaphores, `sorted[]`, `sys_stats_valid`, `proc_thread_running` | produce, frame_begin, frame_done, drain, start, stop |
| Process pool: records | `djeti/sys_proc_pool.c` | `indexed_collection[]`, `records[]`, `sorted[]`, the records | GC, scan of `/proc`, shrink, build |
| Sort keys, comparators | `sys_proc_pool.c` 255-300, `interface.c` 1312-1443 | none | compare |
| System statistics | `src/system_stats.c`, `interface.c` 2117-2300 | the block, the previous sample per position | read, draw |
| Ring buffer | `interface_ring_buffer.h/.c` | start, end and cells of every (device, series) | push, pop, get, empty |
| Plot history, chart options, monitored devices | `interface.c` 2509-2718, 2954-2986, `interface_options.c`, `interface_setup_win.c` | `gpu_specific_opts`, two lists of devices, the rings | save, toggle metric, toggle device, rebuild |
| GPU processes and their cache | `extract_gpuinfo.c` 199-317 | two hash tables, the rows of every device | refresh, populate, clean, clear |
| Process table: selection, menus, signals | `interface.c` 1466-2115, 2397-2932 | selected row and pid, offset, menu row and number | draw, keys, resize, kill |
| Main loop | `nvtop.c` 345-450 | time slept, signal flags | refresh, save, draw, key |
| fdinfo sweep | `extract_processinfo_fdinfo.c` | callbacks, rows of devices, two caches of clients per device | register, enable, sweep, swap |
| Dynamic information from processes | `extract_gpuinfo.c` 123-199 | a device's rates | fix |
| Setup window | `interface_setup_win.c` | section, indentation, selected options | keys, draw |
| Window layout | `interface_layout_selection.c`, `interface.c` 455-540 | the windows | compute sizes |
| Options and configuration file | `interface_options.c`, `ini.c` | options, the file | load, save |
| Extraction API and vendor backends | `extract_gpuinfo.c`, `extract_gpuinfo_*.c` and other `extract_*info_*.c` | per vendor: library, array of devices, valid bits of every field | init, devices, static, dynamic, rows, shutdown |
| Device discovery, PCIe, messages, command line | `device_discovery_linux.c`, `pcie_utilization.c`, `info_messages_linux.c`, `nvtop.c` 1-345 | none that lasts | I/O |
| Legacy process scan | `system_processes.c` | previous samples | called by nothing |

### How they interact

There are two threads.  The *main loop* does everything but one thing: it
refreshes the devices and their GPU processes when an interval is over, saves
the samples in the rings, draws, and waits in `getch` for a key or for the rest
of the interval.  The *producer* (`proc_pool_thread`) samples `/proc/stat`,
scans `/proc`, builds and sorts one frame of rows, and waits until the main loop
has drawn it.

They share without a lock
- `pool->sorted` and all the records behind it, handed over by two semaphores
  (`frame_ready`, `frame_done`) that hold one token together;
- `interface->sys_stats` and the flag `sys_stats_valid`;
- `options.sort_processes_by` and `options.sort_descending_order`, which the main
  loop writes and the producer reads;
- `proc_thread_running`, the order to stop.

Closing the setup window with another set of monitored devices rebuilds the
whole interface: the options are copied and zeroed, the thread is stopped and
joined, the pool and the rings are freed, the devices are put into their lists
anew and everything is allocated again.  A resize only rebuilds the windows.

The GPU view draws rows whose texts belong to the cache of GPU processes; the
full-system view draws records that belong to the pool.  Both are selected by
*row*: drawing turns the selected row into `selected_pid`, and Enter in the kill
menu signals that pid, a key press later.

### What is hard in it, and what makes it correct

- *The handoff.*  One token lost is a frozen table and, at exit, a join that
  never returns; one token too many is a frame that is sorted while it is drawn.
  Tokens move on paths a test never takes: `opendir` fails, a scan finds nothing,
  the drain of a stop meets a producer about to post.  Correct: exactly one
  token, one owner, the thread is joined before anything is freed, stopping ends.
- *Records.*  A record is freed by the GC, which believes one `stat`, before the
  frame that points at it is replaced by a scan, which believes another `readdir`.
  Pids are reused in between.  Correct: every record is owned once, nobody follows
  a pointer to a freed one, a CPU usage is computed from one process's own samples
  (as far as the code does so, see §4).
- *Rings.*  A ring is found by the place of a device in a list and of a metric in
  a set, and both move.  Correct: a plot shows the samples of what its legend says.
- *The GPU cache.*  Entries move between two tables while rows point at their
  strings.  Correct: each entry is in one table, what a row points at is alive.
- *The selection.*  Rows move, lists shrink, frames may be missing, and menus are
  clamped only when drawn.  Correct: the row highlighted is the process signalled,
  a signal that is sent is one of the table's, and the target stays the one that
  was chosen.

- *Devices.*  Sixteen vendors start a library, allocate an array, put devices
  into a list and fill structures field by field; each of a dozen questions may
  fail, at the start or years later, and a bit says which fields are true.
  Correct: what was started is released once, a listed device lies in an array
  that exists, and a field or row that this cycle has not told is not shown.
- *Sweep.*  Files are open in several processes and several times, and change
  hands while `/proc` and each process's descriptors are walked.  Correct: a file
  counts once per process and for one device, and a usage comes from the two sweeps
  it says it comes from.
- *Layout.*  Unsigned differences of rows and columns, plots that are merged,
  stacked and moved.  Correct: windows lie on the screen, beneath one another,
  and the one a plot is drawn in is its own.
- *Setup window.*  Its cursor indexes lists whose lengths Enter changes.
  Correct: Enter never finds it beyond a list, and it stays where it was.
- *The file.*  It is written line by line and read back by another start with
  other devices in another order.  Correct: what was asked for comes back.
- *Rows.*  Comparators answer -1 or 1 for equal rows and 0 for missing values.
  Correct: rows come in the order asked for, and stay while their values stay.
- *Statistics.*  The producer fills the block core by core while the main thread
  draws it, and cores go off line.  Correct: a usage drawn is one core's own, and
  every core has a place.

`PROJECT.json` lists each hazard with its line.

## 2. The modules

| module | models | state it has | instance |
|---|---|---|---|
| `FrameHandoff` | what the pool promises: one frame with one owner | `owner`, `frame` | by `ProcPool` |
| `ProcPool` | both threads around the handoff, start, stop and rebuild | semaphores, flags, options, the place of each thread | `MCProcPool` |
| `PoolRecords` | the records and arrays behind a frame, the processes of the kernel | collection, heap, arrays, the place of the scan | `MCPoolRecords` |
| `History` | what a ring promises: the last n values | `history` | by `RingBuffer` |
| `RingBuffer` | one ring with unsigned indices | `start`, `end`, `data` | `MCParts` |
| `ChartOptions`, `ProcessOptions` | what Enter and a start do to metrics, displayed fields and the sort field | none (operators) | by the next four |
| `Plots` | options, lists of devices and rings | as named in the code | `MCPlots` |
| `SetupWindow` | the cursor of the setup window, its lists and keys | `cursor`, the options it indexes | `MCPlots` |
| `OptionsFile` | the configuration file and the next start | options, file | `MCPlots` |
| `SysStats` | the statistics block between two threads | block, previous sample, place of each thread | `MCPlots` |
| `CoreGrid` | where each core is drawn | cores and columns | `MCPlots` |
| `SortOrder` | comparators and sorting of both views | rows listed and shown | `MCPlots` |
| `Layout` | `compute_sizes_from_layout` and what leads to it | `windows`, the terminal, metrics per device | `MCParts`, `MCLayout` |
| `GpuInfo` | fields, and the parts vendors share | none (operators) | by the next five |
| `NvmlGpus` | NVIDIA, Enflame, Iluvatar (ixml) | none | by `Devices` |
| `AmdGpus` | amdgpu, radeon | none | by `Devices` |
| `DrmGpus` | Intel (i915, xe), v3d, msm, panfrost, panthor | none | by `Devices` |
| `NpuGpus` | MetaX, Ascend, TPU, Tenstorrent, Qualcomm, Rockchip | none | by `Devices` |
| `Devices` | one vendor and one of its devices through the program's life | `st`, `static`, `valid`, `row` | `MCParts` |
| `FdinfoSweep` | the sweep over all processes' descriptors, the caches of clients | descriptors, the place of the walk, rows, two caches | `MCParts` |
| `GpuProcesses` | the cache of GPU processes and the rows of devices | two tables, heap, rows | `MCGpuProcesses` |
| `ProcessView` | selection, menus, scrolling, signals | `struct process_window` | `MCProcessView` |

Theorems are proved in `...Proofs` modules of their own: `ProcPoolProofs`,
`PoolRecordsProofs`, `GpuProcessesProofs`, `ProcessViewProofs` and `LayoutProofs`
about the module of that name, `MeterProofs` about `RingBuffer`, `SysStats`,
`CoreGrid`, `FdinfoSweep` and `Devices`, `OptionsProofs` about `SetupWindow`,
`SortOrder`, `OptionsFile` and `Plots`.  `FoldSteps` has what they need of loops:
induction over the naturals, the states a fold goes through, what one more element
adds to them, and what every step keeps the loop keeps.

Operators named
`X_Y` and commented *Mutant* are broken versions of the definition `X`; no
specification uses them, and with `X` replaced by one of them its property fails.

**FrameHandoff and ProcPool.**  An action of the producer is one access to
shared state: testing `proc_thread_running`, testing and setting
`sys_stats_valid`, reading each of the two sort options, `sem_wait`, the GC and
scan (one step: only the owner of the frame touches it), sorting, `sem_post`.
The main loop's actions are drawing the statistics, `sem_trywait`, showing the
frame, clearing `sys_stats_valid`, `sem_post`, and a key; the stop is split into
clearing the flag, every `sem_trywait`/`sem_post` of the drain, and the join.  A
frame is the order it was sorted by, or `NoFrame` (the array is NULL), or
`EmptyFrame`.  `ProcPool` implements `FrameHandoff` with the owner read off the
semaphores.

**PoolRecords.**  One `produce` is the GC visiting row by row, `opendir`,
`readdir` (which refills its buffer with a stretch of pids as they are at that
moment, in ascending order), the read of each process listed, which may fail, and
the build of the frame with the shrinking of both arrays.  Processes start, exit and come back under their pid between any two
of these.  Blocks of memory are model values, reused after they are freed, so a
dangling pointer may meet another pid's record.  The producer owns all this from
`frame_done` to `frame_ready`; `ProcPool` shows it.

**History and RingBuffer.**  One (device, series) pair.  `UINT` is the width of
an unsigned; the proofs assume only that a length and an index fit into it.

`MCParts` and `MCPlots` run several components that share no variable, one at a
time: the initial state says which of them goes on.  Their states are the sum of
the parts' states, not the product.

**Plots.**  Every key of the setup window that changes metrics or monitored
devices, closing the window with the rebuild of the interface, and saving.  A
sample is the pair of its device and its metric, which is all that the legend
can contradict.

**GpuProcesses.**  A refresh resets the rows of monitored devices, lets each
vendor list pids, and populates row after row: find the entry, or create it and
read the user and, in a step of its own, the command line, then measure.  Processes
come and go between any two of these, and each read may fail though there is a
process.  The old table is freed at the end.  Entries are blocks as above; what an
entry says is which life of the pid it was read from.  A sample's age is counted in
refreshes.

**ProcessView.**  One cycle of the main loop: refresh or not, draw, one key.  A
frame of the pool is any list of processes or none (that is what `ProcPool` and
`PoolRecords` allow at any moment); the GPU list is any one at a refresh and
otherwise the same processes in the order asked for.  `lit` and `printed` are
what the terminal shows.  Enter in the kill menu reads `signalValues` before it
tests the pid, as `option_do_kill` does: the history `indexed` keeps the row that was
read, whether there was a table of processes behind the menu, and whether the signal
went to a process.

**SetupWindow, ChartOptions, ProcessOptions.**  A cycle is drawing, which clamps
the cursor to the lists as they are now (`Drawn`), and one key.  Lists are known
by their lengths: the rows of a section, the color rows of the chart section
(one for each metric some device draws), the values of a row.  `Plots` uses the
same operators for what Enter does to the options.

**OptionsFile.**  F12 writes one line after the other, any of which may be the
last one that reaches the disk; a start reads what there is, with the devices
found this time in any order: some of those saved may be gone, others may be new.
Lines are records of the section and the value.  A start puts defaults where it has
read nothing, after it has chosen what to sort by, as `main` does.

**SysStats, CoreGrid.**  `sys_stats_read` is split into the count of cores, and
for each core the share of the user, and the share of the system with the counters
that are kept; drawing reads the two shares of each core one after the other.  A
percentage is the pair of samples it was computed from.
`CoreGrid` is the arithmetic of the place of each core against the rows that
`compute_sizes_from_layout` keeps.

**SortOrder.**  One row is a process and its value of the field, or none.  Each
comparator is an operator with the results the code gives, -1 or 1 for equal keys
included; `qsort` is any merge sort, that is, any order whose neighbours it would
not swap.  The two modules of views leave orders open, so that nothing there
depends on this one.

**Layout.**  The whole of `compute_sizes_from_layout`, one operator per stage:
`PerRow` and the headers, `Budget` and `Shares` of the rows, `Positioned` plots
and their merging, `MoreStacks`, `Stacked` with balancing and widths.  The code's loops
are folds of one named step each (`Place`, `Search`, `Move`, `Add`), so that they
can be proved about.  Where the code counts through an array, the model says which
element it arrives at: the k-th plot that draws has k - 1 of them before it (`Nth`),
the k-th window is made for the plot with k - 1 before it, stack by stack
(`Before`).  The layout is evaluated where the code does (start, resize, keys of the plots' height, closing
the setup window), so that options may change under windows that stay.
`alloc_plot_window` is the field `plotOf`.

**Devices and the vendors.**  A vendor's function is an operator from the
questions that are answered (a set `ok`) and the old state to the new one: what
is open, the array of devices and which of them are listed, or the set of valid
fields.  `Devices` calls them in the order of `extract_gpuinfo.c` and `nvtop.c`
(init, device handles, static information, cycles of dynamic information and
rows, fixing the rates, shutdown) and remembers which fields this cycle has told.
A field's value is not modelled: what matters is whether the bit is on, and since
when.

**FdinfoSweep.**  Processes open, duplicate, pass on and close files under numbered
descriptors between any two steps of the sweep.  `Enter` opens a process's directories
(or passes it over, if one does not open) and lists its numbers; `NextFd` takes the
next one and asks whether it is a DRM file now; each `Compare` is one `kcmp` with a
number that was seen before, as both numbers stand at that moment; each `Offer` reads
what the number stands for then and puts it to the next callback, until one takes it.
So what `readdir` listed, what `kcmp` compared and what a callback read may be three
different files.  The client's entry moves from the last cache to the current one, and
`EndSweep` swaps the two.  Entries have the age of the sweep that wrote them.
`Precise` parsers refuse a file that names another device, `Lax` ones (amdgpu's) take
what names no client.

## 3. The runs

| run | question | instance | states |
|---|---|---|---|
| `pool` | do the two threads hand frames over safely, for ever? | 2 fields, 2 directions, failing `pthread_create` and `opendir` | 155 000 |
| `pool_empty_proc` | *violation*: "pthread_join cannot deadlock" with a scan that finds nothing | | |
| `pool_gpu_view` | *violation*: "sampled once per update cycle" in the GPU view | | |
| `records` | are records owned, alive, complete? | 3 pids, one of them nvhtop's own, 2 lives each, 4 blocks | 670 000 |
| `records_use_after_free` | *violation*: a record is freed only when nobody uses it, if `/proc` may fail to open | 1 life each | |
| `parts` | four parts: does the ring hold the last values; do windows fit; what do devices show and release; what does a sweep count? | see below | 870 000 |
| `layout_order` | *violation*: the columns of a plot are a multiple of its lines | 3 devices, 2 lines a plot, 2 terminals | |
| `plots` | six parts: do plots and options follow devices and metrics; where is the cursor; what survives a restart; whose usage is drawn, and where; in which order are rows? | see below | 514 000 |
| `gpu_processes` | are cache entries owned, alive, current? | 2 devices, 2 pids with 3 lives together, 2 entries | 6 255 000 |
| `gpu_processes_drawn` | *violation*: what is drawn is not freed | | |
| `process_view` | does a key do to the process on the screen what it says? | 2 pids, windows of 0 to 3 lines, 2 signals | 3 879 000 |
| `process_view_system` | *violation*: the kill menu keeps its target in the full-system view | | |

The properties, run by run, and what they show:

*pool.* `OneOwner` (never two tokens, never two owners), `NoTokenLost` (never
none while there is a pool), `PoolOutlivesThread` (nothing is freed under the
thread), `OrderSettles` (after the order was changed at most two frames are in
another one, although the two options are read one by one and zeroed by a
rebuild), `StatsOfLastFrames` (the unlocked flag may lose an invalidation, but
the statistics are never older than three frames), `HandoffSpec` (the pool
implements `FrameHandoff`), and under fairness `StopTerminates` and
`FramesKeepComing`.

*records.* `OneRecordPerPid`, `DisplayLive` (scan and screen follow live pointers
only), `FrameComplete` (a process that lived through the scan is in the frame,
once), `OwnBaseline` (a process shown in two frames running is measured against its
own sample; nothing is said of one that took over a pid meanwhile), `ArraysFit`,
`StableAddress` (a step property: invariant I9
of `nvhtop.md`).

*parts, the ring.* `SeriesWritten` (a reader within the stored length never meets
a cell that was not written), `HistorySpec` (implements `History`).

*parts, the layout.* `WindowsFit` (for every choice of metrics and heights, windows
lie on the screen one beneath the other, none overlaps another, no size is
negative; only the headers of the devices may be larger than the screen),
`EveryMetricPlotted` (all metrics asked for have one plot, in order, within the
limits of lines and devices).

*parts, the vendors.* `ReleasedOnce` (what is opened for a vendor is closed
exactly once, whichever step fails and although a vendor without devices is shut
down twice), `DevicesBacked` (the list has
each device that was counted, once, in an array that exists, and the sweep calls
only devices of the list), `ShownIsFresh` (no
field or row is valid that this cycle has not told; exempted, by name, are
the fields the code keeps on purpose or by mistake, see §4).

*parts, the sweep.* `CountedOnce` (one row per process and monitored device; in
all rows of a process together, no open file of its own more than once, and nothing
that is no file of its own, whatever is opened, duplicated and closed meanwhile: unless
it closed a number that the walk had put to the callbacks or was looking at),
`GrowthSinceLastSweep` (a usage is computed from the previous sweep of that device,
never an older one).  `CountedOnce` says at most once: of a process for which `kcmp` is
refused, the code takes every file for the first one.

*plots, options and rings.* `SeriesMatchLegend`, `OptionsInSync` (with
`MonitoredAsAsked` as its part).

*plots, the setup window.* `CursorInRange` (when a key comes, Enter indexes what
exists, and the table is sorted by a field that is shown), `CursorStays` (a step
property: toggling a metric keeps the cursor on its device, although the color
rows above may come and go).

*plots, the file.* `RestartKeepsOptions` (`DeviceComesBack`, `ColumnsComeBack`).  A
device that was saved is monitored if it was, and draws what was saved; of a file that
ends early a part of it, or the default.  Of a complete file it is as saved, but that
the first device is monitored when no other one is.  A device that the file does not
know has the defaults, and some device is always monitored.  Columns and the field to
sort by are those saved, or, of a file that ends early, a part of the columns with the
order that goes with them.  If no column was read, or none was saved, the default ones
come, with nothing to sort by.

*plots, the statistics.* `UsageOfItsCore` (a usage drawn was computed from two
consecutive samples of one core, unless cores came or went in between; a whole
drawing may be of two samples), `GridFits` (every core has its own place in the rows
and columns kept, if the columns suffice, but with 2 to 4 cores or more than 128; the
rows always have room for what is below the grid).

*plots, the rows.* `RowsInOrder` (for every field, direction and order of arrival,
rows come in the order asked for; in the pool the order is total).

*gpu_processes.* `OneEntryPerPid` (also that the end of the program frees all),
`RefreshedRowsLive`, `NameOfFirstMet` (user and command line of a row are those of
the processes there were when each was to be read, as the pid was first met; they may be
of two processes), `UsageOfOneInterval`.

*process_view.* `SignalInTable` (what Enter reads is in the table of signals; with no
table of processes on the screen it may not be, and then it is sent to nobody),
`HighlightIsTarget`, `CursorShown`, `GpuTargetKept`.

### Bounds, and why they are enough

- Two fields and two directions give every torn pair of sort options.  The
  semaphores are not bounded: TLC finds them within 0 and 1.  `lag` and
  `unsampled` count up to the bound that the property is about and stay there.
- Two lives per pid are what a stale baseline, name or entry needs; two pids are
  what a shared or a swapped record needs; one block more than the records that
  can be alive lets a freed one be reused by the other pid or stay free (the GPU cache
  has none more: what is freed there is what the other pid gets).  A pid of a GPU
  process that has three lives is one process to list, one whose user is read and one
  whose command line is; two pids have three lives together.
- `Slack` stands for the 32 spare slots: an array shrinks when the frame has two
  rows fewer.
- Three devices make moves between the lists that are not swaps; two lines per
  plot and three metrics shift the series of a metric by one that comes before
  it and reach the limit of lines (`MaxLines`).  A sample that is under the wrong
  legend is so before the next one is saved, so one sample a series is enough.
- Vendors have up to two cards, each of which answers all its questions, all but
  one, or (for the questions of refreshes) none; static information all or none.
  Two cards are what a count and an array that disagree need, and every failing
  step is reached alone.
- Three devices with up to 2 metrics (`LinesPerPlot` is 2 instead of 4) merge,
  split and stack plots; the four terminals are one too small for the headers,
  one that just merges plots, one of two stacks and one with headers side by
  side.  `MaxModifier` is one press of `t`.
- The sweep is there three times.  Over two numbers of one process, with files of a
  vendor that recognises its own (`Precise`) and of one that takes any, other files
  beside them, and every choice of monitored devices: a duplicate, and a number that is
  used again.  Over three numbers for one monitored device: a number compared with two
  that were seen.  Over two numbers of two processes, for one device and its file: `kcmp`
  is refused for the second process, and one process passes the file to the other.
  amdgpu's parser is `Lax`.
- The setup window has 3 metrics, up to 2 devices and 3 fields, one of which is
  no preference for sorting: every list may be empty, full, or shrink by one
  under the cursor.  The file has 2 devices, both or any of which are found.
- Two cores, each of which goes off line, shift positions; core 0 does, too, as
  on machines that allow it.  The grid is checked for 1 to 140 cores, past the
  limits 4, 8, 16, 32 and 128 of the code, and four widths.
- Three rows of values -1 (priorities), 0 and 1, or missing, show every cycle a
  comparator can have; two pids in the GPU view share rows of two devices.
- A ring of 4 cells fills, wraps and is emptied; `UINT` 16 is far from it, as
  2^32 is from the sizes used.  The proofs need no such bound.
- Windows of 0 to 3 lines: none, header only, one row for two processes, all
  rows; with three menu rows every one of them scrolls.  Base 2 and 2 signals
  make a number with two digits both valid and too large.  `MaxRow` bounds what
  the arrows may do between two drawings, which is one step in the code, too.

### Fairness

Only `ProcPool` claims liveness, under weak fairness of each thread as a whole:
the kernel schedules both, `getch` returns after its timeout at the latest, and
a thread whose next step is enabled takes it.  No key is ever promised, nor that
a particular view is shown, nor that `opendir` ever succeeds; the properties
except those cases explicitly.  Strong fairness is not used.

### Where a run has no deadlock check

`pool_empty_proc` (the join that never returns is the point), `records` (a behaviour ends
where the GC would read a freed record; `records_use_after_free` is about that
step), `gpu_processes`, `process_view` and `parts` (the program exits), and
`layout_order` (one state is the point).

### Type invariants

`TypeOK` of the modules with records or functions in their state is proved
(`TypeCorrect`, `RingTypeCorrect`); in the other modules the types are part of the
inductive invariant (`SetupInv`, `SortInv`, `Shaped`, `SweepTypeOK`, `DevicesInv`).

## 4. What disagrees with the code

Six runs find what the repository says, or relies on, violated (`findings`):

1. `pool_empty_proc`: a frame whose `sorted[]` is still NULL is taken and not
   given back; exit then hangs in `pthread_join`.
2. `pool_gpu_view`: in the GPU view the statistics are never sampled again.
3. `records_use_after_free`: `opendir` failing after a GC that freed a record
   makes the next GC read and free it again.
4. `gpu_processes_drawn`: a device that is monitored again is drawn with rows
   whose strings have been freed, until the next refresh.
5. `process_view_system`: the kill menu of the full-system view may end up on
   another process than the one it was opened for.
6. `layout_order`: balancing the stacks moves a plot past the next one, and the
   windows, numbered stack by stack, go to the wrong plots: the assertion of
   `interface.c:2621` fails.

Some properties exempt by name what the code is known to do otherwise.
`ShownIsFresh` exempts ixml, whose fields are never reset, and TPU, whose rows are
not zeroed.  `ReleasedOnce` exempts TPU, which never closes its library, and
panfrost, which frees a path twice.  `DevicesBacked` exempts panfrost, which lists
a device before it is known to be usable; the tables of radeon, Intel and v3d are
static, not allocated.  `GridFits` exempts terminals with less than 10 columns for
each of the grid's, and 2 to 4 cores and more than 128: there the code has one side, and
places the second half of the cores beyond the right border, which
`interface.c:2117-2120` ("fits optimally for any CPU count") contradicts.
`OwnBaseline` exempts a process that was not in the frame before.  When its pid was
another's until then, and was used again between two GC passes, it keeps the other's
record and is measured against the other's times (`sys_proc_pool.c:425`), although
lines 377-378 promise that "a pid reuse starts with a clean baseline".
`CountedOnce` exempts a process that closes a number the walk has been at.  If it has
duplicated a file to a higher number, closes the lower one after it was counted, and opens
another file there, `kcmp` compares the duplicate with that one, and the file is counted
twice (`extract_processinfo_fdinfo.c:170`, with "we only care about unique opens" at
167-168); and amdgpu's parser takes, against
`include/nvtop/extract_processinfo_fdinfo.h:29-32` ("false otherwise"), what stands
there by now though it is no DRM file.
`SignalInTable` exempts a screen without a table of processes, where the list is hidden
or the terminal too small: nothing clamps the row of the menu, so that
`interface.c:2758` may read beyond `signalValues`; no process is selected, and nothing
is sent.
`NameOfFirstMet` lets the user and the command line of one row be those of two
processes, when the pid is used again between `extract_gpuinfo.c:214` and 215.
`RowsInOrder` exempts what has no order in the code: in the GPU view sorting by
type (ascending compares command lines, descending says 1 whichever row is
graphical), by values other than rates when a row has none, and by the ten fields
of the full-system view for which `sort_process` (`interface.c:1760`) has no case:
`qsort` is then called with a comparator that was never set, which is what 'g'
leads to with the default order, CPU%; in the full-system view
negative priorities, which are compared as unsigned, and fields that are neither
numbers nor the command, by which F6 offers to sort and the pool sorts by pid.
`RestartKeepsOptions` says of columns of which none was read, or none saved, that the
default ones come, with nothing to sort by: the field is chosen before they are put.  A
complete file says "DisplayField = none" when every column is hidden, but the loop that
reads it (`interface_options.c:306`) does not know the word, so that the next start
does not keep them hidden.

Met while reading: the record of a process that vanished in the middle of a scan
is not collected (`sys_proc_pool.c:417`); `realloc(p, 0)` frees arrays that are kept
(459); `/proc/uptime` is read with two conversions and compared with 1, so the
uptime stays 0 (`system_stats.c:123`); `nvhtop.md` describes sleeps and blocking
that the code no longer has (`sys_proc_pool.h:49`, `nvhtop.md:75`).

In the options: saving is not checked and not atomic, and drops the sections of
devices that are absent; F12 and "Don't show again" make overrides of the command
line permanent; `process_default_sort_by_from` does not look for priority, nice,
state, threads, or the sizes; Enter on "Field Displayed" one level up does
nothing; `+` in the General section ignores the level; a fifth color row is
written past `gpu_plot_color_idx[4]` (`interface_setup_win.c:857`); two devices
with one pdev share their options.

In drawing: `devices_ids[4]` is overrun by five devices that draw nothing in one
plot (`interface.c:492`); values are not clamped to 100; in the statistics
`prev.count` is stored and never used, positions are compared instead of cores,
and a position that was never filled gives the usage since boot.

In the vendors: an array of no devices is allocated and used (NVIDIA, Enflame,
ixml, MetaX, Ascend); the second panthor device has version 0 and aborts;
panfrost lists a device before its model is known, and frees its sysfs path
twice; the rate of an engine is divided by an unchecked `gpu_clock_speed_max`;
files of amdgpu are never closed; an ARM board with msm or v3d and another GPU
has its files taken by the wrong callback; shutdown frees only the monitored
list; the rows of cycles that are frozen by the kill menu give no rates; a
client shared by two processes is counted in both rows.

In the table: with nvtop itself filtered out, only its first row is, and it may
have one per device (`interface.c:1841`); `sys_sort` and `sys_compare`
(`interface.c:1484-1518`) are called by nothing.

## 5. What is proved

Every theorem holds for all values of the constants that satisfy the assumptions of
the modules.  These are: finite sets of pids, devices, metrics and cores; `NULL`,
`NoPid`, `NoField` and the like outside of the sets; sizes that are natural numbers
(not zero where the code allocates); the owner of a DRM file is a device; the
default order looks for fields that exist, CPU% among them; there is a device, a
header and a plot are not empty, and the sizes of the terminal are naturals; a plot has more than
one line (`SavedAssumption`: with one line per plot a start would never learn that
a device's metrics were told, and take the default).  TLC evaluates them in the run of each
module.  Two theorems assume more and say so: `NoTokenIsLost` and
`NoRecordDangles`.

**ProcPoolProofs.**  `IInv == TypeOK /\ PlacesOK /\ Tokens <= 1` is inductive.
`PlacesOK` says at which places of the main loop there is a pool, that there is a
thread exactly while there is a pool, and that without a pool there is no token.
Without it `Tokens <= 1` is not inductive: `Start` could add a second token.  From
it follow `TypeCorrect`, `MutualExclusion`, `ThreadSafeTeardown`, and `Refinement`
(safety part of `FrameHandoff`, one step per action).  `NoTokenIsLost` assumes that
every scan finds a process, and adds that a frame offered is not NULL.
`pool_empty_proc` shows that the assumption is needed.

`OrderReachesScreen` (`OrderSettles`) adds `Settling`, which ties the number of
frames since the last change to what the thread has read: after one frame on offer
or two, the options it captured are the user's as far as it has got
(`ArgsSettle`), and so is the frame from then on (`FrameSettles`); the options are
zeroed only while the thread is being stopped.  `StatsStayFresh`
(`StatsOfLastFrames`) is a budget: `ToRelease` counts, for each place of the thread
and value of `sys_stats_valid`, how many frames may still be released before a
sample begins, and every step keeps the frames released plus that number below
`SampleFrames`.

**PoolRecordsProofs.**  `OneRecordPerPid` is inductive with `ScanOK` and
`FrameOK`: what the scan has put into `records[]` are different records of the
collection, and what is still to be visited in `sorted[]` belongs to the
collection or was freed by this GC.  From it `TypeCorrect`, `RecordsOwned`,
`DisplayIsLive`, `AddressesStable`, and `NoRecordDangles` for a `/proc` that
always opens.  `ArraysHoldFrame` (`ArraysFit`): a row has its slot when it is read,
and the unsigned difference in the shrinking never takes one away.
`FramesComplete` (`FrameComplete`): a process that was there since the scan began
is ahead of the cursor of `readdir`, in the stretch it has returned, or has its row
(`SteadyOK`).  `BaselineIsOwn` (`OwnBaseline`): until the pid of a process of the
last frame is read again, its record still has the process's sample, or it has lost
it and the process is gone (`Remembered`).  The theorem is about processes that are in
two frames running, with failed scans between them or not; it leaves out, as the
property does, a process that was not in the frame before.

**GpuProcessesProofs.**  `OneEntryPerPid` with the places of the refresh, what
each table may hold at each place (`TablesOK`), what rows point at (`RowsOK`),
and the two histories (`NamesOK`, `SamplesOK`).  From it the four invariants of
the run, and the types.

**ProcessViewProofs.**  `IInv == TypeOK /\ Selection`.  `Selection` says what ties
the selected row, the selected pid and what is lit together at each place of the
cycle: no menu behind the setup window, nothing selected where no table was drawn,
the row of the menu clamped when a key comes or no table drawn and nothing selected,
the selected row that of the selected
pid in the GPU view, and the same process after drawing again while the kill menu
is open.  From it all four invariants of the run, for windows of any height.

**OptionsProofs.**  *The cursor*: `SetupInv` says which rows a cursor may rest on at
level 0 and that after a drawing it indexes what exists; `CursorStaysOnDevice` is a
step property that needs what toggling a metric does to the color rows above the
cursor.  *The rows*: neighbours that a comparator would not swap are in the order
asked for (`PoolNeighbours`, `GpuNeighbours`), the order is transitive
(`BeforeIsTransitive`), so by induction over positions any two rows are
(`NeighboursSuffice`), and hiding a row keeps it (`FilteredIs`).  *The file*: the
loops over the enums write a set in ascending order, each member once
(`AscendingIs`); `LinesAre` says at which lines of the file each section and each
device begins.  Reading is a fold over the lines, wherever the file ends.  Its loop
invariant (`SoFar`) says of every number of lines read what has been taken from
them: the first of the fields, the first of the metrics of the device the last line
belongs to, all of the devices before it and nothing of those behind
(`HeadStep`, `DeviceStep`).  `LoadedIs` adds what `main` does then: the field to sort by, the
defaults, and the first device if none is monitored; `DeviceKept` and `ColumnsKept`
are the two parts of the property.  `FileInv` adds that
the file is the beginning of what was saved last.  *The charts*: `PlotsInv == Synced /\ Rings /\ Flags`.  The two loops of
`interface_check_and_fix_monitored_gpus` are folds that move devices between two
lists, with positions that the loop itself shifts; each has a loop invariant
(`Leaving`, `Returning`: the part of the options visited is in step with the lists,
the rest as before), and the theorem on the whole function is that it splits the
devices as the options ask (`Split`) and keeps the options in step with the lists
(`InSync`).  A ring agrees with its legend since whatever renumbers metrics or
devices empties the rings it concerns, in the same step.  From it `TypeCorrect`, `OptionsStayInSync` and
`SeriesAreOfLegend`.

**LayoutProofs.**  `LayoutInv` says that the windows fit the terminal, and, unless
the setup window is open and has changed the metrics under them, that the plots are
those asked for.  It is inductive because every action either lays out again or
leaves terminal and windows alone (and the metrics, unless the setup window is
open); all the work is in `LaidOutIs`: *one* call of `compute_sizes_from_layout`, from
any terminal and any metrics, gives windows like these.  Its stages:
- Sums.  A `Total` is a natural, grows with its terms and changes by what one term
  changes (`TotalNat`, `UptoGrows`, `TotalChanged`), by induction over the fold.
  `CountIs` and `Ranked` turn cardinalities into places, so that each k has
  exactly one k-th plot (`DrawnIs`, `BeforeIs`).
- Placing.  `Placed` is the invariant of the loop over plots: those so far lie in
  stacks no fuller than the columns, none of which is empty, and the rows left are those that the stacks do
  not need.  `Fits` is what is left of it when all found a place.
- Merging.  `Grouped` says that the metrics of a plot are those of its devices, that
  plots are in the order of devices, and that no plot has more than its lines.  A
  merge of neighbours keeps it because nothing that draws lies between them
  (`MergedIsGrouped`); moving plots over empty ones renumbers them (`CompactIs`).
- Balancing.  A move goes to a stack that exists and has the columns for it
  (`MovedFits`), any number of times, over stacks that may be new and empty
  (`FitsMore`).
- Rows.  `Budget`, `Shares`, `Spaced`, `MoreStacks` and `Stacked` never give away
  more rows than there are, with the divisions of the code.
- Columns.  The shares of the plots of a stack, rounded down, add up to no more
  than the columns (`SharesOfIs`), each is wide enough for its lines, and none
  overlaps the next (`PlotsApart`).
From it `LayoutFits` and `LayoutPlotsMetrics`.  Numbers are naturals without a
width: what is proved includes that no difference falls below zero but that of the
columns the headers leave, which the model has as the code has it.

**MeterProofs.**  *The ring*: every stored index holds a written value; pushing,
popping and emptying move cells as `History` moves its sequence, with one lemma per
operation on what happens to each stored position.  *The statistics*: `StatsInv`
follows the counters kept of the last sample and of this one from the place the
thread is at (`KeptOfLastSample`, `KeptOfThisSample`).  *The grid*: arithmetic of
columns and rows for each of the code's ranges of numbers of cores.  *The sweep*:
`SweepInv`: rows are those of processes visited; as long as the process visited has
closed none of the numbers the walk was at, each file in its rows still stands at a
number that was seen, so that the next number with that file is found equal to it, and
the number looked at is of the file it was of; the old caches are of the last sweep,
the new ones of this one.  *The
vendors*: `AllTold` (between two refreshes the valid fields are those told in this
cycle, since every vendor but ixml and TPU resets them first); `DevicesInv`: a library
is open exactly while its handle is kept (`Sound`), and the list is 1..count in the
order of the array (`Numbered`), which every vendor's loop over its cards keeps,
with any number of cards of which any may be refused.

### Only model-checked

- Liveness (`StopTerminates`, `FramesKeepComing`): out of
  the prover's reach, as is everything with ENABLED.

Every safety property of the passing runs, invariants, step properties and both
refinements, is stated by a theorem.  That `layout_order`, the five other
violations, and the exemptions of §4 are what the code does, is shown by TLC.

## 6. What is not modelled, and why

- Text: names, command lines, formatting, colours, the syntax of the ini file.
- Numbers read from `/proc` and from vendors.  A reading is modelled by whose it
  is and when it was made, a vendor's field by whether it is valid.
- NVLink's counters, unit conversions, and tables of names of the vendors.
- The walk of sysfs and udev behind device discovery, PCIe links, messages at the
  start, the command line: read-only I/O.
- The time the main loop sleeps.
- Memory, swap, load, uptime and tasks in the statistics block.
- The Apple backend, the legacy process scan that nothing calls, vendored headers
  (`uthash.h`, `list.h`, `libdrm`), the ini parser, macOS replacements.
- `getpwuid`'s static buffer and other libc state shared by the two threads.
- Signals: `SIGWINCH` and `SIGCONT` are a resize at the top of the loop, which is
  where their flags are read; `SIGINT` and `SIGQUIT` are an exit.
- Memory that cannot be allocated: the code aborts or exits.

## 7. What is left

- A model of the time the main loop sleeps and of changes of the interval: where
  `nvtop.c` decides between refreshing, waiting for a key and waiting for the rest.
- The switches of the configuration file that `OptionsFile` leaves out, which are
  read and written one like the other.
