------------------------------ MODULE ProcPool ------------------------------
(* The process pool's thread and the main loop that draws its frames.       *)
(*                                                                          *)
(* A producer thread (proc_pool_thread, src/interface.c) builds sorted      *)
(* frames of the process table; the main loop draws them.  They share the   *)
(* array pool->sorted through two semaphores and no mutex, and the          *)
(* sys_stats block through the flag sys_stats_valid and nothing else.  The  *)
(* main loop also stops the thread and destroys the pool, when it exits and *)
(* whenever the set of monitored devices changes.                           *)
(*                                                                          *)
(* A process identifier, a record and the rows of a frame are left to the   *)
(* module PoolRecords: a frame is here the order it was sorted by.          *)
EXTENDS Integers

CONSTANTS
  NoFrame,         \* what pool->sorted is before its first slot: NULL
  EmptyFrame,      \* a frame of no rows
  Fields,          \* the process fields a user may sort by
  DefaultField,    \* the field whose number is 0, what memset leaves behind
  ThreadMayFail,   \* whether pthread_create may fail
  ProcMayFail,     \* whether opendir("/proc") may fail
  ProcMayBeEmpty   \* whether a scan may read no process at all

Directions == {"ascending", "descending"}   \* sort_descending_order
Orders == [by : Fields, dir : Directions]

Frames == Orders \cup {NoFrame, EmptyFrame}   \* what pool->sorted may be

ASSUME FieldsAssumption == DefaultField \in Fields
ASSUME FramesAssumption == NoFrame \notin Orders /\ EmptyFrame \notin Orders
                           /\ NoFrame # EmptyFrame
ASSUME SwitchesAssumption ==
  {ThreadMayFail, ProcMayFail, ProcMayBeEmpty} \subseteq BOOLEAN

Zeroed == [by |-> DefaultField, dir |-> "ascending"]
SettleFrames == 3     \* where lag and unsampled stop counting
SampleFrames == 4

VARIABLES
  \* struct sys_proc_pool
  frame_ready, frame_done,  \* the semaphores
  sorted,                   \* the frame: NULL, no rows, or rows in some order
  \* struct nvtop_interface
  proc_pool,                \* whether the interface has a pool
  proc_thread_running,
  sys_stats_valid,
  options,                  \* sort_processes_by and sort_descending_order
  has_monitored_set_changed,
  view,                     \* "all", "gpu", or "setup" while that window shows
  \* where the two threads are
  th, args, ui, stopping,
  \* history
  lag,       \* frames the UI took since the user last changed the order
  unsampled  \* frames the UI released since the last sample began

poolVars == <<frame_ready, frame_done, sorted>>
ifaceVars == <<proc_pool, proc_thread_running, sys_stats_valid, options,
               has_monitored_set_changed, view>>
history == <<lag, unsampled>>
vars == <<poolVars, ifaceVars, th, args, ui, stopping, history>>

ProducerPlaces == {"none", "test", "check", "sample", "by", "desc", "wait",
                   "gc", "fill", "post", "giveback", "exited"}
UIPlaces == {"start", "top", "stats", "draw", "show", "done", "key", "halt",
             "drain", "drained", "join", "gone", "exit"}

FlagsOK == /\ proc_pool \in BOOLEAN
           /\ proc_thread_running \in BOOLEAN
           /\ sys_stats_valid \in BOOLEAN
           /\ has_monitored_set_changed \in BOOLEAN

TypeOK ==
  /\ frame_ready \in Nat /\ frame_done \in Nat
  /\ sorted \in Frames
  /\ FlagsOK
  /\ options \in Orders
  /\ view \in {"all", "gpu", "setup"}
  /\ th \in ProducerPlaces
  /\ args \in Orders
  /\ ui \in UIPlaces
  /\ stopping \in {"no", "reinit", "quit"}
  /\ lag \in 0..SettleFrames
  /\ unsampled \in 0..SampleFrames

\* The producer owns the frame between its sem_wait and its sem_post.
Filling == th \in {"gc", "fill", "post", "giveback"}
\* The UI owns it from its successful sem_trywait to its sem_post.
Holding == ui \in {"show", "done", "drained"}

\* While the interface is rebuilt the options the thread reads are zeroed.
OptionsSeen == IF stopping = "reinit" THEN Zeroed ELSE options

Init ==
  /\ frame_ready = 0 /\ frame_done = 0 /\ sorted = NoFrame
  /\ proc_pool = FALSE /\ proc_thread_running = FALSE
  /\ sys_stats_valid = FALSE
  /\ options \in Orders
  /\ has_monitored_set_changed = FALSE
  /\ view = "all"
  /\ th = "none" /\ args = Zeroed
  /\ ui = "start" /\ stopping = "no"
  /\ lag = 0 /\ unsampled = 0

-----------------------------------------------------------------------------
(* The producer thread: proc_pool_thread and, from "wait" to "post",        *)
(* sys_proc_pool_produce.                                                   *)

\* while (interface->proc_thread_running)
TestRunning ==
  /\ th = "test"
  /\ th' = IF proc_thread_running THEN "check" ELSE "exited"
  /\ UNCHANGED <<poolVars, ifaceVars, args, ui, stopping, history>>

\* if (!interface->sys_stats_valid)
CheckStats ==
  /\ th = "check"
  /\ IF sys_stats_valid
     THEN th' = "by" /\ UNCHANGED unsampled
     ELSE th' = "sample" /\ unsampled' = 0
  /\ UNCHANGED <<poolVars, ifaceVars, args, ui, stopping, lag>>

\* sys_stats_read has filled interface->sys_stats.
SampleStats ==
  /\ th = "sample"
  /\ sys_stats_valid' = TRUE
  /\ th' = "by"
  /\ UNCHANGED <<poolVars, proc_pool, proc_thread_running, options,
                 has_monitored_set_changed, view, args, ui, stopping, history>>

\* The two arguments of sys_proc_pool_produce are read one after the other.
ReadSortBy ==
  /\ th = "by"
  /\ args' = [args EXCEPT !.by = OptionsSeen.by]
  /\ th' = "desc"
  /\ UNCHANGED <<poolVars, ifaceVars, ui, stopping, history>>

ReadSortDesc ==
  /\ th = "desc"
  /\ args' = [args EXCEPT !.dir = OptionsSeen.dir]
  /\ th' = "wait"
  /\ UNCHANGED <<poolVars, ifaceVars, ui, stopping, history>>

WaitFrameDone ==
  /\ th = "wait" /\ frame_done > 0
  /\ frame_done' = frame_done - 1
  /\ th' = "gc"
  /\ UNCHANGED <<frame_ready, sorted, ifaceVars, args, ui, stopping, history>>

\* GC walks the previous frame, then opendir("/proc") succeeds or not.
OpenProc ==
  /\ th = "gc"
  /\ \/ th' = "fill"
     \/ ProcMayFail /\ th' = "giveback"
  /\ UNCHANGED <<poolVars, ifaceVars, args, ui, stopping, history>>

\* Mutant: a failed opendir posts frame_done and then goes on.
GiveBack_NoReturn ==
  /\ th = "giveback"
  /\ frame_done' = frame_done + 1
  /\ th' = "fill"
  /\ UNCHANGED <<frame_ready, sorted, ifaceVars, args, ui, stopping, history>>

\* Mutant: a failed opendir only returns.
GiveBack_NoPost ==
  /\ th = "giveback"
  /\ th' = "test"
  /\ UNCHANGED <<poolVars, ifaceVars, args, ui, stopping, history>>

\* sem_post(&pool->frame_done): "keep the handoff balanced"
GiveBack ==
  /\ th = "giveback"
  /\ frame_done' = frame_done + 1
  /\ th' = "test"
  /\ UNCHANGED <<frame_ready, sorted, ifaceVars, args, ui, stopping, history>>

\* Mutant: the comparator forgets the direction.
FillFrame_NoDirection ==
  /\ th = "fill"
  /\ sorted' = [args EXCEPT !.dir = "ascending"]
  /\ th' = "post"
  /\ UNCHANGED <<frame_ready, frame_done, ifaceVars, args, ui, stopping, history>>

\* The scan, the copy into sorted[] and qsort_r.  With no row to copy no slot
\* is ever appended: sorted stays NULL if it was.
FillFrame ==
  /\ th = "fill"
  /\ \/ sorted' = args
     \/ ProcMayBeEmpty /\ sorted' = IF sorted = NoFrame THEN NoFrame ELSE EmptyFrame
  /\ th' = "post"
  /\ UNCHANGED <<frame_ready, frame_done, ifaceVars, args, ui, stopping, history>>

PostFrameReady ==
  /\ th = "post"
  /\ frame_ready' = frame_ready + 1
  /\ th' = "test"
  /\ UNCHANGED <<frame_done, sorted, ifaceVars, args, ui, stopping, history>>

-----------------------------------------------------------------------------
(* The main loop: one pass of while (!signal_exit) in main.                 *)

\* initialize_curses: proc_pool_start makes a pool and its thread, and frees
\* the pool again if the thread cannot be created.
Start ==
  /\ ui = "start"
  /\ \/ /\ proc_pool' = TRUE /\ proc_thread_running' = TRUE
        /\ frame_ready' = 0 /\ frame_done' = 1 /\ sorted' = NoFrame
        /\ th' = "test"
     \/ /\ ThreadMayFail
        /\ UNCHANGED <<proc_pool, proc_thread_running, poolVars, th>>
  /\ sys_stats_valid' = FALSE
  /\ view' = "all"
  /\ stopping' = "no"
  /\ ui' = "top"
  /\ lag' = 0 /\ unsampled' = 0
  /\ UNCHANGED <<options, has_monitored_set_changed, args>>

\* interface_check_monitored_gpu_change: a changed set rebuilds the interface
\* once the setup window is closed; the memset of its options comes first.
Rebuild ==
  /\ ui = "top" /\ view # "setup" /\ has_monitored_set_changed
  /\ has_monitored_set_changed' = FALSE
  /\ stopping' = "reinit"
  /\ ui' = "halt"
  /\ UNCHANGED <<poolVars, proc_pool, proc_thread_running, sys_stats_valid,
                 options, view, th, args, history>>

\* draw_gpu_info_ncurses: behind the setup window neither the stats nor the
\* processes are drawn.
BeginDraw ==
  /\ ui = "top"
  /\ view = "setup" \/ ~has_monitored_set_changed
  /\ ui' = IF view = "setup" THEN "key" ELSE "stats"
  /\ UNCHANGED <<poolVars, ifaceVars, th, args, stopping, history>>

\* draw_sys_stats reads interface->sys_stats field by field.
DrawStats ==
  /\ ui = "stats"
  /\ ui' = "draw"
  /\ UNCHANGED <<poolVars, ifaceVars, th, args, stopping, history>>

\* draw_processes without a frame: another view, no pool, or sem_trywait
\* finds frame_ready at 0.  The "gpu" view stands for every reason not to
\* reach draw_sys_processes (a hidden list or too small a terminal as well).
DrawWithoutFrame ==
  /\ ui = "draw"
  /\ view # "all" \/ ~proc_pool \/ frame_ready = 0
  /\ ui' = "key"
  /\ UNCHANGED <<poolVars, ifaceVars, th, args, stopping, history>>

\* Mutant: frame_begin looks at the semaphore and does not take it.
FrameBegin_Peek ==
  /\ ui = "draw" /\ view = "all" /\ proc_pool /\ frame_ready > 0
  /\ sorted # NoFrame
  /\ ui' = "show"
  /\ lag' = IF lag < SettleFrames THEN lag + 1 ELSE lag
  /\ UNCHANGED <<poolVars, ifaceVars, th, args, stopping, unsampled>>

\* sys_proc_pool_frame_begin takes the frame.  It returns pool->sorted, and
\* draw_sys_processes takes NULL for "no frame".
FrameBegin ==
  /\ ui = "draw" /\ view = "all" /\ proc_pool /\ frame_ready > 0
  /\ frame_ready' = frame_ready - 1
  /\ IF sorted = NoFrame
     THEN ui' = "key" /\ UNCHANGED lag
     ELSE ui' = "show" /\ lag' = IF lag < SettleFrames THEN lag + 1 ELSE lag
  /\ UNCHANGED <<frame_done, sorted, ifaceVars, th, args, stopping, unsampled>>

\* Mutant: the statistics are not invalidated.
ShowFrame_StillValid ==
  /\ ui = "show"
  /\ ui' = "done"
  /\ UNCHANGED <<poolVars, ifaceVars, th, args, stopping, history>>

\* print_sys_processes_on_screen, then sys_stats_valid = false.
ShowFrame ==
  /\ ui = "show"
  /\ sys_stats_valid' = FALSE
  /\ ui' = "done"
  /\ UNCHANGED <<poolVars, proc_pool, proc_thread_running, options,
                 has_monitored_set_changed, view, th, args, stopping, history>>

\* Mutant: the frame is never given back.
FrameDone_NoPost ==
  /\ ui = "done"
  /\ ui' = "key"
  /\ UNCHANGED <<poolVars, ifaceVars, th, args, stopping, history>>

FrameDone ==
  /\ ui = "done"
  /\ frame_done' = frame_done + 1
  /\ unsampled' = IF unsampled < SampleFrames THEN unsampled + 1 ELSE unsampled
  /\ ui' = "key"
  /\ UNCHANGED <<frame_ready, sorted, ifaceVars, th, args, stopping, lag>>

-----------------------------------------------------------------------------
(* getch and what the key does, as far as the pool can tell.                *)

NoKey ==
  /\ ui = "key" /\ ui' = "top"
  /\ UNCHANGED <<poolVars, ifaceVars, th, args, stopping, history>>

\* '+', '-', the sort menu and the setup window write one option at a time.
ChangeOrder ==
  /\ ui = "key" /\ ui' = "top"
  /\ \/ \E f \in Fields : options' = [options EXCEPT !.by = f]
     \/ \E d \in Directions : options' = [options EXCEPT !.dir = d]
  /\ lag' = 0
  /\ UNCHANGED <<poolVars, proc_pool, proc_thread_running, sys_stats_valid,
                 has_monitored_set_changed, view, th, args, stopping, unsampled>>

\* 'a', 'g' and F2; a resize, F5 and leaving the setup window rebuild all
\* windows, which closes the setup window and selects the full-system view.
ChangeView ==
  /\ ui = "key" /\ ui' = "top"
  /\ \/ view' = "all"
     \/ view # "setup" /\ view' \in {"gpu", "setup"}
  /\ UNCHANGED <<poolVars, proc_pool, proc_thread_running, sys_stats_valid,
                 options, has_monitored_set_changed, th, args, stopping, history>>

\* Enter on a device of the setup window's list of devices to monitor.
ToggleDevice ==
  /\ ui = "key" /\ view = "setup" /\ ui' = "top"
  /\ has_monitored_set_changed' = TRUE
  /\ UNCHANGED <<poolVars, proc_pool, proc_thread_running, sys_stats_valid,
                 options, view, th, args, stopping, history>>

\* 'q', F10, ESC or a signal: the loop ends and clean_ncurses is called.
Quit ==
  /\ ui = "key" /\ ui' = "halt"
  /\ stopping' = "quit"
  /\ UNCHANGED <<poolVars, ifaceVars, th, args, history>>

-----------------------------------------------------------------------------
(* clean_ncurses: proc_pool_stop.                                           *)

\* Mutant: proc_pool_stop joins the thread without draining the pool.
Halt_NoDrain ==
  /\ ui = "halt"
  /\ proc_thread_running' = FALSE
  /\ ui' = IF proc_pool THEN "join" ELSE "gone"
  /\ UNCHANGED <<poolVars, proc_pool, sys_stats_valid, options,
                 has_monitored_set_changed, view, th, args, stopping, history>>

Halt ==
  /\ ui = "halt"
  /\ proc_thread_running' = FALSE
  /\ ui' = IF proc_pool THEN "drain" ELSE "gone"
  /\ UNCHANGED <<poolVars, proc_pool, sys_stats_valid, options,
                 has_monitored_set_changed, view, th, args, stopping, history>>

\* sys_proc_pool_drain: while (sem_trywait(&pool->frame_ready) == 0) ...
DrainTake ==
  /\ ui = "drain"
  /\ IF frame_ready > 0
     THEN frame_ready' = frame_ready - 1 /\ ui' = "drained"
     ELSE ui' = "join" /\ UNCHANGED frame_ready
  /\ UNCHANGED <<frame_done, sorted, ifaceVars, th, args, stopping, history>>

DrainPost ==
  /\ ui = "drained"
  /\ frame_done' = frame_done + 1
  /\ ui' = "drain"
  /\ UNCHANGED <<frame_ready, sorted, ifaceVars, th, args, stopping, history>>

\* Mutant: the pool is freed without joining the thread.
JoinAndFree_NoJoin ==
  /\ ui = "join"
  /\ proc_pool' = FALSE
  /\ frame_ready' = 0 /\ frame_done' = 0 /\ sorted' = NoFrame
  /\ ui' = "gone"
  /\ UNCHANGED <<proc_thread_running, sys_stats_valid, options, th,
                 has_monitored_set_changed, view, args, stopping, history>>

\* pthread_join returns once the thread has; then sys_proc_pool_free.
JoinAndFree ==
  /\ ui = "join" /\ th = "exited"
  /\ th' = "none"
  /\ proc_pool' = FALSE
  /\ frame_ready' = 0 /\ frame_done' = 0 /\ sorted' = NoFrame
  /\ ui' = "gone"
  /\ UNCHANGED <<proc_thread_running, sys_stats_valid, options,
                 has_monitored_set_changed, view, args, stopping, history>>

\* The program ends, or initialize_curses makes the next interface.
Leave ==
  /\ ui = "gone"
  /\ ui' = IF stopping = "quit" THEN "exit" ELSE "start"
  /\ UNCHANGED <<poolVars, ifaceVars, th, args, stopping, history>>

-----------------------------------------------------------------------------
Producer == \/ TestRunning \/ CheckStats \/ SampleStats \/ ReadSortBy
            \/ ReadSortDesc \/ WaitFrameDone \/ OpenProc \/ GiveBack
            \/ FillFrame \/ PostFrameReady

Key == NoKey \/ ChangeOrder \/ ChangeView \/ ToggleDevice \/ Quit

Stop == Halt \/ DrainTake \/ DrainPost \/ JoinAndFree \/ Leave

UI == \/ Start \/ Rebuild \/ BeginDraw \/ DrawStats \/ DrawWithoutFrame
      \/ FrameBegin \/ ShowFrame \/ FrameDone \/ Key \/ Stop

Terminated == ui = "exit" /\ UNCHANGED vars

Next == Producer \/ UI \/ Terminated

\* The kernel runs both threads.  getch returns after its timeout at the
\* latest, so the main loop goes on, but no key is ever promised.
Fairness == WF_vars(Producer) /\ WF_vars(UI)

SafetySpec == Init /\ [][Next]_vars
Spec == SafetySpec /\ Fairness

-----------------------------------------------------------------------------
(* What must hold.                                                          *)

Bit(b) == IF b THEN 1 ELSE 0

\* Every token of the handoff: both semaphores and both critical sections.
Tokens == frame_ready + frame_done + Bit(Filling) + Bit(Holding)

\* There is never more than one token, so the producer never writes or frees
\* what the UI is drawing, whatever order sem_post and sem_trywait, a drain
\* or a failed scan come in (sys_proc_pool.h:45-46, I8).
OneOwner == Tokens <= 1 /\ ~(Filling /\ Holding)

\* No token is lost while a pool is in use: if nobody owns the frame, one of
\* the semaphores lets somebody in.  A lost token is a frozen process table
\* and a pthread_join that never returns.
NoTokenLost == proc_pool => Tokens = 1

\* The pool and the interface it reads outlive the thread: whatever the order
\* of halt, drain and join, nothing is freed under a running thread.
PoolOutlivesThread == th # "none" => proc_pool /\ ui # "exit"

\* The thread captures the sort order before it waits for its turn, so an old
\* order may still be shown, but not for more than two frames after the user
\* changed it: from the third on the frame is in the user's order.
OrderSettles ==
  ui = "show" /\ lag = SettleFrames => sorted \in {options, EmptyFrame}

\* The side the frame belongs to, read off the semaphores and the UI.
Owner == IF Holding THEN "consumer"
         ELSE IF frame_ready > 0 THEN "offered" ELSE "producer"

\* The pool implements the abstract exchange of one frame.
Handoff == INSTANCE FrameHandoff WITH
  Contents <- Orders \cup {EmptyFrame},
  owner <- Owner,
  frame <- sorted

HandoffSpec == Handoff!Spec

\* Stopping always ends: once the loop is left, or the interface is to be
\* rebuilt, the thread is joined wherever it was (nvhtop.md:78-79,
\* "pthread_join cannot deadlock on resize/exit").
StopTerminates == (ui = "halt") ~> (ui = "gone")

\* As long as the full-system table is drawn, new frames reach the screen,
\* unless the pool is torn down again and again or /proc cannot be opened.
FramesKeepComing ==
  []<>(ui = "draw" /\ view = "all" /\ proc_pool)
    => []<>(ui = "show") \/ []<>(ui = "start") \/ []<>(th = "giveback")

\* "Sample /proc/stat once per handoff" (src/interface.c:684): the flag has no
\* lock and is tested once per frame, so an invalidation may be lost or come
\* late, but the statistics on screen are never older than three frames: the
\* UI does not release a fourth without a sample having begun in between.
StatsOfLastFrames == unsampled < SampleFrames

\* "sampled once per update cycle, shared with the producer"
\* (interface_internal_common.h:161): as long as the statistics are drawn by
\* one and the same interface, they are sampled.
SampledEveryCycle ==
  []<>(ui = "stats" /\ proc_pool) => []<>(th = "sample") \/ []<>(ui = "start")
=============================================================================
