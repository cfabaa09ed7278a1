----------------------------- MODULE ProcessView ----------------------------
(* The process table's selection and its menus: what the keys do, what is   *)
(* drawn, and which process a signal is sent to (interface.c, nvtop.c).     *)
(*                                                                          *)
(* The table is selected by row, not by process.  Drawing it turns the row  *)
(* into selected_pid, which Enter in the kill menu sends the signal to.     *)
(* The rows of the GPU view are refreshed by the main loop; those of the    *)
(* full-system view are a frame of the process pool, if there is one (see   *)
(* ProcPool), in any order.                                                 *)
EXTENDS Naturals, Sequences, FiniteSets, SequencesExt

CONSTANTS
  Pids,
  NoPid,           \* -1, and no row highlighted
  Heights,         \* the lines the process window may have, 0: no window
  FieldCounts,     \* how many columns may be displayed
  NumSignals,      \* nvtop_num_signals
  Base,            \* 10: the digit keys are 0..Base - 1
  MaxRow           \* bound on a row that nothing clamps

ASSUME PidsAssumption == NoPid \notin Pids /\ IsFiniteSet(Pids)
ASSUME SizesAssumption ==
  /\ Heights \subseteq Nat /\ FieldCounts \subseteq Nat
  /\ NumSignals \in Nat /\ Base \in Nat \ {0, 1} /\ Base - 1 <= NumSignals
  /\ MaxRow \in Nat /\ MaxRow >= Cardinality(Pids) /\ MaxRow > NumSignals
  /\ \A n \in FieldCounts : MaxRow > n

VARIABLES
  \* struct process_window
  view_mode, selected_row, offset, selected_pid,
  option,          \* its option_window
  height,          \* the lines of its windows
  \* the options, and whether the setup window shows
  sort_descending_order, hide_processes_list, fields, visible,
  \* the rows of the GPU view, in both directions of the order
  gpu,
  pc,
  \* what is on the screen, and history
  lit,             \* the pid of the highlighted row
  printed,         \* <<rows to print, lines for them>>, <<>> if no table was
                   \* printed in this cycle
  chosen,          \* selected_pid when the kill menu was opened, NoPid with none
                   \* open and once the order has been turned round
  indexed          \* the last reading of signalValues: its row (0: none), whether
                   \* there is a table behind the menu, who got the signal

process == <<view_mode, selected_row, offset, selected_pid, option, height>>
options == <<sort_descending_order, hide_processes_list, fields>>
screen == <<lit, printed>>
vars == <<process, options, visible, gpu, pc, screen, chosen, indexed>>

Lists == {s \in SeqOf(Pids, Cardinality(Pids)) : IsInjective(s)}
\* The same processes in an ascending and in a descending order.
Sorted == {o \in [BOOLEAN -> Lists] : Range(o[TRUE]) = Range(o[FALSE])}

Options == [state : {"hidden", "kill", "sort_by"},
            previous_state : {"hidden", "kill", "sort_by"},
            selected_row : 0..MaxRow, offset : 0..MaxRow,
            last_key_was_number : BOOLEAN, input_number : 0..NumSignals]

Readings == [row : 0..MaxRow, behind : {"table", "nothing"}, to : {"process", "nobody"}]

TypeOK ==
  /\ view_mode \in {"all", "gpu"}
  /\ selected_row \in 0..MaxRow /\ offset \in 0..MaxRow
  /\ selected_pid \in Pids \cup {NoPid}
  /\ option \in Options
  /\ height \in Heights
  /\ sort_descending_order \in BOOLEAN /\ hide_processes_list \in BOOLEAN
  /\ fields \in FieldCounts /\ visible \in BOOLEAN
  /\ gpu \in Sorted
  /\ pc \in {"top", "draw", "key", "exited"}
  /\ lit \in Pids \cup {NoPid}
  /\ printed \in {<<>>} \cup ((0..Cardinality(Pids)) \X Nat)
  /\ chosen \in Pids \cup {NoPid}
  /\ indexed \in Readings

NewOption == [state |-> "hidden", previous_state |-> "sort_by", selected_row |-> 0,
              offset |-> 0, last_key_was_number |-> FALSE, input_number |-> 0]

Init ==
  /\ view_mode = "all" /\ selected_row = 0 /\ offset = 0 /\ selected_pid = NoPid
  /\ option = NewOption
  /\ height \in Heights
  /\ sort_descending_order \in BOOLEAN /\ hide_processes_list \in BOOLEAN
  /\ fields \in FieldCounts
  /\ visible = FALSE
  /\ gpu = [dir \in BOOLEAN |-> <<>>]
  /\ pc = "top"
  /\ lit = NoPid /\ printed = <<>> /\ chosen = NoPid
  /\ indexed = [row |-> 0, behind |-> "nothing", to |-> "nobody"]

-----------------------------------------------------------------------------
(* The main loop before it draws.                                           *)

\* Mutant: the processes are refreshed with the kill menu open.
Refresh_NotFrozen ==
  /\ pc = "top" /\ pc' = "draw"
  /\ gpu' \in Sorted
  /\ UNCHANGED <<process, options, visible, screen, chosen, indexed>>

\* The interval is over, and the processes are not frozen.
Refresh ==
  /\ pc = "top" /\ pc' = "draw"
  /\ option.state # "kill"
  /\ gpu' \in Sorted
  /\ UNCHANGED <<process, options, visible, screen, chosen, indexed>>

NoRefresh ==
  /\ pc = "top" /\ pc' = "draw"
  /\ UNCHANGED <<process, options, visible, gpu, screen, chosen, indexed>>

\* update_window_size_to_terminal_size: all windows are built anew and the
\* screen is cleared, whatever was selected, open or shown.
RebuildWindows ==
  /\ height' \in Heights
  /\ view_mode' = "all" /\ selected_row' = 0 /\ offset' = 0 /\ selected_pid' = NoPid
  /\ option' = NewOption
  /\ visible' = FALSE
  /\ lit' = NoPid /\ printed' = <<>> /\ chosen' = NoPid

\* SIGWINCH or SIGCONT has been received.
Resize ==
  /\ pc = "top" /\ RebuildWindows
  /\ UNCHANGED <<options, gpu, pc, indexed>>

-----------------------------------------------------------------------------
(* draw_gpu_info_ncurses.                                                   *)

\* Mutant: the window is moved only when the cursor leaves it at the top.
Scroll_Up(row, off, lines, num) ==
  IF num = 0 THEN [row |-> row, offset |-> off]
  ELSE LET r == IF row > num - 1 THEN num - 1 ELSE row
       IN [row |-> r, offset |-> IF off > r THEN r ELSE off]

\* update_selected_offset_with_window_size: the row is clamped, the window
\* follows it, and slides down while lines are left over below.
Scroll(row, off, lines, num) ==
  IF num = 0 THEN [row |-> row, offset |-> off]
  ELSE LET r == IF row > num - 1 THEN num - 1 ELSE row
           above == IF off > r THEN r ELSE off
           follow == IF above + lines > 0 /\ above + lines - 1 < r
                     THEN r + 1 - lines ELSE above
           slack == IF num > lines THEN num - lines ELSE 0
       IN [row |-> r,
           offset |-> IF lines > num - follow /\ follow > slack THEN slack ELSE follow]

\* draw_shortcuts, last in every drawing: the state of the menus has been drawn.
Drawn(opt) == [opt EXCEPT !.previous_state = opt.state]

\* The setup window covers the table.
DrawSetup ==
  /\ pc = "draw" /\ pc' = "key" /\ visible
  /\ printed' = <<>>
  /\ UNCHANGED <<process, options, visible, gpu, lit, chosen, indexed>>

\* There is no table to draw, and no menu, even one that is open.
DrawNothing ==
  /\ pc = "draw" /\ pc' = "key" /\ ~visible
  /\ hide_processes_list \/ height = 0
  /\ option' = Drawn(option)
  /\ printed' = <<>>
  /\ UNCHANGED <<view_mode, selected_row, offset, selected_pid, height>>
  /\ UNCHANGED <<options, visible, gpu, lit, chosen, indexed>>

\* What is left of the highlight once the windows are cleared for a new menu.
LitBefore == IF option.state # option.previous_state THEN NoPid ELSE lit

\* Mutant: the row of an open menu is not clamped.
DrawMenu_Unclamped == Drawn(option)

\* update_process_option_win: the row of an open menu is clamped to its last.
DrawMenu ==
  LET last == CASE option.state = "kill" -> NumSignals + 1
                [] option.state = "sort_by" -> fields + 1
                [] OTHER -> 0
      to == Scroll(option.selected_row, option.offset, height - 1, last)
  IN Drawn([option EXCEPT !.selected_row = to.row, !.offset = to.offset])

\* Mutant: the pid is taken before the row is clamped.
SelectRow_First(list) ==
  /\ selected_pid' = IF selected_row < Len(list) THEN list[selected_row + 1]
                     ELSE selected_pid
  /\ selected_row' = IF list = <<>> THEN 0
                     ELSE Scroll(selected_row, 0, Len(list), Len(list)).row

\* The selected row is clamped to the list, and names the process selected.
SelectRow(list) ==
  IF list = <<>> THEN selected_row' = 0 /\ selected_pid' = NoPid
  ELSE /\ selected_row' = IF selected_row >= Len(list) THEN Len(list) - 1 ELSE selected_row
       /\ selected_pid' = list[selected_row' + 1]

\* print_processes_on_screen and print_sys_processes_on_screen: below the
\* header there is a line less than the window has.
PrintTable(list) ==
  IF height < 2
  THEN /\ printed' = <<>> /\ lit' = LitBefore
       /\ offset' = offset
  ELSE LET lines == height - 1
           to == Scroll(selected_row', offset, lines, Len(list))
           shown == to.row < Len(list) /\ to.offset <= to.row /\ to.row < to.offset + lines
       IN /\ printed' = <<Len(list), lines>>
          /\ offset' = to.offset
          /\ lit' = IF shown THEN list[to.row + 1] ELSE NoPid

DrawTable(list) ==
  /\ option' = DrawMenu
  /\ SelectRow(list) /\ PrintTable(list)
  /\ UNCHANGED <<view_mode, height, options, visible, gpu, chosen, indexed>>

HasTable == ~visible /\ ~hide_processes_list /\ height > 0

DrawGpu ==
  /\ pc = "draw" /\ pc' = "key" /\ HasTable
  /\ view_mode = "gpu"
  /\ DrawTable(gpu[sort_descending_order])

\* draw_sys_processes: a frame of the pool.
DrawSystem ==
  /\ pc = "draw" /\ pc' = "key" /\ HasTable
  /\ view_mode = "all"
  /\ \E frame \in Lists : DrawTable(frame)

\* draw_sys_processes: no frame is posted, what was drawn last stays.
DrawNoFrame ==
  /\ pc = "draw" /\ pc' = "key" /\ HasTable
  /\ view_mode = "all"
  /\ option' = DrawMenu
  /\ printed' = <<>> /\ lit' = LitBefore
  /\ UNCHANGED <<view_mode, selected_row, offset, selected_pid, height>>
  /\ UNCHANGED <<options, visible, gpu, chosen, indexed>>

-----------------------------------------------------------------------------
(* The keys, after the drawing.                                             *)

Ready == pc = "key" /\ pc' = "top"
\* A key that interface_key handles while the setup window does not show.
Pressed == Ready /\ ~visible
MenuOpen == option.state # "hidden"
\* interface_key ends with this for every key but a digit.
NoNumber(opt) == [opt EXCEPT !.last_key_was_number = FALSE]
Table == <<view_mode, selected_row, offset, selected_pid, height>>

\* getch timed out, or a key that does nothing here.
NoKey ==
  /\ Ready
  /\ UNCHANGED <<process, options, visible, gpu, screen, chosen, indexed>>

\* F10 and ESC without a menu, q in any case.
Quit ==
  /\ pc = "key" /\ pc' = "exited"
  /\ UNCHANGED <<process, options, visible, gpu, screen, chosen, indexed>>

\* F5 and Ctrl+L, t and u (with no menu open) after a change of the plots'
\* height, and KEY_RESIZE, which the main loop handles whatever shows.
KeyRebuild ==
  /\ Ready /\ RebuildWindows
  /\ UNCHANGED <<options, gpu, indexed>>

\* F2.
KeySetup ==
  /\ Pressed /\ ~MenuOpen
  /\ visible' = TRUE
  /\ option' = NoNumber(option)
  /\ UNCHANGED <<Table, options, gpu, screen, chosen, indexed>>

\* Enter in the setup window: an option that the table depends on.
SetupOption ==
  /\ Ready /\ visible
  /\ \/ hide_processes_list' = ~hide_processes_list
        /\ UNCHANGED <<sort_descending_order, fields, gpu>>
     \/ sort_descending_order' = ~sort_descending_order
        /\ UNCHANGED <<hide_processes_list, fields, gpu>>
     \/ fields' \in FieldCounts /\ gpu' \in Sorted
        /\ UNCHANGED <<hide_processes_list, sort_descending_order>>
  /\ UNCHANGED <<process, visible, screen, chosen, indexed>>

\* F2 and ESC in the setup window.
SetupClose ==
  /\ Ready /\ visible /\ RebuildWindows
  /\ UNCHANGED <<options, gpu, indexed>>

\* F9.
KeyKillMenu ==
  /\ Pressed /\ ~MenuOpen /\ fields > 0
  /\ option' = [option EXCEPT !.state = "kill", !.selected_row = 0,
                              !.last_key_was_number = FALSE, !.input_number = 0]
  /\ chosen' = selected_pid
  /\ UNCHANGED <<Table, options, visible, gpu, screen, indexed>>

\* F6.
KeySortMenu ==
  /\ Pressed /\ ~MenuOpen /\ fields > 0
  /\ option' = [NoNumber(option) EXCEPT !.state = "sort_by", !.selected_row = 0]
  /\ UNCHANGED <<Table, options, visible, gpu, screen, chosen, indexed>>

\* a and g.
KeyView ==
  /\ Pressed /\ ~MenuOpen
  /\ view_mode' \in {"all", "gpu"}
  /\ option' = NoNumber(option)
  /\ UNCHANGED <<selected_row, offset, selected_pid, height>>
  /\ UNCHANGED <<options, visible, gpu, screen, chosen, indexed>>

\* k and j in the table: down is not bounded before the next drawing.
KeyTableRow ==
  /\ Pressed /\ ~MenuOpen
  /\ \/ selected_row > 0 /\ selected_row' = selected_row - 1
     \/ selected_row < MaxRow /\ selected_row' = selected_row + 1
  /\ option' = NoNumber(option)
  /\ UNCHANGED <<view_mode, offset, selected_pid, height>>
  /\ UNCHANGED <<options, visible, gpu, screen, chosen, indexed>>

\* k and j in a menu, bounded as in the table.
KeyMenuRow ==
  /\ Pressed /\ MenuOpen
  /\ \/ /\ option.selected_row > 0
        /\ option' = [NoNumber(option) EXCEPT !.selected_row = @ - 1]
     \/ /\ option.selected_row < MaxRow
        /\ option' = [NoNumber(option) EXCEPT !.selected_row = @ + 1]
  /\ UNCHANGED <<Table, options, visible, gpu, screen, chosen, indexed>>

\* + and -, also with a menu open.
KeyDirection ==
  /\ Pressed
  /\ sort_descending_order' \in BOOLEAN
  /\ chosen' = IF sort_descending_order' = sort_descending_order THEN chosen ELSE NoPid
  /\ option' = NoNumber(option)
  /\ UNCHANGED <<Table, hide_processes_list, fields, visible, gpu, screen, indexed>>

\* A digit is appended to the number if there is such a signal.
Number(opt, val) ==
  LET new == opt.input_number * Base + val
  IN IF opt.last_key_was_number /\ new <= NumSignals THEN new ELSE val

KeyDigit ==
  /\ Pressed
  /\ \E val \in 0..Base - 1 :
       option' = IF option.state # "kill"
                 THEN [option EXCEPT !.last_key_was_number = TRUE]
                 ELSE LET n == Number(option, val)
                      IN [option EXCEPT !.last_key_was_number = TRUE,
                                        !.input_number = n, !.selected_row = n]
  /\ UNCHANGED <<Table, options, visible, gpu, screen, chosen, indexed>>

\* Enter in the kill menu: row 0 is "Cancel".  signalValues is indexed before
\* it is known whether there is a process; outside the array the program may
\* end there, and else what was read goes unused if no process is selected.
KeyKill ==
  /\ pc = "key" /\ ~visible /\ option.state = "kill"
  /\ indexed' = IF option.selected_row = 0 THEN indexed
                ELSE [row |-> option.selected_row,
                      behind |-> IF HasTable THEN "table" ELSE "nothing",
                      to |-> IF selected_pid # NoPid THEN "process" ELSE "nobody"]
  /\ pc' \in {"top"} \cup IF option.selected_row > NumSignals THEN {"exited"} ELSE {}
  /\ option' = [NoNumber(option) EXCEPT !.state = "hidden"]
  /\ chosen' = NoPid
  /\ UNCHANGED <<Table, options, visible, gpu, screen>>

\* Enter in the sort menu: another order of the same rows, unless "Cancel".
KeySort ==
  /\ Pressed /\ option.state = "sort_by"
  /\ gpu' \in IF option.selected_row = 0 THEN {gpu}
              ELSE {o \in Sorted : Range(o[TRUE]) = Range(gpu[TRUE])}
  /\ option' = [NoNumber(option) EXCEPT !.state = "hidden"]
  /\ UNCHANGED <<Table, options, visible, screen, chosen, indexed>>

\* ESC with a menu open.
KeyCloseMenu ==
  /\ Pressed /\ MenuOpen
  /\ option' = [NoNumber(option) EXCEPT !.state = "hidden"]
  /\ chosen' = NoPid
  /\ UNCHANGED <<Table, options, visible, gpu, screen, indexed>>

\* A key without effect here: F6 and F9 with no columns, a key of the table
\* with a menu open, Enter in the table, F12.
KeyWithoutEffect ==
  /\ Pressed
  /\ option' = NoNumber(option)
  /\ UNCHANGED <<Table, options, visible, gpu, screen, chosen, indexed>>

Main == Refresh \/ NoRefresh \/ Resize
Draw == DrawSetup \/ DrawNothing \/ DrawGpu \/ DrawSystem \/ DrawNoFrame
Key ==
  \/ NoKey \/ Quit \/ KeyRebuild \/ KeySetup \/ SetupOption \/ SetupClose
  \/ KeyKillMenu \/ KeySortMenu \/ KeyView \/ KeyTableRow \/ KeyMenuRow
  \/ KeyDirection \/ KeyDigit \/ KeyKill \/ KeySort \/ KeyCloseMenu
  \/ KeyWithoutEffect
Next == Main \/ Draw \/ Key

Spec == Init /\ [][Next]_vars

-----------------------------------------------------------------------------
\* signalValues (0..nvtop_num_signals) is indexed by the row of the menu, which
\* arrows move without a bound and digits set: wherever there is a table for the
\* menu to be drawn over, each drawing clamps the row before the next key, and the
\* row read is in the array.  With no table, because the list is hidden or the
\* terminal too small, nothing clamps it and option_do_kill may read beyond the
\* array; then no process is selected and no signal is sent.
InTable(r) == r.row > NumSignals => r.behind = "nothing" /\ r.to = "nobody"
SignalInTable == InTable(indexed)

\* When a key is read, the row that is highlighted on the screen is that of the
\* process Enter in the kill menu would send the signal to, also when the pool
\* had no frame in this cycle and the table shown is an old one.
HighlightIsTarget == pc = "key" => lit \in {NoPid, selected_pid}

\* A table of some rows that has been printed shows its selected row, and no line is left
\* empty while there are rows above the window (update_selected_offset_with_
\* window_size, whose two counters are unsigned).
CursorShown ==
  pc = "key" /\ printed # <<>> /\ printed[1] > 0
    => lit # NoPid /\ (offset > 0 => offset + printed[2] <= printed[1])

\* While the kill menu is open in the GPU view, its target is the process it was
\* opened for: the main loop freezes the rows for this, unless the user turns the
\* order round (interface_freeze_processes).
GpuTargetKept ==
  option.state = "kill" /\ view_mode = "gpu" /\ chosen # NoPid => selected_pid = chosen

\* The same for the full-system view, where "Enter sends it to the selected
\* PID. Works in both views." (nvhtop.md): another process never takes the place
\* of the one the menu was opened for.
SystemTargetKept ==
  option.state = "kill" /\ view_mode = "all" /\ chosen # NoPid
    => selected_pid \in {chosen, NoPid}
=============================================================================
