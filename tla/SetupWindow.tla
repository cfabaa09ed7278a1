---------------------------- MODULE SetupWindow -----------------------------
(* The setup window (interface_setup_win.c): five sections, the options of  *)
(* the selected one, and for some options a second list of values.  Arrows  *)
(* move the cursor and know nothing of the lengths of these lists; drawing  *)
(* clamps it.  Enter reads the cursor again.  The rows of the chart section *)
(* come after as many color rows as metrics are drawn by some device, so    *)
(* that Enter moves the very rows it acts on.                               *)
EXTENDS ChartOptions, ProcessOptions

CONSTANT MaxGpus   \* all devices; from one to all of them are monitored

ASSUME SetupAssumption == MaxGpus \in Nat \ {0} /\ Metrics # {}

VARIABLES
  drawing,                   \* to_draw of each monitored device
  process_fields_displayed, sort_processes_by,
  open,                      \* setup_win.visible
  cursor,                    \* section, level (indentation_level), and
                             \* options_selected[0] and [1] as row and value
  drawn                      \* the screen was drawn since the last key

setupVars == <<drawing, process_fields_displayed, sort_processes_by, open, cursor, drawn>>
optionVars == <<drawing, process_fields_displayed, sort_processes_by>>

\* plot_count_draw_info of what is drawn by any device.
ColorRows == Cardinality(UNION {drawing[i] : i \in DOMAIN drawing})
AllGpus == 1 + ColorRows
FirstGpu == AllGpus + 1

-----------------------------------------------------------------------------
(* The cursor.                                                              *)

Sections == <<"general", "header", "chart", "processes", "devices">>
SectionOf(c) == Sections[c.section]

Home == [section |-> 1, level |-> 0, row |-> 0, value |-> 0]

SortRow == 3
FieldsRow == 4

AtMost(n, limit) == IF n > limit THEN limit ELSE n

RowAtMost(c, limit) == [c EXCEPT !.row = AtMost(@, limit)]
LevelAtMost(c, limit) == [c EXCEPT !.level = AtMost(@, limit)]
ValueAtMost(c, limit) == [c EXCEPT !.value = AtMost(@, limit)]

\* Lines of the list of options of a section.
Rows(section) ==
  CASE section \in {"general", "header"} -> 3
    [] section = "chart" -> FirstGpu + Len(drawing)
    [] section = "processes" -> 5
    [] section = "devices" -> MaxGpus

\* Lines of the second list, of the selected option.
Values(c) ==
  CASE SectionOf(c) = "chart" /\ c.row >= AllGpus -> Cardinality(Metrics)
    [] SectionOf(c) = "processes" /\ c.row = SortRow -> Cardinality(process_fields_displayed)
    [] SectionOf(c) = "processes" /\ c.row = FieldsRow -> FieldCount
    [] OTHER -> 0

\* draw_setup_window: drawing a section clamps the cursor to its lists.
DrawnGeneral(c) ==
  LET inner == LevelAtMost(c, 1) IN IF inner.level = 1 THEN RowAtMost(inner, 2) ELSE inner

DrawnHeader(c) == RowAtMost(LevelAtMost(c, 1), 2)

\* Mutant: the row is not clamped when devices and metrics have gone.
DrawnChart_Unclamped(c) ==
  IF c.row < AllGpus THEN LevelAtMost(c, 1) ELSE ValueAtMost(c, Cardinality(Metrics) - 1)

DrawnChart(c) ==
  LET inner == RowAtMost(c, FirstGpu + Len(drawing) - 1) IN
  IF inner.row < AllGpus THEN LevelAtMost(inner, 1)
  ELSE ValueAtMost(inner, Cardinality(Metrics) - 1)

\* There may be no field to sort by.
DrawnProcesses(c) ==
  LET inner == RowAtMost(c, FieldsRow) IN
  CASE inner.row = FieldsRow -> ValueAtMost(inner, FieldCount - 1)
    [] inner.row = SortRow /\ process_fields_displayed # {} ->
         ValueAtMost(inner, Cardinality(process_fields_displayed) - 1)
    [] OTHER -> LevelAtMost(inner, 1)

DrawnDevices(c) ==
  LET inner == LevelAtMost(c, 1) IN IF inner.level = 1 THEN RowAtMost(inner, MaxGpus - 1) ELSE inner

Drawn(c) ==
  CASE SectionOf(c) = "general" -> DrawnGeneral(c) [] SectionOf(c) = "header" -> DrawnHeader(c)
    [] SectionOf(c) = "chart" -> DrawnChart(c) [] SectionOf(c) = "processes" -> DrawnProcesses(c)
    [] SectionOf(c) = "devices" -> DrawnDevices(c)

Inward(c) == [c EXCEPT !.level = AtMost(@ + 1, 2)]
Outward(c) == [c EXCEPT !.level = IF @ = 0 THEN 0 ELSE @ - 1]

AtSection(c, section) == [c EXCEPT !.section = section, !.row = 0, !.value = 0]

Upward(c) ==
  CASE c.level = 0 -> IF c.section = 1 THEN c ELSE AtSection(c, c.section - 1)
    [] c.level = 1 -> [c EXCEPT !.value = 0, !.row = IF @ = 0 THEN 0 ELSE @ - 1]
    [] c.level = 2 -> [c EXCEPT !.value = IF @ = 0 THEN 0 ELSE @ - 1]

Downward(c) ==
  CASE c.level = 0 -> IF c.section = Len(Sections) THEN c ELSE AtSection(c, c.section + 1)
    [] c.level = 1 -> [c EXCEPT !.value = 0, !.row = @ + 1]
    [] c.level = 2 -> [c EXCEPT !.value = @ + 1]

-----------------------------------------------------------------------------
(* The main loop and its keys: each comes after a drawing.                  *)

SetupInit ==
  /\ \E gpus \in 1..MaxGpus : drawing \in [1..gpus -> ToDraw]
  /\ process_fields_displayed \in SUBSET Fields
  /\ sort_processes_by = DefaultSort(process_fields_displayed)
  /\ open = FALSE /\ cursor = Home /\ drawn = FALSE

\* A resize closes the window; one that is closed may find other devices when
\* the interface is built again.
SetupTop ==
  /\ ~drawn
  /\ open' \in {open, FALSE}
  /\ \/ drawing' = drawing
     \/ ~open' /\ \E gpus \in 1..MaxGpus : drawing' \in [1..gpus -> ToDraw]
  /\ drawn' = TRUE
  /\ cursor' = IF open' THEN Drawn(cursor) ELSE Home
  /\ UNCHANGED <<process_fields_displayed, sort_processes_by>>

\* show_setup_window, hide_setup_window; nothing reads the cursor of a window
\* that is closed, so that it can as well go home at once.
ShowOrHide ==
  /\ drawn /\ drawn' = FALSE
  /\ open' = ~open /\ cursor' = Home
  /\ UNCHANGED optionVars

\* A key that the open window takes.
SetupKey == drawn /\ open /\ drawn' = FALSE /\ open' = open

ArrowKey ==
  /\ SetupKey
  /\ cursor' \in {Inward(cursor), Outward(cursor), Upward(cursor), Downward(cursor)}
  /\ UNCHANGED optionVars

At(section, level) == SectionOf(cursor) = section /\ cursor.level = level

\* Enter goes to the right where there is nothing to toggle.
EnterInward ==
  /\ SetupKey
  /\ \/ cursor.level = 0
     \/ At("chart", 1) /\ cursor.row >= AllGpus
     \/ At("processes", 1) /\ cursor.row = SortRow
  /\ cursor' = Inward(cursor)
  /\ UNCHANGED optionVars

\* The k-th of a set of naturals, from 0.
Kth(S, k) == CHOOSE m \in S : Cardinality({n \in S : n < m}) = k

EnterAllGpus ==
  /\ SetupKey /\ At("chart", 2) /\ cursor.row = AllGpus
  /\ LET m == Kth(Metrics, cursor.value)
         all == \A i \in DOMAIN drawing : m \in drawing[i]
     IN  drawing' = [i \in DOMAIN drawing |-> ToggledForAll(m, drawing[i], all)]
  /\ cursor' = [cursor EXCEPT !.row = AllGpus']
  /\ UNCHANGED <<process_fields_displayed, sort_processes_by>>

\* Mutant: the cursor stays on its line.
EnterGpu_Unanchored ==
  /\ SetupKey /\ At("chart", 2) /\ cursor.row > AllGpus
  /\ LET gpu == cursor.row - FirstGpu + 1 IN
     drawing' = [drawing EXCEPT ![gpu] = Toggled(Kth(Metrics, cursor.value), @)]
  /\ UNCHANGED <<cursor, process_fields_displayed, sort_processes_by>>

\* "Re-anchor the selection after the color rows count may have changed."
EnterGpu ==
  /\ SetupKey /\ At("chart", 2) /\ cursor.row > AllGpus
  /\ LET gpu == cursor.row - FirstGpu + 1 IN
     /\ drawing' = [drawing EXCEPT ![gpu] = Toggled(Kth(Metrics, cursor.value), @)]
     /\ cursor' = [cursor EXCEPT !.row = FirstGpu' + gpu - 1]
  /\ UNCHANGED <<process_fields_displayed, sort_processes_by>>

EnterSort ==
  /\ SetupKey /\ At("processes", 2) /\ cursor.row = SortRow
  /\ sort_processes_by' = Kth(process_fields_displayed, cursor.value)
  /\ UNCHANGED <<drawing, process_fields_displayed, cursor>>

\* A field is shown or not; what the list is sorted by has to be shown.
EnterField ==
  /\ SetupKey /\ At("processes", 2) /\ cursor.row = FieldsRow
  /\ LET f == cursor.value + 1
         shown == IF f \in process_fields_displayed THEN process_fields_displayed \ {f}
                  ELSE process_fields_displayed \cup {f}
     IN  /\ process_fields_displayed' = shown
         /\ sort_processes_by' = IF sort_processes_by \in shown THEN sort_processes_by
                                 ELSE DefaultSort(shown)
  /\ UNCHANGED <<drawing, cursor>>

\* Switches and numbers, the choice of the devices for the next start of the
\* interface, saving, any key while the window is closed.
OtherSetupKey ==
  /\ drawn /\ drawn' = FALSE
  /\ UNCHANGED <<optionVars, open, cursor>>

SetupNext ==
  \/ SetupTop \/ ShowOrHide \/ ArrowKey \/ EnterInward \/ EnterAllGpus \/ EnterGpu
  \/ EnterSort \/ EnterField \/ OtherSetupKey

SetupSpec == SetupInit /\ [][SetupNext]_setupVars

-----------------------------------------------------------------------------
(* Properties.                                                              *)

\* When a key comes the cursor is on a line that there is, in the list of
\* options and, one level further, in the list of values: what Enter indexes
\* with it are devices that are monitored, metrics and fields that are shown,
\* and the table is sorted by one of these if any of those it may choose is.
CursorInRange ==
  /\ drawn /\ open =>
       /\ cursor.row < Rows(SectionOf(cursor))
       /\ cursor.level = 2 => cursor.value < Values(cursor)
  /\ SortIsShown(sort_processes_by, process_fields_displayed)

\* What the line under the cursor is about, however many lines come before it.
Meaning(c) ==
  IF SectionOf(c) = "chart" /\ c.row >= AllGpus
  THEN [c EXCEPT !.row = <<"from all gpus", c.row - AllGpus>>]
  ELSE c

\* The cursor stays on the same device and the same value while Enter changes
\* the lines above it.
CursorStays ==
  [][open /\ open' /\ optionVars' # optionVars => Meaning(Drawn(cursor))' = Meaning(cursor)]_setupVars
=============================================================================
