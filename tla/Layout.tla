------------------------------- MODULE Layout -------------------------------
(* The windows of the screen (interface_layout_selection.c, interface.c):   *)
(* the headers of the devices at the top, the plots below, then the block   *)
(* of the CPUs and the table of processes.  They are laid out again when    *)
(* the terminal is resized, the height of the plots changed, or the setup   *)
(* window closed, in which the user chooses what each device plots.         *)
(*                                                                          *)
(* Devices, plots and stacks (rows of plots) are numbered from 1.  What a   *)
(* device draws is abstracted to the number of its metrics.                 *)
EXTENDS Integers, Sequences, FiniteSets, FiniteSetsExt, SequencesExt

CONSTANTS
  devices_count, \* monitored devices
  Terminals,     \* sizes of the terminal, <<rows, cols>>, without the shortcut line
  HeaderRows, HeaderCols,
  StatsRows,     \* what the CPU block asks for
  LinesPerPlot,  \* MAX_LINES_PER_PLOT
  MaxModifier    \* bound of plot_height_modifier

ASSUME LayoutAssumption ==
  /\ {devices_count, HeaderRows, HeaderCols, LinesPerPlot} \subseteq Nat \ {0}
  /\ StatsRows \in Nat /\ Terminals \subseteq Nat \X Nat

VARIABLES
  terminal,
  draws,        \* metrics drawn for each device
  fields,       \* some field of the processes is displayed
  hide,         \* hide_processes_list
  modifier,     \* plot_height_modifier
  setupVisible,
  windows       \* as last laid out

layoutVars == <<terminal, draws, fields, hide, modifier, setupVisible, windows>>

Monitored == 1..devices_count
BoxCols == 5
MinPlotRows == 7
MinPlotCols(metrics) == BoxCols + 10 * metrics
Most(a, b) == IF a > b THEN a ELSE b
Least(a, b) == IF a < b THEN a ELSE b

\* What a loop adds up.
Add(a, b) == a + b
Total(s) == FoldLeft(Add, 0, s)

-----------------------------------------------------------------------------
(* Plots and stacks: preliminary_plot_positioning.                          *)

\* The plots that draw, in order: the k-th has k - 1 of them before it.
Drawn(metrics) == {p \in Monitored : metrics[p] > 0}
Preceding(p, metrics) == Cardinality({q \in Drawn(metrics) : q < p})
Nth(k, metrics) == CHOOSE p \in Drawn(metrics) : Preceding(p, metrics) = k - 1
Packed(metrics) == [k \in 1..Cardinality(Drawn(metrics)) |-> metrics[Nth(k, metrics)]]

\* Plots of one attempt are put side by side, then in a new stack while there
\* are rows for one; "wide" and "full" say why a plot found no place.
Place(p, metrics) ==
  LET width == MinPlotCols(metrics) IN
  IF p.verdict # "placed" THEN p
  ELSE IF p.cols >= width + p.used
  THEN [p EXCEPT !.used = @ + width, !.stackOf = Append(@, p.stacks)]
  ELSE IF p.used > 0 /\ p.left < MinPlotRows THEN [p EXCEPT !.verdict = "full"]
  ELSE IF p.cols < width THEN [p EXCEPT !.verdict = "wide"]
  ELSE [p EXCEPT !.left = @ - MinPlotRows, !.stacks = @ + 1, !.used = width,
                 !.stackOf = Append(@, p.stacks + 1)]

Attempt(plots, rows, cols) ==
  FoldLeft(Place,
           [stacks |-> 1, used |-> 0, left |-> rows - MinPlotRows, cols |-> cols,
            stackOf |-> <<>>, verdict |-> "placed"],
           plots)

\* Plots that may be merged: no plot between them, not too many metrics.
Neighbours(metrics) ==
  {pair \in Monitored \X Monitored :
     LET i == pair[1]  j == pair[2] IN
     /\ i < j /\ metrics[i] > 0 /\ metrics[j] > 0
     /\ \A k \in (i + 1)..(j - 1) : metrics[k] = 0
     /\ metrics[i] + metrics[j] <= LinesPerPlot}

\* who_to_merge: the fewest metrics, of these the last.
WhoToMerge(metrics) ==
  CHOOSE pair \in Neighbours(metrics) :
    \A other \in Neighbours(metrics) \ {pair} :
      LET mine == metrics[pair[1]] + metrics[pair[2]]
          theirs == metrics[other[1]] + metrics[other[2]]
      IN  mine < theirs \/ (mine = theirs /\ pair[2] > other[2])

Merge(c, i, j) ==
  [c EXCEPT !.metrics = [c.metrics EXCEPT ![i] = c.metrics[i] + c.metrics[j], ![j] = 0],
            !.plotOf = [d \in Monitored |->
                          IF c.plotOf[d] = c.plotOf[j] THEN c.plotOf[i] ELSE c.plotOf[d]]]

\* One round of the search: done, given up, or two plots merged for the next.
Search(c, round) ==
  LET attempt == Attempt(Packed(c.metrics), c.rows, c.cols)
      pair == WhoToMerge(c.metrics)
  IN
  IF c.done THEN c
  ELSE IF attempt.verdict = "placed"
  THEN [c EXCEPT !.done = TRUE, !.stacks = attempt.stacks, !.stackOf = attempt.stackOf]
  ELSE IF attempt.verdict = "full" /\ Neighbours(c.metrics) # {}
  THEN Merge(c, pair[1], pair[2])
  ELSE [c EXCEPT !.done = TRUE]

\* Plots that draw move over those that do not; a device that draws nothing
\* keeps its own number as its plot.
Compact(c) ==
  [c EXCEPT !.metrics = Packed(@),
            !.plotOf = [d \in Monitored |->
                          IF c.metrics[c.plotOf[d]] = 0 THEN c.plotOf[d]
                          ELSE Preceding(c.plotOf[d], c.metrics) + 1]]

Positioned(rows, cols, metrics) ==
  LET start == [metrics |-> metrics, plotOf |-> [d \in Monitored |-> d], rows |-> rows,
                cols |-> cols, stacks |-> 0, stackOf |-> <<>>,
                done |-> rows < MinPlotRows \/ \A d \in Monitored : metrics[d] = 0]
      found == FoldLeft(Search, start, [i \in Monitored |-> i])
  IN  IF found.stacks = 0 THEN found ELSE Compact(found)

-----------------------------------------------------------------------------
(* balance_info_on_stacks_preserving_plot_order.                            *)

\* What the plots of a stack have together.
InStack(stack, stackOf, has) ==
  Total([p \in DOMAIN stackOf |-> IF stackOf[p] = stack THEN has[p] ELSE 0])

\* cols_used_by_stack.
UsedBy(stack, stackOf, metrics) ==
  InStack(stack, stackOf, [p \in DOMAIN stackOf |-> MinPlotCols(metrics[p])])

\* size_differences_between_stacks.
Imbalance(stacks, stackOf, metrics) ==
  LET used == [s \in 1..stacks |-> UsedBy(s, stackOf, metrics)] IN
  FoldSet(LAMBDA pair, sum : LET difference == used[pair[1]] - used[pair[2]]
                             IN  sum + Most(difference, -difference), 0,
          {pair \in (1..stacks) \X (1..stacks) : pair[1] < pair[2]})

\* move_plot_to_stack: plots that fit into the next stack and leave the stacks
\* no more different than they are.
Movable(b) ==
  LET stacks == Least(b.stacks, Len(b.stackOf)) IN
  {p \in DOMAIN b.stackOf :
     LET next == b.stackOf[p] + 1 IN
     /\ next <= stacks
     /\ UsedBy(next, b.stackOf, b.metrics) + MinPlotCols(b.metrics[p]) <= b.cols
     /\ Imbalance(stacks, [b.stackOf EXCEPT ![p] = next], b.metrics)
          <= Imbalance(stacks, b.stackOf, b.metrics)}

\* The last of them is moved, and the search starts again.
Move(b, round) ==
  LET movable == Movable(b)
      last == CHOOSE p \in movable : \A q \in movable : q <= p
  IN  IF movable = {} THEN b
      ELSE [b EXCEPT !.stackOf = [b.stackOf EXCEPT ![last] = b.stackOf[last] + 1]]

Balanced(stackOf, stacks, cols, metrics) ==
  FoldLeft(Move, [stackOf |-> stackOf, stacks |-> stacks, cols |-> cols, metrics |-> metrics],
           [i \in 1..(Len(stackOf) * stacks) |-> i]).stackOf

-----------------------------------------------------------------------------
(* compute_sizes_from_layout.                                               *)

Window(x, y, width, height) == [x |-> x, y |-> y, width |-> width, height |-> height]

\* Headers in one row of the screen, and rows of headers.
PerRow(cols) ==
  LET fit == Most(1, cols \div HeaderCols)
      stacks == (devices_count + fit - 1) \div fit
  IN  [perRow |-> IF devices_count % stacks = 0 THEN devices_count \div stacks ELSE fit, stacks |-> stacks]

\* min_rows_taken_by_process.
ProcessRows(rows) == 1 + Most(6, Least(rows \div 3, devices_count * 3))

\* Rows of the headers and of the processes; the table shrinks, then goes.
Budget(rows, stacks, shown, hidden) ==
  LET header == stacks * HeaderRows
      process == IF shown THEN ProcessRows(rows) ELSE 0
      both == CASE rows >= header + process -> <<header, process>>
                [] rows < header + process /\ rows >= header + 2 /\ shown ->
                     <<header, rows - header>>
                [] OTHER -> <<rows, 0>>
  IN  [header |-> both[1], process |-> IF hidden THEN 0 ELSE both[2]]

\* Mutant: the block takes what it asks for.
StatsTaken_All(forPlots, process, shown, hidden) ==
  IF shown /\ ~hidden THEN StatsRows ELSE 0

\* The CPU block takes rows of the plots, not of the table.
StatsTaken(forPlots, process, shown, hidden) ==
  IF shown /\ ~hidden THEN Least(StatsRows, Most(forPlots - process, 0)) ELSE 0

\* More stacks while each still has 11 rows.
MoreStacks(stacks, plots, rows) ==
  IF stacks = 0 THEN 0
  ELSE CHOOSE s \in stacks..Most(stacks, plots) :
         LET Enough(k) == rows \div k >= 11 /\ k * MinPlotRows <= rows IN
         /\ \A k \in (stacks + 1)..s : Enough(k)
         /\ s < plots => ~Enough(s + 1)

\* Columns that the headers leave are spread; an unsigned difference below
\* zero counts as a large one.
Headers(cols, perRow, between) ==
  LET left == cols - perRow * HeaderCols
      gap == IF left < 0 \/ left > perRow THEN 1 ELSE 0
      margin == IF left # 0 THEN 1 ELSE 0
  IN  [d \in Monitored |->
         Window(margin + ((d - 1) % perRow) * (HeaderCols + gap),
                ((d - 1) \div perRow) * (HeaderRows + between), HeaderCols, HeaderRows)]

\* A plot's columns are a share of its stack's, as many as its metrics, cut to
\* a multiple of them.
PlotWindow(p, stackOf, metrics, cols, y, height) ==
  LET members == InStack(stackOf[p], stackOf, [q \in DOMAIN stackOf |-> 1])
      forLines == cols - members * BoxCols
      lines == InStack(stackOf[p], stackOf, metrics)
      share(q) == BoxCols + (forLines * metrics[q]) \div lines
      x == Total([q \in 1..(p - 1) |-> IF stackOf[q] = stackOf[p] THEN share(q) ELSE 0])
  IN  Window(x, y, share(p) - ((share(p) - BoxCols) % metrics[p]), height)

\* Windows are numbered stack by stack: the k-th, which is given to plot k, is
\* made for the plot with k - 1 before it.
Before(p, stackOf) ==
  {q \in DOMAIN stackOf : stackOf[q] < stackOf[p] \/ (stackOf[q] = stackOf[p] /\ q < p)}

PlotWindows(stackOf, metrics, cols, top, height) ==
  [k \in DOMAIN stackOf |->
     LET p == CHOOSE p \in DOMAIN stackOf : Cardinality(Before(p, stackOf)) = k - 1
     IN  PlotWindow(p, stackOf, metrics, cols, top + (stackOf[p] - 1) * height, height)]

\* What the headers, the table and the block take of the rows.
Shares(rows, line, budget, shown, hidden, lower) ==
  LET free == Most(0, rows - budget.header - budget.process - lower) IN
  [line |-> line, header |-> budget.header, free |-> free,
   stats |-> StatsTaken(free, budget.process, shown, hidden)]

\* A line between the rows of headers, if the plots can do without, and the
\* rows that are left for plots.
Spaced(shares, first) ==
  LET lines == shares.line.stacks - 1
      rows == shares.free - shares.stats
      between == IF rows - first.stacks * MinPlotRows >= lines THEN 1 ELSE 0
  IN  [between |-> between, header |-> shares.header + between * lines,
       forPlots |-> rows - between * lines]

\* The stacks that the plots end in, and the height of each.
Stacked(space, first, cols, hidden, stacks) ==
  LET each == space.forPlots \div Most(1, stacks) IN
  [stackOf |-> Balanced(first.stackOf, stacks, cols, first.metrics),
   height |-> IF ~hidden THEN Least(each, 12) ELSE each,
   rows |-> stacks * (IF ~hidden THEN Least(each, 12) ELSE each)]

WindowsOf(size, shares, first, space, stack) ==
  LET bottom == space.header + stack.rows  cols == size[2] IN
  [device |-> Headers(cols, shares.line.perRow, space.between),
   plot |-> PlotWindows(stack.stackOf, first.metrics, cols, space.header, stack.height),
   plotOf |-> first.plotOf,
   stackOf |-> stack.stackOf,
   stats |-> Window(0, bottom, cols, shares.stats),
   process |-> Window(0, bottom + shares.stats, cols, size[1] - bottom - shares.stats),
   setup |-> Window(0, space.header, cols, size[1] - space.header)]

LaidOut(size, metrics, shown, hidden, lower) ==
  LET rows == size[1]  cols == size[2]
      line == PerRow(cols)
      shares == Shares(rows, line, Budget(rows, line.stacks, shown, hidden), shown, hidden, lower)
      first == Positioned(shares.free - shares.stats, cols, metrics)
      space == Spaced(shares, first)
  IN  WindowsOf(size, shares, first, space,
                Stacked(space, first, cols, hidden,
                        MoreStacks(first.stacks, Len(first.stackOf), space.forPlots)))

-----------------------------------------------------------------------------
(* The terminal and the keys.                                               *)

\* initialize_all_windows.
LayOut == windows' = LaidOut(terminal', draws', fields', hide', modifier')

LayoutInit ==
  /\ terminal \in Terminals /\ draws \in [Monitored -> 0..LinesPerPlot]
  /\ fields \in BOOLEAN /\ hide \in BOOLEAN /\ modifier = 0 /\ setupVisible = FALSE
  /\ windows = LaidOut(terminal, draws, fields, hide, modifier)

\* update_window_size_to_terminal_size closes the setup window.
Resize ==
  /\ terminal' \in Terminals /\ setupVisible' = FALSE
  /\ UNCHANGED <<draws, fields, hide, modifier>>
  /\ LayOut

\* 't' and 'u'.
PlotHeight ==
  /\ ~setupVisible
  /\ \/ modifier + 3 <= MaxModifier /\ modifier' = modifier + 3
     \/ modifier' = Most(modifier - 3, 0)
  /\ UNCHANGED <<terminal, draws, fields, hide, setupVisible>>
  /\ LayOut

OpenSetup ==
  /\ ~setupVisible /\ setupVisible' = TRUE
  /\ UNCHANGED <<terminal, draws, fields, hide, modifier, windows>>

\* Enter on a metric of a device, which draws it or does not.
ToggleMetric(d) ==
  /\ setupVisible
  /\ \/ draws[d] > 0 /\ draws' = [draws EXCEPT ![d] = @ - 1]
     \/ draws[d] < LinesPerPlot /\ draws' = [draws EXCEPT ![d] = @ + 1]
  /\ UNCHANGED <<terminal, fields, hide, modifier, setupVisible, windows>>

\* Enter on a metric of all devices, some of which draw it.
ToggleMetricOfAll ==
  /\ setupVisible
  /\ \E having \in SUBSET {d \in Monitored : draws[d] > 0} :
       draws' = [d \in Monitored |->
                   CASE having = Monitored -> draws[d] - 1
                     [] having # Monitored /\ d \notin having -> Least(draws[d] + 1, LinesPerPlot)
                     [] OTHER -> draws[d]]
  /\ UNCHANGED <<terminal, fields, hide, modifier, setupVisible, windows>>

ToggleProcessOptions ==
  /\ setupVisible
  /\ \/ fields' = ~fields /\ hide' = hide
     \/ hide' = ~hide /\ fields' = fields
  /\ UNCHANGED <<terminal, draws, modifier, setupVisible, windows>>

\* Mutant: the windows stay as they are.
CloseSetup_KeepsWindows ==
  /\ setupVisible /\ setupVisible' = FALSE
  /\ UNCHANGED <<terminal, draws, fields, hide, modifier, windows>>

CloseSetup ==
  /\ setupVisible /\ setupVisible' = FALSE
  /\ UNCHANGED <<terminal, draws, fields, hide, modifier>>
  /\ LayOut

LayoutNext ==
  \/ Resize \/ PlotHeight \/ OpenSetup \/ CloseSetup \/ ToggleMetricOfAll \/ ToggleProcessOptions
  \/ \E d \in Monitored : ToggleMetric(d)

LayoutSpec == LayoutInit /\ [][LayoutNext]_layoutVars

-----------------------------------------------------------------------------
(* Properties.                                                              *)

Vacant(w) == w.width = 0 \/ w.height = 0
Inside(w) == /\ w.x >= 0 /\ w.x + w.width <= terminal[2]
             /\ w.y >= 0 /\ w.y + w.height <= terminal[1]
Beneath(w, above) == w.y >= above.y + above.height
Apart(v, w) == \/ v.x + v.width <= w.x \/ w.x + w.width <= v.x
               \/ Beneath(v, w) \/ Beneath(w, v)

\* check_layout of the tests, for every choice of metrics and of plot heights,
\* with the CPU block: no window is empty that must not be, no size falls below
\* zero, plots, block and table lie on the screen one beneath the other and
\* beneath the headers, which alone may be larger than the screen.
WindowsFit ==
  LET plots == windows.plot IN
  /\ \A d, e \in Monitored : d # e => Apart(windows.device[d], windows.device[e])
  /\ \A k \in DOMAIN plots :
       /\ ~Vacant(plots[k]) /\ Inside(plots[k])
       /\ \A d \in Monitored : Beneath(plots[k], windows.device[d])
       /\ \A l \in DOMAIN plots : l # k => Apart(plots[k], plots[l])
       /\ Beneath(windows.stats, plots[k])
  /\ Beneath(windows.process, windows.stats)
  /\ \A w \in {windows.stats, windows.process, windows.setup} :
       /\ w.height >= 0 /\ Inside(w)
       /\ ~Vacant(w) => \A d \in Monitored : Beneath(w, windows.device[d])

DevicesOf(k) == {d \in Monitored : windows.plotOf[d] = k}
LinesOf(k) == Total([d \in Monitored |-> IF windows.plotOf[d] = k THEN draws[d] ELSE 0])

\* assert(size_data_buff % total_to_draw == 0) (interface.c): a plot is as wide
\* as a whole number of samples of the lines that are drawn in it, or
\* nvtop_line_plot reads past its data.
PlotDataDivides ==
  ~setupVisible => \A k \in DOMAIN windows.plot : (windows.plot[k].width - BoxCols) % LinesOf(k) = 0

\* Plots that are drawn agree with the metrics chosen: those of every device are
\* in one plot, in the order of the devices, and none has more lines or more
\* devices than it has room for, if every device draws something; its data
\* divide, if no plot was moved past the next.
EveryMetricPlotted ==
  ~setupVisible =>
    LET plots == DOMAIN windows.plot IN
    /\ \A k \in plots : LinesOf(k) \in 1..LinesPerPlot
    /\ (\A d \in Monitored : draws[d] > 0) =>
         \A k \in plots : Cardinality(DevicesOf(k)) <= LinesPerPlot
    /\ plots # {} => \A d, e \in {i \in Monitored : draws[i] > 0} :
         windows.plotOf[d] \in plots /\ (d < e => windows.plotOf[d] <= windows.plotOf[e])
    /\ (\A k, l \in plots : k < l => windows.stackOf[k] <= windows.stackOf[l]) => PlotDataDivides
=============================================================================
