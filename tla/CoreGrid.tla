------------------------------ MODULE CoreGrid ------------------------------
(* The grid of cores that draw_sys_stats draws, in the rows that            *)
(* compute_sizes_from_layout keeps for it: each has its own arithmetic.     *)
EXTENDS Naturals, Functions

CONSTANTS
  GridCores,   \* bound: the counts of cores
  GridWidths   \* bound: the columns of the terminal

ASSUME GridAssumption == GridCores \cup GridWidths \subseteq Nat \ {0}

VARIABLE grid   \* the cores that are online, the columns

GridInit == grid \in GridCores \X GridWidths

\* Cores come and go, and the terminal is resized.
Resize ==
  \/ \E cores \in GridCores : grid' = <<cores, grid[2]>>
  \/ \E cols \in GridWidths : grid' = <<grid[1], cols>>

GridSpec == GridInit /\ [][Resize]_grid

-----------------------------------------------------------------------------
(* The grid: sub-columns on each side, and whether there are two sides.     *)

Subcolumns(cores) ==
  CASE cores \in 33..128 -> 8 [] cores \in 17..32 -> 4 [] cores \in 9..16 -> 2 [] OTHER -> 1

TwoSides(cores) == cores > 4 /\ cores <= 128

Upwards(a, b) == (a + b - 1) \div b

Half(cores) == (cores + 1) \div 2

\* Mutant: a column that is not full is not counted.
GridRows_Down(cores) == Half(cores) \div Subcolumns(cores)

GridRows(cores) == Upwards(Half(cores), Subcolumns(cores))

\* compute_sizes_from_layout keeps these lines for the online cores, three of
\* them below the grid.
RowsWanted(cores) == Upwards((cores \div 2) + 1, Subcolumns(cores)) + 3

TotalColumns(cores) == IF TwoSides(cores) THEN 2 * Subcolumns(cores) ELSE Subcolumns(cores)
ColumnWidth(cores, cols) ==
  LET w == cols \div TotalColumns(cores) IN IF w < 10 THEN 10 ELSE w

\* Where core i goes, counted from 0: on a side, column after column.
Place(i, cores, cols) ==
  LET right == TwoSides(cores) /\ i >= Half(cores)
      local == IF right THEN i - Half(cores) ELSE i
      column == (IF right THEN Subcolumns(cores) ELSE 0) + (local \div GridRows(cores))
      spare == cols % TotalColumns(cores)
  IN  [row |-> local % GridRows(cores),
       x |-> column * ColumnWidth(cores, cols) + IF column > spare THEN spare ELSE column]

-----------------------------------------------------------------------------
(* Properties.                                                              *)

\* Every core has a place of its own in the columns of the terminal, if these
\* suffice, and in the rows that the layout keeps for the same cores, with room
\* for the three lines of memory, swap and load below (not with 2 to 4 cores,
\* or more than 128: half of them are drawn beyond the right border).
GridFits ==
  LET cores == grid[1]  cols == grid[2]
      at == [i \in 0..(cores - 1) |-> Place(i, cores, cols)]
  IN  /\ GridRows(cores) + 3 <= RowsWanted(cores)
      /\ (TwoSides(cores) \/ cores = 1) /\ cols >= 10 * TotalColumns(cores) =>
           /\ IsInjective(at)
           /\ \A i \in DOMAIN at : /\ at[i].row < GridRows(cores)
                                   /\ at[i].x + ColumnWidth(cores, cols) <= cols
=============================================================================
