-------------------------- MODULE ProcessViewProofs --------------------------
(* The selection of the process table, its menus and the target of a        *)
(* signal, for any processes, window heights, columns and signals.          *)
EXTENDS ProcessView, FiniteSetTheorems, TLAPS

\* No menu is open behind the setup window.
SetupAlone == visible => option.state = "hidden"

\* Where no table is drawn none was since the windows were built.
NothingSelected ==
  ~visible /\ (hide_processes_list \/ height = 0) => selected_pid = NoPid

\* The drawing before the key has clamped the row of the menu.
MenuClamped ==
  pc = "key" /\ option.state = "kill" =>
    \/ option.selected_row <= NumSignals
    \/ (hide_processes_list \/ height = 0) /\ selected_pid = NoPid

\* What is lit on the screen is the selection, also while it is redrawn; a
\* window without a line below its header never had a row lit.
LitOK == lit \in {NoPid, selected_pid} /\ (height < 2 => lit = NoPid)

\* The selected row of the GPU view is that of a process.
Names(pid) == LET list == gpu[sort_descending_order]
              IN selected_row < Len(list) /\ list[selected_row + 1] = pid

\* The GPU view has just been drawn when a key is read.
GpuSelected ==
  pc = "key" /\ view_mode = "gpu" /\ ~visible /\ selected_pid # NoPid
    => Names(selected_pid)

\* While the kill menu is open, drawing again selects the same process.
GpuTarget ==
  option.state = "kill" /\ view_mode = "gpu" /\ chosen # NoPid
    => selected_pid = chosen /\ Names(chosen)

Selection == /\ SetupAlone /\ NothingSelected /\ MenuClamped /\ LitOK
             /\ GpuSelected /\ GpuTarget /\ CursorShown /\ SignalInTable

IInv == TypeOK /\ Selection

-----------------------------------------------------------------------------
(* Rows, menus and the window.                                              *)

LEMMA PidsFinite == Cardinality(Pids) \in Nat
  BY PidsAssumption, FS_CardinalityType

\* The rows of a table are processes, no more than there are.
LEMMA ListRows ==
  ASSUME NEW s \in Lists
  PROVE  /\ s \in Seq(Pids) /\ Len(s) \in 0..Cardinality(Pids)
         /\ \A k \in 1..Len(s) : s[k] \in Pids
<1>1. PICK m \in 0..Cardinality(Pids) : s \in [1..m -> Pids]
      BY DEF Lists, SeqOf
<1>2. m \in Nat
      BY PidsFinite
<1>3. s \in Seq(Pids) /\ Len(s) = m
      BY <1>1, <1>2
<1> QED BY <1>1, <1>3

LEMMA NoRows == <<>> \in Lists /\ [dir \in BOOLEAN |-> <<>>] \in Sorted
<1>1. <<>> \in [1..0 -> Pids] /\ 0 \in 0..Cardinality(Pids)
      BY PidsFinite
<1>2. <<>> \in Lists
      BY <1>1 DEF Lists, SeqOf, IsInjective
<1> QED BY <1>2 DEF Sorted

LEMMA SortedRows ==
  ASSUME NEW o \in Sorted, NEW dir \in BOOLEAN
  PROVE  o[dir] \in Lists
  BY DEF Sorted

LEMMA Sizes == /\ NumSignals \in Nat /\ MaxRow \in Nat /\ NumSignals < MaxRow
               /\ Cardinality(Pids) <= MaxRow
               /\ \A n \in FieldCounts : n \in Nat /\ n < MaxRow
               /\ \A n \in Heights : n \in Nat
  BY SizesAssumption

\* The row of a menu or of a table is moved into the rows there are, and the
\* window over it: it is one of the window's lines, and the window does not
\* leave lines empty below while rows are left above.
LEMMA ScrollShows ==
  ASSUME NEW row \in Nat, NEW off \in Nat, NEW lines \in Nat, NEW num \in Nat,
         num > 0
  PROVE  LET to == Scroll(row, off, lines, num)
         IN /\ to.row \in Nat /\ to.row <= row /\ to.row < num
            /\ row < num => to.row = row
            /\ to.offset \in Nat /\ to.offset <= num
            /\ lines > 0 => /\ to.offset <= to.row /\ to.row < to.offset + lines
                            /\ to.offset > 0 => to.offset + lines <= num
<1> DEFINE r == IF row > num - 1 THEN num - 1 ELSE row
           above == IF off > r THEN r ELSE off
           follow == IF above + lines > 0 /\ above + lines - 1 < r
                     THEN r + 1 - lines ELSE above
           slack == IF num > lines THEN num - lines ELSE 0
           down == IF lines > num - follow /\ follow > slack THEN slack ELSE follow
<1>1. r \in Nat /\ r <= row /\ r < num /\ (row < num => r = row)
      OBVIOUS
<1> HIDE DEF r
<1>2. above \in Nat /\ above <= r
      BY <1>1
<1> HIDE DEF above
<1>3. /\ follow \in Nat /\ follow <= num
      /\ lines > 0 => follow <= r /\ r < follow + lines
      BY <1>1, <1>2
<1> HIDE DEF follow
<1>4. /\ down \in Nat /\ down <= num
      /\ lines > 0 => /\ down <= r /\ r < down + lines
                      /\ down > 0 => down + lines <= num
      BY <1>1, <1>3
<1> HIDE DEF down
<1>5. Scroll(row, off, lines, num) = [row |-> r, offset |-> down]
      BY DEF Scroll, r, above, follow, slack, down
<1> QED BY <1>1, <1>4, <1>5
\* The menu keeps its type, whatever row, number or state it is given.
LEMMA MenuFields ==
  ASSUME NEW o \in Options
  PROVE  /\ o.state \in {"hidden", "kill", "sort_by"}
         /\ o.selected_row \in 0..MaxRow /\ o.offset \in 0..MaxRow
         /\ o.input_number \in 0..NumSignals
  BY DEF Options

LEMMA NewMenu == NewOption \in Options /\ NewOption.state = "hidden"
  BY Sizes DEF NewOption, Options

LEMMA MenuUpdates ==
  ASSUME NEW o \in Options
  PROVE  /\ NoNumber(o) \in Options /\ NoNumber(o).state = o.state
         /\ NoNumber(o).selected_row = o.selected_row
         /\ Drawn(o) \in Options /\ Drawn(o).state = o.state
         /\ Drawn(o).selected_row = o.selected_row
         /\ [NoNumber(o) EXCEPT !.state = "hidden"] \in Options
         /\ [NoNumber(o) EXCEPT !.state = "hidden"].state = "hidden"
  BY DEF Options, NoNumber, Drawn

LEMMA MenuOpened ==
  ASSUME NEW o \in Options
  PROVE  /\ [o EXCEPT !.state = "kill", !.selected_row = 0,
                      !.last_key_was_number = FALSE, !.input_number = 0] \in Options
         /\ [NoNumber(o) EXCEPT !.state = "sort_by", !.selected_row = 0] \in Options
         /\ [NoNumber(o) EXCEPT !.state = "sort_by", !.selected_row = 0].state = "sort_by"
<1>1. 0 \in 0..MaxRow /\ 0 \in 0..NumSignals
      BY Sizes
<1> QED BY <1>1 DEF Options, NoNumber

LEMMA MenuMoved ==
  ASSUME NEW o \in Options, NEW row \in 0..MaxRow, NEW off \in 0..MaxRow
  PROVE  /\ [NoNumber(o) EXCEPT !.selected_row = row] \in Options
         /\ [NoNumber(o) EXCEPT !.selected_row = row].state = o.state
         /\ Drawn([o EXCEPT !.selected_row = row, !.offset = off]) \in Options
         /\ Drawn([o EXCEPT !.selected_row = row, !.offset = off]).state = o.state
         /\ Drawn([o EXCEPT !.selected_row = row, !.offset = off]).selected_row = row
  BY DEF Options, NoNumber, Drawn

LEMMA MenuDigit ==
  ASSUME NEW o \in Options, NEW n \in 0..NumSignals
  PROVE  /\ [o EXCEPT !.last_key_was_number = TRUE] \in Options
         /\ [o EXCEPT !.last_key_was_number = TRUE].state = o.state
         /\ [o EXCEPT !.last_key_was_number = TRUE, !.input_number = n,
                      !.selected_row = n] \in Options
         /\ [o EXCEPT !.last_key_was_number = TRUE, !.input_number = n,
                      !.selected_row = n].state = o.state
<1>1. n \in 0..MaxRow
      BY Sizes
<1> QED BY <1>1 DEF Options

\* A digit is never the start of a number without a signal.
LEMMA NumberOfSignal ==
  ASSUME NEW o \in Options, NEW val \in 0..Base - 1
  PROVE  Number(o, val) \in 0..NumSignals
<1>1. val \in 0..NumSignals /\ val \in Nat /\ Base \in Nat /\ NumSignals \in Nat
      BY SizesAssumption
<1>2. o.input_number \in Nat
      BY <1>1 DEF Options
<1> DEFINE new == o.input_number * Base + val
<1>3. new \in Nat
      BY <1>1, <1>2
<1> HIDE DEF new
<1>4. Number(o, val) = IF o.last_key_was_number /\ new <= NumSignals THEN new ELSE val
      BY DEF Number, new
<1>5. CASE o.last_key_was_number /\ new <= NumSignals
      BY <1>1, <1>3, <1>4, <1>5
<1>6. CASE ~(o.last_key_was_number /\ new <= NumSignals)
      BY <1>1, <1>4, <1>6, Zenon
<1> QED BY <1>5, <1>6

\* Drawing a menu leaves it open, on one of its rows.
LEMMA MenuDrawn ==
  ASSUME TypeOK, height > 0
  PROVE  /\ DrawMenu \in Options /\ DrawMenu.state = option.state
         /\ option.state = "kill" => DrawMenu.selected_row <= NumSignals
<1> DEFINE last == CASE option.state = "kill" -> NumSignals + 1
                     [] option.state = "sort_by" -> fields + 1
                     [] OTHER -> 0
           to == Scroll(option.selected_row, option.offset, height - 1, last)
<1>1. option \in Options /\ height \in Nat /\ fields \in FieldCounts
      BY Sizes DEF TypeOK
<1>2. option.state \in {"hidden", "kill", "sort_by"}
      /\ option.selected_row \in 0..MaxRow /\ option.offset \in 0..MaxRow
      BY <1>1, MenuFields
<1>3. last \in 0..MaxRow /\ (option.state = "kill" => last = NumSignals + 1)
      /\ (option.state = "hidden" => last = 0)
  <2>1. CASE option.state = "kill"
        BY <2>1, Sizes
  <2>2. CASE option.state = "sort_by"
        BY <2>2, <1>1, Sizes
  <2>3. CASE option.state = "hidden"
        BY <2>3, Sizes
  <2> QED BY <2>1, <2>2, <2>3, <1>2
<1>4. DrawMenu = Drawn([option EXCEPT !.selected_row = to.row, !.offset = to.offset])
      BY DEF DrawMenu
<1> HIDE DEF last
<1>5. CASE last = 0
  <2>1. to.row = option.selected_row /\ to.offset = option.offset
        BY <1>5 DEF Scroll
  <2>2. option.state # "kill"
        BY <1>5, <1>3, Sizes
  <2>3. to.row \in 0..MaxRow /\ to.offset \in 0..MaxRow
        BY <1>2, <2>1
  <2> HIDE DEF to
  <2>4. DrawMenu \in Options /\ DrawMenu.state = option.state
        BY <1>1, <1>4, <2>3, MenuMoved, Zenon
  <2> QED BY <2>2, <2>4
<1>6. CASE last # 0
  <2>1. /\ option.selected_row \in Nat /\ option.offset \in Nat
        /\ height - 1 \in Nat /\ last \in Nat /\ last > 0 /\ last <= MaxRow
        BY <1>1, <1>2, <1>3, <1>6, Sizes
  <2>2. /\ to.row \in Nat /\ to.row <= option.selected_row /\ to.row < last
        /\ to.offset \in Nat /\ to.offset <= last
        BY <2>1, ScrollShows
  <2> HIDE DEF to
  <2>3. to.row \in 0..MaxRow /\ to.offset \in 0..MaxRow
        BY <1>2, <2>1, <2>2, Sizes
  <2>4. option.state = "kill" => to.row <= NumSignals
        BY <1>3, <2>2, Sizes
  <2>5. /\ DrawMenu \in Options /\ DrawMenu.state = option.state
        /\ DrawMenu.selected_row = to.row
        BY <1>1, <1>4, <2>3, MenuMoved, ZenonT(60)
  <2> QED BY <2>4, <2>5
<1> QED BY <1>5, <1>6

-----------------------------------------------------------------------------
(* The initial states, and what the main loop and the keys do.              *)

LEMMA InitIInv == Init => IInv
<1> SUFFICES ASSUME Init PROVE IInv
    OBVIOUS
<1>1. TypeOK
  <2>1. /\ sort_descending_order \in BOOLEAN /\ hide_processes_list \in BOOLEAN
        /\ visible \in BOOLEAN /\ option \in Options /\ gpu \in Sorted
        BY NewMenu, NoRows, Zenon DEF Init
  <2>2. /\ selected_row \in 0..MaxRow /\ offset \in 0..MaxRow /\ indexed \in Readings
        BY Sizes DEF Init, Readings
  <2> QED BY <2>1, <2>2, Zenon DEF Init, TypeOK
<1>2. SetupAlone /\ NothingSelected /\ MenuClamped /\ LitOK /\ GpuSelected
      BY DEF Init, SetupAlone, NothingSelected, MenuClamped, LitOK, GpuSelected
<1>3. GpuTarget /\ CursorShown /\ SignalInTable
      BY Sizes DEF Init, GpuTarget, CursorShown, SignalInTable, InTable
<1> QED BY <1>1, <1>2, <1>3 DEF IInv, Selection

\* Building the windows anew deselects and closes everything.
LEMMA RebuildIInv ==
  ASSUME IInv, RebuildWindows,
         UNCHANGED indexed, sort_descending_order' \in BOOLEAN,
         hide_processes_list' \in BOOLEAN, fields' \in FieldCounts, gpu' \in Sorted,
         pc' \in {"top", "draw", "key", "exited"}
  PROVE  IInv'
<1> USE DEF RebuildWindows
<1>1. TypeOK'
  <2>1. /\ sort_descending_order' \in BOOLEAN /\ hide_processes_list' \in BOOLEAN
        /\ visible' \in BOOLEAN /\ option' \in Options
        BY NewMenu, Zenon
  <2>2. /\ selected_row' \in 0..MaxRow /\ offset' \in 0..MaxRow /\ indexed' \in Readings
        BY Sizes DEF IInv, TypeOK
  <2> QED BY <2>1, <2>2, Zenon DEF IInv, TypeOK
<1>2. option'.state = "hidden" /\ selected_pid' = NoPid /\ lit' = NoPid
      /\ printed' = <<>> /\ visible' = FALSE
      BY NewMenu
<1>3. Selection'
      BY <1>2 DEF IInv, Selection, SetupAlone, NothingSelected, MenuClamped, LitOK,
                  GpuSelected, GpuTarget, CursorShown, SignalInTable
<1> QED BY <1>1, <1>3 DEF IInv

\* The rows are not refreshed while the kill menu is open.
LEMMA MainIInv == IInv /\ Main => IInv'
<1> SUFFICES ASSUME IInv, Main PROVE IInv'
    OBVIOUS
<1>1. CASE Refresh \/ NoRefresh
  <2>1. TypeOK'
        BY <1>1 DEF Refresh, NoRefresh, IInv, TypeOK, process, options, screen
  <2>2. SetupAlone' /\ NothingSelected' /\ MenuClamped' /\ LitOK' /\ GpuSelected'
        BY <1>1 DEF Refresh, NoRefresh, IInv, Selection, SetupAlone, NothingSelected,
           MenuClamped, LitOK, GpuSelected, process, options, screen
  <2>3. GpuTarget' /\ CursorShown' /\ SignalInTable'
        BY <1>1 DEF Refresh, NoRefresh, IInv, Selection, GpuTarget, CursorShown,
           SignalInTable, Names, process, options, screen
  <2> QED BY <2>1, <2>2, <2>3 DEF IInv, Selection
<1>2. CASE Resize
      BY <1>2, RebuildIInv DEF Resize, IInv, TypeOK, options
<1> QED BY <1>1, <1>2 DEF Main
-----------------------------------------------------------------------------
(* Drawing.                                                                 *)

\* The selected row is one of the list's, and the selection the process there.
LEMMA RowSelected ==
  ASSUME TypeOK, NEW list \in Lists, SelectRow(list)
  PROVE  /\ selected_row' \in 0..MaxRow /\ selected_pid' \in Pids \cup {NoPid}
         /\ Len(list) = 0 => selected_row' = 0 /\ selected_pid' = NoPid
         /\ Len(list) > 0 => /\ selected_row' < Len(list)
                             /\ selected_pid' = list[selected_row' + 1]
                             /\ selected_pid' \in Pids
<1>1. /\ Len(list) \in Nat /\ Len(list) <= MaxRow /\ MaxRow \in Nat
      /\ selected_row \in 0..MaxRow /\ list \in Seq(Pids)
      /\ \A k \in 1..Len(list) : list[k] \in Pids
      BY ListRows, Sizes, PidsFinite DEF TypeOK
<1>2. CASE list = <<>>
  <2>1. Len(list) = 0 /\ selected_row' = 0 /\ selected_pid' = NoPid
        BY <1>2 DEF SelectRow
  <2> QED BY <1>1, <2>1
<1>3. CASE list # <<>>
  <2>1. Len(list) > 0
        BY <1>1, <1>3
  <2>2. selected_row' \in 0..MaxRow /\ selected_row' < Len(list)
        BY <1>1, <1>3, <2>1 DEF SelectRow
  <2>3. selected_pid' = list[selected_row' + 1]
        BY <1>3 DEF SelectRow
  <2>4. selected_pid' \in Pids
        BY <1>1, <2>2, <2>3
  <2> QED BY <2>1, <2>2, <2>3, <2>4
<1> QED BY <1>2, <1>3

\* A table with a line below its header lights the row that is selected.
LEMMA TablePrinted ==
  ASSUME IInv, HasTable, NEW list \in Lists, SelectRow(list), PrintTable(list)
  PROVE  /\ offset' \in 0..MaxRow
         /\ lit' \in Pids \cup {NoPid} /\ lit' \in {NoPid, selected_pid'}
         /\ height < 2 => lit' = NoPid /\ printed' = <<>>
         /\ ~(height < 2) => printed' = <<Len(list), height - 1>>
         /\ ~(height < 2) /\ Len(list) > 0 =>
              lit' # NoPid /\ (offset' > 0 => offset' + (height - 1) <= Len(list))
<1>1. /\ height \in Nat /\ offset \in 0..MaxRow /\ Len(list) \in Nat
      /\ Len(list) <= MaxRow /\ MaxRow \in Nat
      BY ListRows, Sizes, PidsFinite DEF IInv, TypeOK
<1>2. CASE height < 2
  <2>1. lit' = LitBefore /\ printed' = <<>> /\ offset' = offset
        BY <1>2 DEF PrintTable
  <2>2. LitBefore = NoPid
        BY <1>2 DEF IInv, Selection, LitOK, LitBefore
  <2> QED BY <1>1, <1>2, <2>1, <2>2
<1>3. CASE ~(height < 2)
  <2> DEFINE lines == height - 1
             to == Scroll(selected_row', offset, lines, Len(list))
             shown == to.row < Len(list) /\ to.offset <= to.row
                      /\ to.row < to.offset + lines
  <2>1. /\ printed' = <<Len(list), lines>> /\ offset' = to.offset
        /\ lit' = IF shown THEN list[to.row + 1] ELSE NoPid
        BY <1>3, Zenon DEF PrintTable
  <2>2. lines \in Nat /\ lines > 0 /\ offset \in Nat
        BY <1>1, <1>3
  <2>3. /\ selected_row' \in 0..MaxRow /\ selected_row' \in Nat
        /\ Len(list) > 0 => /\ selected_row' < Len(list)
                            /\ selected_pid' = list[selected_row' + 1]
                            /\ selected_pid' \in Pids
        BY <1>1, RowSelected DEF IInv
  <2>4. CASE Len(list) = 0
    <3>1. to.row = selected_row' /\ to.offset = offset
          BY <2>4 DEF Scroll
    <3>2. ~shown
          BY <2>3, <2>4, <3>1
    <3> HIDE DEF to, shown
    <3> QED BY <1>1, <1>3, <2>1, <2>4, <3>1, <3>2
  <2>5. CASE Len(list) > 0
    <3>1. /\ to.row = selected_row'
          /\ to.offset \in Nat /\ to.offset <= Len(list)
          /\ to.offset <= to.row /\ to.row < to.offset + lines
          /\ to.offset > 0 => to.offset + lines <= Len(list)
      <4> HIDE DEF lines
      <4>1. \A row \in Nat : row < Len(list) =>
              LET at == Scroll(row, offset, lines, Len(list))
              IN /\ at.row = row
                 /\ at.offset \in Nat /\ at.offset <= Len(list)
                 /\ at.offset <= at.row /\ at.row < at.offset + lines
                 /\ at.offset > 0 => at.offset + lines <= Len(list)
            BY <1>1, <2>2, <2>5, ScrollShows
      <4> QED BY <2>3, <2>5, <4>1
    <3>2. shown
          BY <2>3, <2>5, <3>1
    <3>3. selected_pid' # NoPid
          BY <2>3, <2>5, PidsAssumption
    <3> HIDE DEF to, shown
    <3>4. lit' = selected_pid'
          BY <2>1, <2>3, <2>5, <3>1, <3>2
    <3>5. offset' \in 0..MaxRow
          BY <1>1, <2>1, <3>1
    <3> QED BY <1>1, <1>3, <2>1, <2>3, <2>5, <3>1, <3>3, <3>4, <3>5
  <2> QED BY <1>1, <2>4, <2>5
<1> QED BY <1>2, <1>3

LEMMA TableTyped ==
  ASSUME IInv, HasTable, NEW list \in Lists, DrawTable(list), pc' = "key"
  PROVE  TypeOK'
<1>1. /\ option' \in Options
      /\ UNCHANGED <<view_mode, height, options, visible, gpu, chosen, indexed>>
      BY MenuDrawn DEF DrawTable, IInv, HasTable
<1>2. selected_row' \in 0..MaxRow /\ selected_pid' \in Pids \cup {NoPid}
      BY RowSelected DEF DrawTable, IInv
<1>3. offset' \in 0..MaxRow /\ lit' \in Pids \cup {NoPid}
      BY TablePrinted, Zenon DEF DrawTable
<1>4. printed' \in {<<>>} \cup ((0..Cardinality(Pids)) \X Nat)
  <2>1. height \in Nat /\ Len(list) \in 0..Cardinality(Pids)
        BY ListRows, Sizes DEF IInv, TypeOK
  <2>2. printed' = <<>> \/ (~(height < 2) /\ printed' = <<Len(list), height - 1>>)
        BY TablePrinted, Zenon DEF DrawTable
  <2>3. ~(height < 2) => height - 1 \in Nat
        BY <2>1
  <2> QED BY <2>1, <2>2, <2>3
<1> QED BY <1>1, <1>2, <1>3, <1>4, Zenon DEF IInv, TypeOK, options

\* Drawing the table ties the highlight, the selection and the target together.
\* In the GPU view its rows are those the kill menu was opened over.
LEMMA TableIInv ==
  ASSUME IInv, HasTable, NEW list \in Lists, DrawTable(list), pc' = "key",
         view_mode = "gpu" => list = gpu[sort_descending_order]
  PROVE  IInv'
<1>1. TypeOK'
      BY TableTyped
<1>2. /\ option' = DrawMenu
      /\ DrawMenu.state = option.state
      /\ option.state = "kill" => DrawMenu.selected_row <= NumSignals
      /\ UNCHANGED <<view_mode, height, options, visible, gpu, chosen, indexed>>
      BY MenuDrawn DEF DrawTable, IInv, HasTable
<1>3. SetupAlone' /\ NothingSelected' /\ MenuClamped' /\ SignalInTable'
      BY <1>2 DEF IInv, Selection, HasTable, SetupAlone, NothingSelected, MenuClamped,
                  SignalInTable, options
<1>4. LitOK' /\ CursorShown'
  <2>1. /\ lit' \in {NoPid, selected_pid'}
        /\ height < 2 => lit' = NoPid /\ printed' = <<>>
        /\ ~(height < 2) => printed' = <<Len(list), height - 1>>
        /\ ~(height < 2) /\ Len(list) > 0 =>
             lit' # NoPid /\ (offset' > 0 => offset' + (height - 1) <= Len(list))
        BY TablePrinted, Zenon DEF DrawTable
  <2>2. ~(height < 2) => printed'[1] = Len(list) /\ printed'[2] = height - 1
        BY <2>1
  <2>3. height < 2 \/ ~(height < 2)
        OBVIOUS
  <2> QED BY <1>2, <2>1, <2>2, <2>3 DEF LitOK, CursorShown
<1>5. /\ Len(list) = 0 => selected_pid' = NoPid
      /\ Len(list) > 0 => selected_row' < Len(list)
                          /\ selected_pid' = list[selected_row' + 1]
      /\ Len(list) \in Nat
      BY RowSelected, ListRows, PidsFinite DEF DrawTable, IInv
<1>6. view_mode = "gpu" /\ selected_pid' # NoPid => Names(selected_pid)'
      BY <1>2, <1>5 DEF Names, options
<1>7. GpuSelected'
      BY <1>2, <1>6 DEF GpuSelected
<1>8. GpuTarget'
  <2> SUFFICES ASSUME option'.state = "kill", view_mode' = "gpu", chosen' # NoPid
               PROVE  selected_pid' = chosen' /\ Names(chosen)'
      BY DEF GpuTarget
  <2>1. Names(chosen)
        BY <1>2 DEF IInv, Selection, GpuTarget
  <2>2. list = gpu[sort_descending_order] /\ selected_row < Len(list)
        /\ list[selected_row + 1] = chosen
        BY <1>2, <2>1 DEF Names
  <2>3. selected_row' = selected_row /\ selected_row \in Nat
        BY <2>2, <1>5 DEF DrawTable, SelectRow, IInv, TypeOK
  <2>4. selected_pid' = chosen
        BY <1>5, <2>2, <2>3
  <2> QED BY <1>2, <2>2, <2>3, <2>4 DEF Names, options
<1> QED BY <1>1, <1>3, <1>4, <1>7, <1>8 DEF IInv, Selection

LEMMA DrawIInv == IInv /\ Draw => IInv'
<1> SUFFICES ASSUME IInv, Draw PROVE IInv'
    OBVIOUS
<1>1. CASE DrawSetup
  <2>1. TypeOK'
        BY <1>1 DEF DrawSetup, IInv, TypeOK, process, options
  <2>2. SetupAlone' /\ NothingSelected' /\ MenuClamped' /\ LitOK' /\ GpuSelected'
        BY <1>1 DEF DrawSetup, IInv, Selection, SetupAlone, NothingSelected,
           MenuClamped, LitOK, GpuSelected, process, options
  <2>3. GpuTarget' /\ CursorShown' /\ SignalInTable'
        BY <1>1 DEF DrawSetup, IInv, Selection, GpuTarget, CursorShown,
           SignalInTable, Names, process, options
  <2> QED BY <2>1, <2>2, <2>3 DEF IInv, Selection
<1>2. CASE DrawNothing
  <2>1. /\ option' \in Options /\ option'.state = option.state
        BY <1>2, MenuUpdates DEF DrawNothing, IInv, TypeOK
  <2>2. /\ pc' = "key" /\ ~visible /\ (hide_processes_list \/ height = 0)
        /\ printed' = <<>>
        /\ UNCHANGED <<view_mode, selected_row, offset, selected_pid, height>>
        /\ UNCHANGED <<options, visible, gpu, lit, chosen, indexed>>
        BY <1>2 DEF DrawNothing
  <2>3. selected_pid = NoPid
        BY <2>2 DEF IInv, Selection, NothingSelected
  <2>4. TypeOK'
        BY <2>1, <2>2 DEF IInv, TypeOK, options
  <2>5. SetupAlone' /\ NothingSelected' /\ MenuClamped' /\ LitOK' /\ GpuSelected'
        BY <2>1, <2>2, <2>3 DEF IInv, Selection, SetupAlone, NothingSelected,
           MenuClamped, LitOK, GpuSelected, options
  <2>6. GpuTarget' /\ CursorShown' /\ SignalInTable'
        BY <2>1, <2>2 DEF IInv, Selection, GpuTarget, CursorShown, SignalInTable,
           Names, options
  <2> QED BY <2>4, <2>5, <2>6 DEF IInv, Selection
<1>3. CASE DrawGpu
      BY <1>3, SortedRows, TableIInv DEF DrawGpu, IInv, TypeOK
<1>4. CASE DrawSystem
      BY <1>4, TableIInv DEF DrawSystem
<1>5. CASE DrawNoFrame
  <2>1. /\ option' \in Options /\ option'.state = option.state
        /\ option.state = "kill" => option'.selected_row <= NumSignals
        BY <1>5, MenuDrawn DEF DrawNoFrame, IInv, HasTable
  <2>2. /\ pc' = "key" /\ HasTable /\ view_mode = "all" /\ printed' = <<>>
        /\ lit' = LitBefore
        /\ UNCHANGED <<view_mode, selected_row, offset, selected_pid, height>>
        /\ UNCHANGED <<options, visible, gpu, chosen, indexed>>
        BY <1>5 DEF DrawNoFrame
  <2>3. lit' \in {NoPid, lit}
        BY <2>2 DEF LitBefore
  <2>4. TypeOK'
        BY <2>1, <2>2, <2>3 DEF IInv, TypeOK, options
  <2>5. SetupAlone' /\ NothingSelected' /\ MenuClamped' /\ LitOK' /\ GpuSelected'
        BY <2>1, <2>2, <2>3 DEF IInv, Selection, SetupAlone, NothingSelected,
           MenuClamped, LitOK, GpuSelected, options
  <2>6. GpuTarget' /\ CursorShown' /\ SignalInTable'
        BY <2>1, <2>2 DEF IInv, Selection, GpuTarget, CursorShown, SignalInTable,
           Names, options
  <2> QED BY <2>4, <2>5, <2>6 DEF IInv, Selection
<1> QED BY <1>1, <1>2, <1>3, <1>4, <1>5 DEF Draw
-----------------------------------------------------------------------------
(* The keys.                                                                *)

\* A key that leaves the table and the screen alone, opens no menu behind the
\* setup window and no kill menu, and changes the rows or their order only with
\* the kill menu closed or its target forgotten.
LEMMA KeyKeepsSelection ==
  ASSUME IInv, pc' \in {"top", "exited"}, UNCHANGED <<Table, screen>>,
         option' \in Options, visible' \in BOOLEAN,
         visible' => option'.state = "hidden",
         ~visible' => ~visible /\ UNCHANGED hide_processes_list,
         sort_descending_order' \in BOOLEAN, hide_processes_list' \in BOOLEAN,
         fields' \in FieldCounts, gpu' \in Sorted,
         indexed' \in Readings, InTable(indexed'),
         chosen' \in Pids \cup {NoPid},
         GpuTarget'
  PROVE  IInv'
<1>1. TypeOK'
      BY DEF IInv, TypeOK, Table, screen
<1>2. SetupAlone' /\ NothingSelected' /\ MenuClamped' /\ LitOK' /\ GpuSelected'
      BY DEF IInv, Selection, SetupAlone, NothingSelected, MenuClamped, LitOK,
         GpuSelected, Table, screen
<1>3. CursorShown' /\ SignalInTable'
      BY DEF CursorShown, SignalInTable
<1> QED BY <1>1, <1>2, <1>3 DEF IInv, Selection

\* The kill menu is opened over the process the GPU view has selected.
LEMMA KillMenuIInv == IInv /\ KeyKillMenu => IInv'
<1> SUFFICES ASSUME IInv, KeyKillMenu PROVE IInv'
    OBVIOUS
<1>1. /\ option' \in Options /\ pc = "key" /\ pc' = "top" /\ ~visible
      /\ chosen' = selected_pid
      /\ UNCHANGED <<Table, options, visible, gpu, screen, indexed>>
      BY MenuOpened, Zenon DEF KeyKillMenu, Pressed, Ready, IInv, TypeOK
<1>2. GpuTarget'
      BY <1>1 DEF IInv, Selection, GpuSelected, GpuTarget, Names, Table, options
<1> QED BY <1>1, <1>2, KeyKeepsSelection, SMTT(40)
        DEF IInv, TypeOK, Selection, SignalInTable, options

\* Enter reads the signal of the menu's row, or of a row that nothing clamped
\* where there is no table and no process to send it to.
LEMMA KillIInv == IInv /\ KeyKill => IInv'
<1> SUFFICES ASSUME IInv, KeyKill PROVE IInv'
    OBVIOUS
<1>1. /\ option' \in Options /\ option'.state = "hidden"
      /\ pc = "key" /\ pc' \in {"top", "exited"} /\ ~visible /\ option.state = "kill"
      /\ chosen' = NoPid
      /\ UNCHANGED <<Table, options, visible, gpu, screen>>
      BY MenuUpdates DEF KeyKill, IInv, TypeOK
<1>2. indexed' \in Readings /\ InTable(indexed')
  <2>1. CASE option.selected_row = 0
        BY <2>1 DEF KeyKill, IInv, TypeOK, Selection, SignalInTable
  <2>2. CASE option.selected_row # 0
    <3> DEFINE row == option.selected_row
               behind == IF HasTable THEN "table" ELSE "nothing"
               to == IF selected_pid # NoPid THEN "process" ELSE "nobody"
    <3>1. indexed' = [row |-> row, behind |-> behind, to |-> to]
          BY <2>2, Zenon DEF KeyKill
    <3>2. row \in 0..MaxRow
          BY MenuFields DEF IInv, TypeOK
    <3>3. row > NumSignals => behind = "nothing" /\ to = "nobody"
          BY <1>1, <3>2, Sizes DEF IInv, Selection, MenuClamped, HasTable
    <3>4. behind \in {"table", "nothing"} /\ to \in {"process", "nobody"}
          OBVIOUS
    <3> HIDE DEF row, behind, to
    <3> QED BY <3>1, <3>2, <3>3, <3>4 DEF Readings, InTable
  <2> QED BY <2>1, <2>2
<1>3. GpuTarget'
      BY <1>1 DEF GpuTarget
<1> QED BY <1>1, <1>2, <1>3, KeyKeepsSelection DEF IInv, TypeOK, options

\* Turning the order round gives up the target; the other keys of a menu keep
\* its state, the rows and their order, or close it.
LEMMA MenuKeyIInv ==
  ASSUME IInv,
         \/ KeySortMenu \/ KeyMenuRow \/ KeyDirection \/ KeyDigit \/ KeySort
         \/ KeyCloseMenu \/ KeyWithoutEffect
  PROVE  IInv'
<1>0. option \in Options /\ indexed \in Readings /\ InTable(indexed)
      BY DEF IInv, TypeOK, Selection, SignalInTable
<1>1. CASE KeySortMenu
  <2>1. option' \in Options /\ option'.state = "sort_by"
        BY <1>0, <1>1, MenuOpened, Zenon DEF KeySortMenu
  <2>2. GpuTarget'
        BY <2>1 DEF GpuTarget
  <2> QED BY <1>0, <1>1, <2>1, <2>2, KeyKeepsSelection, SMTT(40)
          DEF KeySortMenu, Pressed, Ready, IInv, TypeOK, options
<1>2. CASE KeyMenuRow
  <2>1. option' \in Options /\ option'.state = option.state
    <3>1. option.selected_row \in 0..MaxRow /\ MaxRow \in Nat
          BY <1>0, MenuFields, Sizes
    <3>2. NoNumber(option).selected_row = option.selected_row
          BY <1>0, MenuUpdates
    <3>3. PICK row \in 0..MaxRow : option' = [NoNumber(option) EXCEPT !.selected_row = row]
      <4>1. CASE /\ option.selected_row > 0
                 /\ option' = [NoNumber(option) EXCEPT !.selected_row = @ - 1]
        <5>1. option.selected_row - 1 \in 0..MaxRow
              BY <3>1, <4>1
        <5>2. option' = [NoNumber(option) EXCEPT !.selected_row = option.selected_row - 1]
              BY <3>2, <4>1, Zenon
        <5> QED BY <5>1, <5>2, Zenon
      <4>2. CASE /\ option.selected_row < MaxRow
                 /\ option' = [NoNumber(option) EXCEPT !.selected_row = @ + 1]
        <5>1. option.selected_row + 1 \in 0..MaxRow
              BY <3>1, <4>2
        <5>2. option' = [NoNumber(option) EXCEPT !.selected_row = option.selected_row + 1]
              BY <3>2, <4>2, Zenon
        <5> QED BY <5>1, <5>2, Zenon
      <4> QED BY <1>2, <4>1, <4>2, Zenon DEF KeyMenuRow
    <3>4. 0 \in 0..MaxRow
          BY <3>1
    <3> QED BY <1>0, <3>3, <3>4, MenuMoved, Zenon
  <2>2. GpuTarget'
        BY <1>2, <2>1 DEF KeyMenuRow, IInv, Selection, GpuTarget, Names, Table, options
  <2> QED BY <1>0, <1>2, <2>1, <2>2, KeyKeepsSelection
          DEF KeyMenuRow, Pressed, Ready, IInv, TypeOK, options
<1>3. CASE KeyDirection
  <2>1. option' \in Options /\ option'.state = option.state
        BY <1>0, <1>3, MenuUpdates DEF KeyDirection
  <2>2. chosen' \in Pids \cup {NoPid}
        BY <1>3 DEF KeyDirection, IInv, TypeOK
  <2>3. GpuTarget'
    <3>1. CASE sort_descending_order' = sort_descending_order
          BY <1>3, <2>1, <3>1 DEF KeyDirection, IInv, Selection, GpuTarget, Names, Table
    <3>2. CASE sort_descending_order' # sort_descending_order
          BY <1>3, <3>2 DEF KeyDirection, GpuTarget
    <3> QED BY <3>1, <3>2
  <2> QED BY <1>0, <1>3, <2>1, <2>2, <2>3, KeyKeepsSelection
          DEF KeyDirection, Pressed, Ready, IInv, TypeOK
<1>4. CASE KeyDigit
  <2>1. option' \in Options /\ option'.state = option.state
    <3>1. PICK val \in 0..Base - 1 :
            option' = IF option.state # "kill"
                      THEN [option EXCEPT !.last_key_was_number = TRUE]
                      ELSE [option EXCEPT !.last_key_was_number = TRUE,
                                          !.input_number = Number(option, val),
                                          !.selected_row = Number(option, val)]
          BY <1>4, Zenon DEF KeyDigit
    <3>2. Number(option, val) \in 0..NumSignals
          BY <1>0, NumberOfSignal
    <3> QED BY <1>0, <3>1, <3>2, MenuDigit, Zenon
  <2>2. GpuTarget'
        BY <1>4, <2>1, Zenon DEF KeyDigit, IInv, Selection, GpuTarget, Names, Table, options
  <2> QED BY <1>0, <1>4, <2>1, <2>2, KeyKeepsSelection, Zenon
          DEF KeyDigit, Pressed, Ready, IInv, TypeOK, options
<1>5. CASE KeySort
  <2>1. option' \in Options /\ option'.state = "hidden"
        BY <1>0, <1>5, MenuUpdates DEF KeySort
  <2>2. gpu' \in Sorted
        BY <1>5 DEF KeySort, IInv, TypeOK
  <2>3. GpuTarget'
        BY <2>1 DEF GpuTarget
  <2> QED BY <1>0, <1>5, <2>1, <2>2, <2>3, KeyKeepsSelection
          DEF KeySort, Pressed, Ready, IInv, TypeOK, options
<1>6. CASE KeyCloseMenu
  <2>1. option' \in Options /\ option'.state = "hidden"
        BY <1>0, <1>6, MenuUpdates DEF KeyCloseMenu
  <2>2. GpuTarget'
        BY <2>1 DEF GpuTarget
  <2> QED BY <1>0, <1>6, <2>1, <2>2, KeyKeepsSelection
          DEF KeyCloseMenu, Pressed, Ready, IInv, TypeOK, options
<1>7. CASE KeyWithoutEffect
  <2>1. option' \in Options /\ option'.state = option.state
        BY <1>0, <1>7, MenuUpdates DEF KeyWithoutEffect
  <2>2. GpuTarget'
        BY <1>7, <2>1 DEF KeyWithoutEffect, IInv, Selection, GpuTarget, Names, Table, options
  <2> QED BY <1>0, <1>7, <2>1, <2>2, KeyKeepsSelection
          DEF KeyWithoutEffect, Pressed, Ready, IInv, TypeOK, options
<1> QED BY <1>1, <1>2, <1>3, <1>4, <1>5, <1>6, <1>7

\* The view and the selected row move only with no menu open.
LEMMA TableKeyIInv == ASSUME IInv, KeyView \/ KeyTableRow PROVE IInv'
<1>1. /\ option' \in Options /\ option'.state = "hidden"
      /\ pc' = "top" /\ ~visible
      /\ UNCHANGED <<offset, selected_pid, height, options, visible, gpu, screen,
                     chosen, indexed>>
  <2>1. /\ pc' = "top" /\ ~visible /\ option.state = "hidden"
        /\ option' = NoNumber(option)
        /\ UNCHANGED <<offset, selected_pid, height, options, visible, gpu, screen,
                       chosen, indexed>>
        BY DEF KeyView, KeyTableRow, Pressed, Ready, MenuOpen
  <2>2. NoNumber(option) \in Options /\ NoNumber(option).state = option.state
        BY MenuUpdates DEF IInv, TypeOK
  <2> QED BY <2>1, <2>2
<1>2. selected_row' \in 0..MaxRow /\ view_mode' \in {"all", "gpu"}
      BY Sizes DEF KeyView, KeyTableRow, IInv, TypeOK
<1>3. TypeOK'
      BY <1>1, <1>2 DEF IInv, TypeOK, options, screen
<1>4. SetupAlone' /\ NothingSelected' /\ MenuClamped' /\ LitOK' /\ GpuSelected'
      BY <1>1 DEF IInv, Selection, SetupAlone, NothingSelected, MenuClamped, LitOK,
         GpuSelected, options, screen
<1>5. GpuTarget' /\ CursorShown' /\ SignalInTable'
      BY <1>1 DEF IInv, Selection, GpuTarget, CursorShown, SignalInTable
<1> QED BY <1>3, <1>4, <1>5 DEF IInv, Selection

\* The setup window is opened with no menu open, and changes the options.
LEMMA SetupKeyIInv == ASSUME IInv, KeySetup \/ SetupOption PROVE IInv'
<1>0. option \in Options /\ indexed \in Readings /\ InTable(indexed)
      BY DEF IInv, TypeOK, Selection, SignalInTable
<1>1. CASE KeySetup
  <2>1. option' \in Options /\ option'.state = "hidden"
        BY <1>0, <1>1, MenuUpdates, MenuFields DEF KeySetup, MenuOpen
  <2>2. GpuTarget'
        BY <2>1 DEF GpuTarget
  <2> QED BY <1>0, <1>1, <2>1, <2>2, KeyKeepsSelection
          DEF KeySetup, Pressed, Ready, IInv, TypeOK, options
<1>2. CASE SetupOption
  <2>1. /\ option' = option /\ option.state = "hidden" /\ visible /\ visible' = visible
        /\ pc' = "top" /\ UNCHANGED <<Table, screen, chosen, indexed>>
        BY <1>2 DEF SetupOption, Ready, IInv, Selection, SetupAlone, process, Table
  <2>2. /\ sort_descending_order' \in BOOLEAN /\ hide_processes_list' \in BOOLEAN
        /\ fields' \in FieldCounts /\ gpu' \in Sorted
        BY <1>2, Zenon DEF SetupOption, IInv, TypeOK
  <2>3. GpuTarget'
        BY <2>1 DEF GpuTarget
  <2> QED BY <1>0, <2>1, <2>2, <2>3, KeyKeepsSelection DEF IInv, TypeOK
<1> QED BY <1>1, <1>2

LEMMA KeyIInv == IInv /\ Key => IInv'
<1> SUFFICES ASSUME IInv, Key PROVE IInv'
    OBVIOUS
<1>1. CASE NoKey \/ Quit
  <2>1. GpuTarget'
        BY <1>1 DEF NoKey, Quit, IInv, Selection, GpuTarget, Names, process, options
  <2> QED BY <1>1, <2>1, KeyKeepsSelection
          DEF NoKey, Quit, Ready, IInv, TypeOK, Selection, SetupAlone, SignalInTable,
              process, options, Table
<1>2. CASE KeyRebuild \/ SetupClose
      BY <1>2, RebuildIInv DEF KeyRebuild, SetupClose, Ready, IInv, TypeOK, options
<1>3. CASE KeySetup \/ SetupOption
      BY <1>3, SetupKeyIInv
<1>4. CASE KeyView \/ KeyTableRow
      BY <1>4, TableKeyIInv
<1>5. CASE KeyKillMenu \/ KeyKill
      BY <1>5, KillMenuIInv, KillIInv
<1>6. CASE \/ KeySortMenu \/ KeyMenuRow \/ KeyDirection \/ KeyDigit \/ KeySort
           \/ KeyCloseMenu \/ KeyWithoutEffect
      BY <1>6, MenuKeyIInv
<1> QED BY <1>1, <1>2, <1>3, <1>4, <1>5, <1>6 DEF Key

-----------------------------------------------------------------------------
LEMMA Invariance == Spec => []IInv
<1>1. IInv /\ UNCHANGED vars => IInv'
  <2> SUFFICES ASSUME IInv, UNCHANGED vars PROVE IInv'
      OBVIOUS
  <2>1. TypeOK'
        BY DEF IInv, TypeOK, vars, process, options, screen
  <2>2. SetupAlone' /\ NothingSelected' /\ MenuClamped' /\ LitOK' /\ GpuSelected'
        BY DEF IInv, Selection, SetupAlone, NothingSelected, MenuClamped, LitOK,
           GpuSelected, Names, vars, process, options, screen
  <2>3. GpuTarget' /\ CursorShown' /\ SignalInTable'
        BY DEF IInv, Selection, GpuTarget, CursorShown, SignalInTable, Names, vars,
           process, options, screen
  <2> QED BY <2>1, <2>2, <2>3 DEF IInv, Selection
<1>2. IInv /\ [Next]_vars => IInv'
      BY <1>1, MainIInv, DrawIInv, KeyIInv DEF Next
<1> QED BY InitIInv, <1>2, PTL DEF Spec

\* Every variable keeps its type: no row, offset or number that the keys and the
\* drawing move by unsigned steps leaves its range.
THEOREM TypeCorrect == Spec => []TypeOK
<1>1. IInv => TypeOK
      BY DEF IInv
<1> QED BY <1>1, Invariance, PTL

\* However the row of the kill menu was moved, the signal that Enter reads is one
\* of the array, unless there is no table at all; then it is sent to nobody.
THEOREM SignalIsInTable == Spec => []SignalInTable
<1>1. IInv => SignalInTable
      BY DEF IInv, Selection
<1> QED BY <1>1, Invariance, PTL

\* The highlighted row is the process Enter would signal, frame or no frame.
THEOREM HighlightIsSelected == Spec => []HighlightIsTarget
<1>1. IInv => HighlightIsTarget
      BY DEF IInv, Selection, LitOK, HighlightIsTarget
<1> QED BY <1>1, Invariance, PTL

\* A table that was printed shows its cursor and wastes no line.
THEOREM CursorIsShown == Spec => []CursorShown
<1>1. IInv => CursorShown
      BY DEF IInv, Selection
<1> QED BY <1>1, Invariance, PTL

\* In the GPU view the kill menu keeps the process it was opened for.
THEOREM KillTargetKept == Spec => []GpuTargetKept
<1>1. IInv => GpuTargetKept
      BY DEF IInv, Selection, GpuTarget, GpuTargetKept
<1> QED BY <1>1, Invariance, PTL
=============================================================================
