---------------------------- MODULE OptionsFile -----------------------------
(* The configuration file (interface_options.c, nvtop.c): what F12 writes,  *)
(* line by line into the emptied file, and what the next start makes of it. *)
(* Writing may end early: no call is checked, and nothing is renamed.  The  *)
(* next start may find other devices, in another order.                     *)
EXTENDS ChartOptions, ProcessOptions

CONSTANTS
  SavedGpus,      \* all devices there may be, known by their pdev
  DefaultDraw,    \* plot_default_draw_info
  DefaultFields,  \* process_default_displayed_field
  CpuPercent,     \* the field that is sorted by at first
  NoMetric        \* "none"

ASSUME DefaultsAssumption ==
  /\ DefaultDraw \in ToDraw /\ NoMetric \notin Metrics
  /\ CpuPercent \in DefaultFields /\ DefaultFields \subseteq Fields
\* CPU% is what is looked for first to sort by.
ASSUME SavedAssumption ==
  IsFiniteSet(SavedGpus) /\ MaxLines > 1 /\ \E i \in DOMAIN SortPreference : SortPreference[i] = CpuPercent

VARIABLES
  found,     \* the devices of this start, in the order of gpu_specific_opts
  options,
  file,      \* its lines
  \* history
  saved,     \* the devices and options of the last F12
  whole,     \* it was written to its end
  restarted  \* the options are those that were read

fileVars == <<found, options, file, saved, whole, restarted>>

-----------------------------------------------------------------------------
(* save_interface_options_to_config_file.                                   *)

\* The loops over the two enums come across what is set in ascending order.
Ascending(S) ==
  CHOOSE s \in [1..Cardinality(S) -> S] : \A i, j \in DOMAIN s : i < j => s[i] < s[j]

DeviceLines(g, choice) ==
  <<<<"Pdev", g>>, <<"Monitor", choice.monitor>>>>
  \o (IF choice.draw = {} THEN <<<<"ShownInfo", NoMetric>>>>
      ELSE [i \in 1..Cardinality(choice.draw) |-> <<"ShownInfo", Ascending(choice.draw)[i]>>])

Lines(order, o) ==
  <<<<"SortBy", o.sort>>>>
  \o (IF o.fields = {} THEN <<<<"DisplayField", NoField>>>>
      ELSE [i \in 1..Cardinality(o.fields) |-> <<"DisplayField", Ascending(o.fields)[i]>>])
  \o FlattenSeq([i \in 1..Len(order) |-> DeviceLines(order[i], o.gpus[order[i]])])

-----------------------------------------------------------------------------
(* load_interface_options_from_config_file, and main after it.  "told" are   *)
(* the bits beyond the last metric and the last field: the file says         *)
(* something of them.                                                        *)

Unread(order) ==
  [sort |-> CpuPercent, fields |-> {}, told |-> FALSE, selected |-> {},
   gpus |-> [g \in ToSet(order) |-> [draw |-> {}, told |-> FALSE, monitor |-> TRUE]]]

\* Mutant: "none" is not looked for among the metrics.
Shown_NoNone(choice, m) ==
  LET draw == IF m \in Metrics THEN AddDraw(m, choice.draw) ELSE choice.draw IN
  [choice EXCEPT !.draw = draw,
                 !.told = @ \/ (m \in Metrics /\ Cardinality(draw) < MaxLines)]

\* The bit is one more metric to plot_add_draw_info.
Shown(choice, m) ==
  LET draw == IF m \in Metrics THEN AddDraw(m, choice.draw) ELSE choice.draw IN
  [choice EXCEPT !.draw = draw, !.told = @ \/ Cardinality(draw) < MaxLines]

\* nvtop_option_ini_handler.  No field is called "none" here.
Read(st, line) ==
  LET value == line[2] IN
  CASE line[1] = "SortBy" -> IF value \in Fields THEN [st EXCEPT !.sort = value] ELSE st
    [] line[1] = "DisplayField" ->
         IF value \in Fields THEN [st EXCEPT !.fields = @ \cup {value}, !.told = TRUE] ELSE st
    [] line[1] = "Pdev" -> [st EXCEPT !.selected = {value} \cap DOMAIN st.gpus]
    [] line[1] = "Monitor" ->
         [st EXCEPT !.gpus = [g \in DOMAIN @ |->
            IF g \in st.selected THEN [@[g] EXCEPT !.monitor = value] ELSE @[g]]]
    [] line[1] = "ShownInfo" ->
         [st EXCEPT !.gpus = [g \in DOMAIN @ |->
            IF g \in st.selected THEN Shown(@[g], value) ELSE @[g]]]

\* Defaults are put where nothing was told, the order is fixed before that.
Finished(st, order) ==
  LET monitored == {g \in DOMAIN st.gpus : st.gpus[g].monitor} IN
  [sort |-> IF st.sort \in st.fields THEN st.sort ELSE DefaultSort(st.fields),
   fields |-> IF st.told THEN st.fields ELSE DefaultFields,
   gpus |-> [g \in DOMAIN st.gpus |->
               [draw |-> IF st.gpus[g].told THEN st.gpus[g].draw ELSE DefaultDraw,
                monitor |-> st.gpus[g].monitor \/ (monitored = {} /\ g = Head(order))]]]

Loaded(lines, order) == Finished(FoldLeft(Read, Unread(order), lines), order)

-----------------------------------------------------------------------------
(* The program runs, saves, and is started again.                           *)

GpuChoices == [draw : ToDraw, monitor : BOOLEAN]

\* Any devices, and any options that the setup window leads to; some device is
\* monitored.
FileInit ==
  /\ \E present \in (SUBSET SavedGpus) \ {{}} : found \in SetToSeqs(present)
  /\ \E fields \in SUBSET Fields : \E sort \in fields \cup {DefaultSort(fields)} :
       /\ SortIsShown(sort, fields)
       /\ options \in {[sort |-> sort, fields |-> fields, gpus |-> gpus] :
                         gpus \in {c \in [ToSet(found) -> GpuChoices] : \E g \in ToSet(found) : c[g].monitor}}
  /\ file = <<>> /\ saved = [gpus |-> {}, options |-> options]
  /\ whole = FALSE /\ restarted = FALSE

\* F12; the file may have been left after any line.
SaveFile ==
  /\ ~restarted
  /\ LET lines == Lines(found, options) IN
     \E n \in 0..Len(lines) : file' = SubSeq(lines, 1, n) /\ whole' = (n = Len(lines))
  /\ saved' = [gpus |-> ToSet(found), options |-> options]
  /\ UNCHANGED <<found, options, restarted>>

Restart ==
  /\ saved.gpus # {} /\ restarted' = TRUE
  /\ \E present \in (SUBSET SavedGpus) \ {{}} : \E order \in SetToSeqs(present) :
       found' = order /\ options' = Loaded(file, order)
  /\ UNCHANGED <<file, saved, whole>>

FileNext == SaveFile \/ Restart

FileSpec == FileInit /\ [][FileNext]_fileVars

-----------------------------------------------------------------------------
(* Properties.                                                              *)

\* A device that the file knows.  The draw values are those saved, or, of a file
\* that ends early, some of them or the default ones.  It is monitored as
\* saved, or again, as by default; so is the first device when no other one is.
DeviceComesBack(g, choice, before) ==
  /\ \/ choice.draw \subseteq before.draw /\ (choice.draw = {} => before.draw = {})
     \/ ~whole /\ choice.draw = DefaultDraw
  /\ before.monitor => choice.monitor
  /\ whole => /\ choice.draw = before.draw
              /\ choice.monitor # before.monitor =>
                   g = Head(found) /\ \A d \in ToSet(found) \ {g} : ~options.gpus[d].monitor

\* The columns are those saved, or, of a file that ends early, some of them,
\* with the order that goes with them.  Where none was read, or none was saved,
\* they are the default ones, and there is nothing to sort by: the order
\* was fixed before.
ColumnsComeBack(before) ==
  \/ /\ options.fields # {} /\ options.fields \subseteq before.fields
     /\ whole => options.fields = before.fields
     /\ options.sort = IF before.sort \in options.fields THEN before.sort ELSE DefaultSort(options.fields)
  \/ /\ ~whole \/ before.fields = {}
     /\ options.fields = DefaultFields /\ options.sort = NoField

\* "Follow up by saving the preference (F12)": what was saved is there after
\* the next start, wherever the file ends and whatever other devices have come
\* or gone, as far as DeviceComesBack and ColumnsComeBack say; devices that the
\* file does not know have the defaults, and some device is monitored.
RestartKeepsOptions ==
  restarted =>
    LET known == saved.gpus \cap ToSet(found) IN
    /\ \A g \in known : DeviceComesBack(g, options.gpus[g], saved.options.gpus[g])
    /\ \A g \in ToSet(found) \ known : options.gpus[g] = [draw |-> DefaultDraw, monitor |-> TRUE]
    /\ \E g \in ToSet(found) : options.gpus[g].monitor
    /\ ColumnsComeBack(saved.options)
=============================================================================
