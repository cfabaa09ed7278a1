------------------------------- MODULE MCPlots ------------------------------
(* Components that share no variable in one run: the initial state says     *)
(* which of them goes on, the others stay as they start.                    *)
EXTENDS Plots, SetupWindow, OptionsFile, SysStats, CoreGrid, SortOrder, TLC

VARIABLE part

\* The devices of Plots: only that part changes a state that has them.
Alike == Permutations(Devices)

\* Field 2 is not looked for when there is none to sort by.
MCPreference == <<3, 1>>

MCGridCores == 1..140

\* A state that each part may start in.
FirstPlots ==
  /\ monitored = SetToSeq(Devices) /\ nonMonitored = <<>>
  /\ gpu_specific_opts =
       [i \in DOMAIN monitored |-> [linkedGpu |-> monitored[i], to_draw |-> {}, doNotMonitor |-> FALSE]]
  /\ saved_data_ring = EmptyRing(Len(monitored))
  /\ has_monitored_set_changed = FALSE /\ visible = FALSE /\ pc = "top"

FirstSetup ==
  /\ drawing = <<{}>> /\ process_fields_displayed = {} /\ sort_processes_by = NoField
  /\ open = FALSE /\ cursor = Home /\ drawn = FALSE

FirstFile ==
  /\ found = SetToSeq(SavedGpus)
  /\ options = [sort |-> NoField, fields |-> {},
                gpus |-> [g \in SavedGpus |-> [draw |-> {}, monitor |-> TRUE]]]
  /\ file = <<>> /\ saved = [gpus |-> {}, options |-> options]
  /\ whole = FALSE /\ restarted = FALSE

FirstSort ==
  /\ view = "all" /\ field = "pid" /\ descending = FALSE /\ filter = FALSE
  /\ listed = <<>> /\ shown = <<>>

MCInit ==
  /\ part \in {"plots", "setup", "file", "stats", "grid", "sort"}
  /\ IF part = "plots" THEN Init ELSE FirstPlots
  /\ IF part = "setup" THEN SetupInit ELSE FirstSetup
  /\ IF part = "file" THEN FileInit ELSE FirstFile
  /\ StatsInit /\ (part # "stats" => online = Cores)
  /\ IF part = "grid" THEN GridInit ELSE grid = <<1, 80>>
  /\ IF part = "sort" THEN SortInit ELSE FirstSort

MCNext ==
  /\ UNCHANGED part
  /\ \/ part = "plots" /\ Next /\ UNCHANGED <<setupVars, fileVars, statsVars, grid, sortVars>>
     \/ part = "setup" /\ SetupNext /\ UNCHANGED <<vars, fileVars, statsVars, grid, sortVars>>
     \/ part = "file" /\ FileNext /\ UNCHANGED <<vars, setupVars, statsVars, grid, sortVars>>
     \/ part = "stats" /\ StatsNext /\ UNCHANGED <<vars, setupVars, fileVars, grid, sortVars>>
     \/ part = "grid" /\ Resize /\ UNCHANGED <<vars, setupVars, fileVars, statsVars, sortVars>>
     \/ part = "sort" /\ SortNext /\ UNCHANGED <<vars, setupVars, fileVars, statsVars, grid>>

MCSpec == MCInit /\ [][MCNext]_<<vars, setupVars, fileVars, statsVars, grid, sortVars, part>>
=============================================================================
