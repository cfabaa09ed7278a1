-------------------------------- MODULE Plots -------------------------------
(* The devices that are monitored, the options kept for each, and the ring  *)
(* buffers the plots are drawn from (interface_options.c, interface.c,      *)
(* interface_setup_win.c, nvtop.c).                                         *)
(*                                                                          *)
(* Nothing in a ring says what it holds: series k of device i holds the     *)
(* k-th metric drawn for the device that is i-th in the list of monitored   *)
(* devices.  The setup window changes both, while the main loop saves.      *)
(* A stored value is represented by where it came from, <<device, metric>>, *)
(* and a series by the History it was shown to be (RingBuffer).             *)
EXTENDS ChartOptions, Sequences, SequencesExt

CONSTANTS
  Devices,
  Depth       \* the values a series remembers

ASSUME DevicesAssumption == IsFiniteSet(Devices) /\ Devices # {}
ASSUME DepthAssumption == Depth \in Nat \ {0}

VARIABLES
  monitored, nonMonitored,     \* the two lists of devices
  gpu_specific_opts,           \* in the order of monitored \o nonMonitored
  has_monitored_set_changed,
  saved_data_ring,             \* [device index][series]
  visible,                     \* the setup window
  pc

vars == <<monitored, nonMonitored, gpu_specific_opts, has_monitored_set_changed,
          saved_data_ring, visible, pc>>

Options == [linkedGpu : Devices, to_draw : ToDraw, doNotMonitor : BOOLEAN]
Samples == Devices \X Metrics

TypeOK ==
  /\ monitored \in Seq(Devices) /\ nonMonitored \in Seq(Devices)
  /\ gpu_specific_opts \in Seq(Options)
  /\ has_monitored_set_changed \in BOOLEAN
  /\ saved_data_ring \in Seq([1..MaxLines -> Seq(Samples)])
  /\ visible \in BOOLEAN
  /\ pc \in {"top", "save", "key"}

\* The series the k-th metric of a set goes to, in the order of the enum.
SeriesOf(m, S) == Cardinality({n \in S : n <= m})

EmptyRing(count) == [i \in 1..count |-> [k \in 1..MaxLines |-> <<>>]]

-----------------------------------------------------------------------------
(* interface_check_and_fix_monitored_gpus: the lists follow the options, and *)
(* the options the lists.  A state of its loops is                          *)
(* [mon, non, opts, idx, count].                                            *)

\* The element at i moved to j, those in between by one place.
Moved(s, i, j) == InsertAt(RemoveAt(s, i), j, s[i])

\* First loop: a monitored device that is not to be leaves for the end of the
\* other list, its options for the end of the array.
Leave(st, device) ==
  IF st.opts[st.idx].doNotMonitor
  THEN [st EXCEPT !.non = Append(@, device),
                  !.opts = Moved(@, st.idx, Len(@))]
  ELSE [st EXCEPT !.mon = Append(@, device), !.idx = @ + 1]

\* Mutant: the options of a device that comes back stay where they are.
Return_Stays(st, device) ==
  IF ~st.opts[st.idx].doNotMonitor
  THEN [st EXCEPT !.mon = Append(@, device), !.count = @ + 1, !.idx = @ + 1]
  ELSE [st EXCEPT !.non = Append(@, device), !.idx = @ + 1]

\* Second loop: a device of the other list that is to be monitored comes to
\* the end of the first, its options after those of the monitored devices.
Return(st, device) ==
  IF ~st.opts[st.idx].doNotMonitor
  THEN [st EXCEPT !.mon = Append(@, device),
                  !.opts = Moved(@, st.idx, st.count + 1),
                  !.count = @ + 1, !.idx = @ + 1]
  ELSE [st EXCEPT !.non = Append(@, device), !.idx = @ + 1]

\* Mutant: nothing is done when no device is left to monitor.
KeepOne_Not(st) == st

\* "We keep at least one monitored gpu at all times."
KeepOne(st) ==
  IF st.count > 0 THEN st
  ELSE [st EXCEPT !.mon = <<Head(st.non)>>, !.non = Tail(@),
                  !.opts = [@ EXCEPT ![1].doNotMonitor = FALSE], !.count = 1]

CheckAndFix(mon, non, opts) ==
  LET left == FoldLeft(Leave, [mon |-> <<>>, non |-> non, opts |-> opts,
                               idx |-> 1, count |-> 0], mon)
      back == FoldLeft(Return, [left EXCEPT !.non = <<>>, !.count = Len(left.mon)], left.non)
  IN KeepOne(back)

\* What the program starts with: the options of the configuration file, and
\* one pass over them (nvtop.c).
Init ==
  /\ \E order \in SetToSeqs(Devices) :
       \E draw \in [Devices -> ToDraw], off \in [Devices -> BOOLEAN] :
         LET fixed == CheckAndFix(order, <<>>,
                        [i \in 1..Len(order) |->
                          [linkedGpu |-> order[i], to_draw |-> draw[order[i]],
                           doNotMonitor |-> off[order[i]]]])
         IN /\ monitored = fixed.mon
            /\ nonMonitored = fixed.non
            /\ gpu_specific_opts = fixed.opts
            /\ saved_data_ring = EmptyRing(fixed.count)
  /\ has_monitored_set_changed = FALSE
  /\ visible = FALSE
  /\ pc = "top"

-----------------------------------------------------------------------------
(* The main loop.                                                           *)

\* The top of the loop: a resize closes the setup window, and once it is
\* closed the interface is built anew for the devices to monitor.
Top ==
  /\ pc = "top" /\ pc' = "save"
  /\ visible' \in {visible, FALSE}
  /\ IF ~visible' /\ has_monitored_set_changed
     THEN LET fixed == CheckAndFix(monitored, nonMonitored, gpu_specific_opts) IN
          /\ monitored' = fixed.mon /\ nonMonitored' = fixed.non
          /\ gpu_specific_opts' = fixed.opts
          /\ has_monitored_set_changed' = FALSE
          /\ saved_data_ring' = EmptyRing(fixed.count)
     ELSE UNCHANGED <<monitored, nonMonitored, gpu_specific_opts,
                      has_monitored_set_changed, saved_data_ring>>

\* interface_ring_buffer_push, by what History says of it.
Remember(series, v) ==
  IF Len(series) < Depth THEN Append(series, v) ELSE Append(Tail(series), v)

\* save_current_data_to_ring: one value for every metric drawn, of every
\* monitored device; gpu_specific_opts is read at the device's index.
Save ==
  /\ pc = "save" /\ pc' = "key"
  /\ saved_data_ring' = [i \in 1..Len(saved_data_ring) |->
       [k \in 1..MaxLines |->
         LET drawn == {m \in gpu_specific_opts[i].to_draw :
                         SeriesOf(m, gpu_specific_opts[i].to_draw) = k}
         IN IF drawn = {} THEN saved_data_ring[i][k]
            ELSE Remember(saved_data_ring[i][k],
                          <<monitored[i], CHOOSE m \in drawn : TRUE>>)]]
  /\ UNCHANGED <<monitored, nonMonitored, gpu_specific_opts,
                 has_monitored_set_changed, visible>>

\* The refresh interval has not passed yet.
NoSave ==
  /\ pc = "save" /\ pc' = "key"
  /\ UNCHANGED <<monitored, nonMonitored, gpu_specific_opts,
                 has_monitored_set_changed, saved_data_ring, visible>>

-----------------------------------------------------------------------------
(* Keys, after the screen was drawn.                                        *)

OtherKey ==
  /\ pc = "key" /\ pc' = "top"
  /\ UNCHANGED <<monitored, nonMonitored, gpu_specific_opts,
                 has_monitored_set_changed, saved_data_ring, visible>>

\* F2 opens the setup window; F2, Esc and a resize close it.
OpenOrCloseSetup ==
  /\ pc = "key" /\ pc' = "top"
  /\ visible' = ~visible
  /\ UNCHANGED <<monitored, nonMonitored, gpu_specific_opts,
                 has_monitored_set_changed, saved_data_ring>>

\* interface_ring_buffer_empty.
Emptied(ring, i) == [ring EXCEPT ![i] = [k \in 1..MaxLines |-> <<>>]]

\* Mutant: the ring is emptied only when a metric is removed.
ToggleMetric_KeepsRing(i, m) ==
  /\ pc = "key" /\ visible /\ pc' = "top"
  /\ i \in 1..Len(saved_data_ring)
  /\ gpu_specific_opts' = [gpu_specific_opts EXCEPT ![i].to_draw = Toggled(m, @)]
  /\ saved_data_ring' = IF m \in gpu_specific_opts[i].to_draw
                         THEN Emptied(saved_data_ring, i) ELSE saved_data_ring
  /\ UNCHANGED <<monitored, nonMonitored, has_monitored_set_changed, visible>>

\* Enter on a metric of one device.
ToggleMetric(i, m) ==
  /\ pc = "key" /\ visible /\ pc' = "top"
  /\ i \in 1..Len(saved_data_ring)
  /\ gpu_specific_opts' = [gpu_specific_opts EXCEPT ![i].to_draw = Toggled(m, @)]
  /\ saved_data_ring' = Emptied(saved_data_ring, i)
  /\ UNCHANGED <<monitored, nonMonitored, has_monitored_set_changed, visible>>

\* Enter on a metric of all devices: removed if every monitored one draws it.
ToggleMetricOfAll(m) ==
  /\ pc = "key" /\ visible /\ pc' = "top"
  /\ LET count == Len(saved_data_ring)
         all == \A i \in 1..count : m \in gpu_specific_opts[i].to_draw
     IN gpu_specific_opts' = [i \in 1..Len(gpu_specific_opts) |->
          IF i > count THEN gpu_specific_opts[i]
          ELSE [gpu_specific_opts[i] EXCEPT
                 !.to_draw = ToggledForAll(m, @, all)]]
  /\ saved_data_ring' = EmptyRing(Len(saved_data_ring))
  /\ UNCHANGED <<monitored, nonMonitored, has_monitored_set_changed, visible>>

\* Enter on a device of the list of devices: it takes effect when the setup
\* window is closed.
ToggleMonitored(i) ==
  /\ pc = "key" /\ visible /\ pc' = "top"
  /\ gpu_specific_opts' = [gpu_specific_opts EXCEPT ![i].doNotMonitor = ~@]
  /\ has_monitored_set_changed' = TRUE
  /\ UNCHANGED <<monitored, nonMonitored, saved_data_ring, visible>>

Key == \/ OtherKey \/ OpenOrCloseSetup
       \/ \E m \in Metrics : ToggleMetricOfAll(m)
       \/ \E i \in 1..Len(gpu_specific_opts) :
            ToggleMonitored(i) \/ \E m \in Metrics : ToggleMetric(i, m)

Next == Top \/ Save \/ NoSave \/ Key

Spec == Init /\ [][Next]_vars

-----------------------------------------------------------------------------
(* What must hold.                                                          *)

MonitoredAsAsked ==
  /\ ToSet(monitored) \cup ToSet(nonMonitored) = Devices
  /\ Len(monitored) + Len(nonMonitored) = Cardinality(Devices)
  /\ monitored # <<>>
  /\ ~has_monitored_set_changed =>
       \A i \in 1..Len(gpu_specific_opts) :
         gpu_specific_opts[i].doNotMonitor <=> i > Len(monitored)

\* "The array in options->gpu_specifi_opts is kept in sync with the lists"
\* (interface_options.c:67): through every change of the monitored set the
\* options found at a device's place in the two lists are that device's.  Every
\* device is in exactly one of them, at least one is monitored, and unless a
\* change is pending it is those the user wants.
OptionsInSync ==
  /\ Len(gpu_specific_opts) = Len(monitored) + Len(nonMonitored)
  /\ Len(saved_data_ring) = Len(monitored)
  /\ \A i \in 1..Len(gpu_specific_opts) :
       gpu_specific_opts[i].linkedGpu = (monitored \o nonMonitored)[i]
  /\ MonitoredAsAsked

\* A plot draws, under the name of a device and a metric, samples of that
\* metric of that device and no others, whatever was toggled meanwhile.
SeriesMatchLegend ==
  \A i \in 1..Len(monitored) :
    \A m \in gpu_specific_opts[i].to_draw :
      \A s \in ToSet(saved_data_ring[i][SeriesOf(m, gpu_specific_opts[i].to_draw)]) :
        s = <<monitored[i], m>>
=============================================================================
