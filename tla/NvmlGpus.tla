------------------------------- MODULE NvmlGpus -----------------------------
(* NVIDIA, Enflame and Iluvatar devices (extract_gpuinfo_nvidia.c,          *)
(* extract_gcuinfo_enflame.c, extract_gpuinfo_ixml.c): three libraries with *)
(* one kind of interface.                                                   *)
EXTENDS GpuInfo

-----------------------------------------------------------------------------
(* Lifecycle.  A library whose initialisation failed stays open, and is     *)
(* closed by the shutdown at the end of the program.                        *)

NvidiaInit(ok) == TemplateInit(ok)
EnflameInit(ok) == TemplateInit(ok)
IxmlInit(ok) == TemplateInit(ok)

\* Mutant: the handle of the closed library is kept.
NvidiaShutdown_KeepsHandle(st) ==
  IF ~st.handle THEN Freed(st)
  ELSE Freed([st EXCEPT !.open = FALSE, !.closedTwice = @ \/ ~st.open])

NvidiaShutdown(st) == Freed(DlClose(st))
EnflameShutdown(st) == Freed(DlClose(st))
IxmlShutdown(st) == Freed(DlClose(st))

\* A card without a handle or a bus id is left out, and its place reused.
NvidiaCard(st, ok) == IF {"handle", "pci"} \subseteq ok THEN Listed(st) ELSE st
EnflameCard(st, ok) == IF {"handle", "pci"} \subseteq ok THEN Listed(st) ELSE st

\* The bus id is only a name here.
IxmlCard(st, ok) == IF "handle" \in ok THEN Listed(st) ELSE st

NvidiaHandles(st, ok, cards) == HandlesOf(NvidiaCard, st, ok, cards)

EnflameHandles(st, ok, cards) == HandlesOf(EnflameCard, st, ok, cards)

IxmlHandles(st, ok, cards) == HandlesOf(IxmlCard, st, ok, cards)

-----------------------------------------------------------------------------
(* Static information.                                                      *)

LinkAndThresholds ==
  {"device_name", "max_pcie_gen", "max_pcie_link_width",
   "temperature_shutdown_threshold", "temperature_slowdown_threshold"}

\* An architecture without a name known here is left out ("architecture_name").
NvidiaStatic(ok) ==
  Answered(LinkAndThresholds, ok) \cup
  Given({"architecture", "architecture_name"} \subseteq ok, {"device_architecture"})

EnflameStatic(ok) == Answered(LinkAndThresholds, ok)

\* Nothing is reset: populate_static_info is called once on zeroed memory.
IxmlStatic(ok) == Answered(LinkAndThresholds, ok)

-----------------------------------------------------------------------------
(* Dynamic information.  old is the set of valid fields before the refresh. *)

\* Answers that are copied to a field of the same name.
NvmlQueries ==
  {"gpu_clock_speed_max", "mem_clock_speed", "mem_clock_speed_max", "encoder_rate",
   "decoder_rate", "pcie_rx", "pcie_tx", "fan_speed", "gpu_temp", "power_draw",
   "power_draw_max"}

\* The larger of the clocks of graphics and SM that are known.
NvmlClock(ok) == Given(ok \cap {"graphics_clock", "sm_clock"} # {}, {"gpu_clock_speed"})

\* set_unified_system_memory_info.
NvidiaUnifiedMemory(ok) == Given("meminfo" \in ok, MemoryFields)

\* The second version of the call is the one that counts if it answers; a
\* device without memory of its own ("uma") reports the system's.
NvidiaMemory(ok) ==
  IF ok \cap {"memory_v2", "memory_v1"} = {} THEN {}
  ELSE IF "uma" \in ok THEN NvidiaUnifiedMemory(ok) ELSE MemoryFields

\* The link is reported only for a device on a PCIe bus, or when the library
\* is too old to say ("bus_type_call").
NvidiaLink(ok) ==
  Given("bus_type_call" \in ok => "bus_is_pcie" \in ok,
        Answered({"pcie_link_gen", "pcie_link_width"}, ok))

NvidiaDynamicQueries ==
  NvmlQueries \cup {"graphics_clock", "sm_clock", "gpu_util_rate", "memory_v2", "memory_v1",
                    "uma", "meminfo", "bus_type_call", "bus_is_pcie", "pcie_link_gen",
                    "pcie_link_width", "ecc_corrected", "ecc_uncorrected",
                    "multi_instance_mode"}

NvidiaDynamic(old, ok) ==
  NvmlClock(ok) \cup NvidiaMemory(ok) \cup NvidiaLink(ok) \cup
  Answered(NvmlQueries \cup {"gpu_util_rate", "ecc_corrected", "ecc_uncorrected",
                             "multi_instance_mode"}, ok)

\* When the first version that exists fails, or says that there is no memory,
\* the memory is counted from the processes and what the system has left.
EnflameMemory(ok) ==
  LET asked == IF "has_memory_v2" \in ok THEN "memory_v2" ELSE "memory_v1" IN
  IF asked \in ok /\ "uma" \notin ok THEN MemoryFields ELSE Given("meminfo" \in ok, MemoryFields)

EnflameDynamicQueries ==
  NvmlQueries \cup {"graphics_clock", "sm_clock", "gpu_util_rate", "has_memory_v2", "memory_v2",
                    "memory_v1", "uma", "meminfo", "pcie_link_gen", "pcie_link_width",
                    "multi_instance_mode"}

EnflameDynamic(old, ok) ==
  NvmlClock(ok) \cup EnflameMemory(ok) \cup
  Answered(NvmlQueries \cup {"gpu_util_rate", "pcie_link_gen", "pcie_link_width",
                             "multi_instance_mode"}, ok)

IxmlMemory(ok) ==
  Given((IF "has_memory_v2" \in ok THEN "memory_v2" ELSE "memory_v1") \in ok,
        {"total_memory", "free_memory", "used_memory"})

\* A power is taken for watts or milliwatts, or thrown away.
IxmlPower(ok) == Given("power_plausible" \in ok, Answered({"power_draw", "power_draw_max"}, ok))

IxmlDynamicQueries ==
  (NvmlQueries \ {"gpu_clock_speed_max"}) \cup
  {"utilization", "has_memory_v2", "memory_v2", "memory_v1", "pcie_link_gen",
   "pcie_link_width", "power_plausible", "graphics_clock", "sm_clock",
   "max_graphics_clock", "max_sm_clock"}

\* Nothing is reset: a field once valid stays valid.
IxmlDynamic(old, ok) ==
  old \cup Given("utilization" \in ok, {"gpu_util_rate", "mem_util_rate"})
  \cup IxmlMemory(ok) \cup IxmlPower(ok) \cup NvmlClock(ok)
  \cup Given(ok \cap {"max_graphics_clock", "max_sm_clock"} # {}, {"gpu_clock_speed_max"})
  \cup Answered({"pcie_link_gen", "pcie_link_width", "pcie_rx", "pcie_tx", "fan_speed",
                 "gpu_temp", "mem_clock_speed", "mem_clock_speed_max", "encoder_rate",
                 "decoder_rate"}, ok)

-----------------------------------------------------------------------------
(* Rows of processes: which fields a row has; {} also stands for no row.    *)
(* The array is zeroed before it is filled.                                 *)

\* get_process_utilization: a row without a sample is given 0, unless the
\* library was asked and did not answer.
UtilizationOf(ok) ==
  Given("utilization_call" \in ok => "samples" \in ok, UsageFields)

NvmlProcessQueries == {"graphics", "compute", "utilization_call", "samples", "mig"}

\* mode is whether the field multi_instance_mode is valid.
NvidiaRunning(old, ok, mode) ==
  Given(ok \cap {"graphics", "compute"} # {},
        {"gpu_memory_usage"} \cup Given(~(mode /\ "mig" \in ok), UtilizationOf(ok)))

\* The mode is read whether it is valid or not.
EnflameRunning(old, ok, mode) ==
  Given(ok \cap {"graphics", "compute"} # {},
        {"gpu_memory_usage"} \cup Given("mig" \notin ok, UtilizationOf(ok)))

IxmlProcessQueries == {"graphics", "compute", "utilization_call", "samples"}

\* "samples" is the first call, for their number; after a failure of the second
\* every row is given 0.
IxmlRunning(old, ok, mode) ==
  Given(ok \cap {"graphics", "compute"} # {}, {"gpu_memory_usage"} \cup UtilizationOf(ok))
=============================================================================
