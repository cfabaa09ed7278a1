------------------------------- MODULE NpuGpus ------------------------------
(* Accelerators: MetaX, Ascend, TPU, Tenstorrent, and the NPUs of Qualcomm  *)
(* and Rockchip boards (extract_gpuinfo_metax.c, _ascend.c, _tpu.c,         *)
(* _tenstorrent.c, extract_npuinfo_qualcomm.c, _rockchip.c).                *)
EXTENDS GpuInfo

-----------------------------------------------------------------------------
(* MetaX: a library opened like NVIDIA's.                                   *)

MetaxInit(ok) == TemplateInit(ok)

MetaxShutdown(st) == Freed(DlClose(st))

\* A card may have only limited information.
MetaxCard(st, ok) == IF ok \cap {"info", "limited_info"} # {} THEN Listed(st) ELSE st

\* The library is asked for the number of cards, and always tells one.
MetaxHandles(st, ok, cards) ==
  IF st.handle THEN [found |-> TRUE, st |-> FoldLeft(MetaxCard, Allocated(st), cards)]
  ELSE [found |-> FALSE, st |-> st]

MetaxStaticQueries == {"pcie_max", "hot_limit"}

MetaxStatic(ok) ==
  {"device_name"} \cup Given("pcie_max" \in ok, {"max_pcie_gen", "max_pcie_link_width"})
  \cup Given("hot_limit" \in ok, {"temperature_shutdown_threshold",
                                  "temperature_slowdown_threshold"})

MetaxOwnQueries ==
  {"gpu_clock_speed", "gpu_clock_speed_max", "mem_clock_speed", "mem_clock_speed_max",
   "gpu_util_rate", "encoder_rate", "decoder_rate", "fan_speed", "gpu_temp", "power_draw"}

MetaxDynamicQueries ==
  MetaxOwnQueries \cup {"memory", "pcie", "pcie_speed_known", "throughput",
                        "power_limit_call", "power_limit", "known_brand"}

\* The limit of the power is asked for, or known from the brand when the
\* library is too old to be asked.
MetaxPowerLimit(ok) ==
  Given((IF "power_limit_call" \in ok THEN "power_limit" ELSE "known_brand") \in ok,
        {"power_draw_max"})

MetaxDynamic(old, ok) ==
  Answered(MetaxOwnQueries, ok) \cup Given("memory" \in ok, MemoryFields)
  \cup Given("pcie" \in ok, {"pcie_link_width"})
  \cup Given({"pcie", "pcie_speed_known"} \subseteq ok, {"pcie_link_gen"})
  \cup Given("throughput" \in ok, {"pcie_rx", "pcie_tx"}) \cup MetaxPowerLimit(ok)

\* A library that cannot tell its processes ends the program.
MetaxExits(ok) == "processes" \notin ok

MetaxRunning(old, ok, mode) == {"gpu_memory_usage"}

-----------------------------------------------------------------------------
(* Ascend: linked with its library; every card tells its number of devices  *)
(* before any is listed.                                                    *)

AscendInit(ok) == [up |-> "start" \in ok, st |-> Closed]

AscendShutdown(st) == Freed(st)

AscendCard(st, ok) == Listed(st)

AscendHandles(st, ok, cards) ==
  IF "count" \in ok /\ cards # <<>> /\ \A i \in DOMAIN cards : "devices" \in cards[i]
  THEN [found |-> TRUE, st |-> FoldLeft(AscendCard, Allocated(st), cards)]
  ELSE [found |-> FALSE, st |-> st]

\* The type of memory is known when one of its kinds answers with a size.
AscendMemoryKind(ok) == ok \cap {"hbm", "ddr"}

AscendStatic(ok) ==
  Given("chip_info" \in ok, {"device_name"})
  \cup Given(AscendMemoryKind(ok) # {}, {"memory_type"})

AscendOwnQueries ==
  {"gpu_clock_speed", "gpu_clock_speed_max", "gpu_util_rate", "gpu_temp", "power_draw"}

AscendDynamicQueries == AscendOwnQueries \cup {"hbm", "ddr", "mem_clock_speed"}

\* The clock of the memory comes with the memory.
AscendMemory(ok) ==
  Given(AscendMemoryKind(ok) # {}, MemoryFields \cup Answered({"mem_clock_speed"}, ok))

AscendDynamic(old, ok) == Answered(AscendOwnQueries, ok) \cup AscendMemory(ok)

AscendRunning(old, ok, mode) == Given("processes" \in ok, {"gpu_memory_usage"})

-----------------------------------------------------------------------------
(* TPU: one answer of the library for all chips is kept for 900 ms.         *)

\* A library whose symbols are missing, or that finds no chip, stays open.
TpuInit(ok) ==
  [up |-> {"library", "symbols", "chips"} \subseteq ok,
   st |-> IF "library" \in ok THEN [Closed EXCEPT !.open = TRUE] ELSE Closed]

\* The handle is not kept, and the library never closed.
TpuShutdown(st) == Freed(st)

TpuCard(st, ok) == Listed(st)

TpuHandles(st, ok, cards) ==
  IF cards # <<>> THEN [found |-> TRUE, st |-> FoldLeft(TpuCard, Allocated(st), cards)]
  ELSE [found |-> FALSE, st |-> st]

TpuStatic(ok) == {"device_name"}

TpuFields == {"gpu_util_rate"} \cup MemoryFields

\* The fields are valid whatever the cache holds, after a failure the numbers
\* of an earlier refresh.
TpuDynamic(old, ok) == old \cup TpuFields

\* The row is zeroed only when the array is allocated.
TpuRunning(old, ok, mode) == IF "processes" \in ok THEN old \cup {"gpu_memory_usage"} ELSE {}

-----------------------------------------------------------------------------
(* Tenstorrent: everything is read from sysfs.                              *)

TenstorrentInit(ok) == [up |-> "class_directory" \in ok, st |-> Closed]

TenstorrentShutdown(st) == Freed(st)

TenstorrentCard(st, ok) == IF "pci_path" \in ok THEN Listed(st) ELSE st

TenstorrentHandles(st, ok, cards) ==
  IF "count" \in ok /\ cards # <<>>
  THEN LET after == FoldLeft(TenstorrentCard, Allocated(st), cards)
       IN  [found |-> after.count > 0, st |-> after]
  ELSE [found |-> FALSE, st |-> st]

TenstorrentStaticQueries ==
  {"max_pcie_gen", "max_pcie_link_width", "hwmon", "temperature_slowdown_threshold"}

TenstorrentStatic(ok) ==
  {"device_name"} \cup Answered({"max_pcie_gen", "max_pcie_link_width"}, ok)
  \cup Given("hwmon" \in ok, Answered({"temperature_slowdown_threshold"}, ok))

TenstorrentHwmon == {"gpu_temp", "power_draw", "power_draw_max", "fan_rpm"}

TenstorrentDynamicQueries ==
  TenstorrentHwmon \cup {"hwmon", "gpu_clock_speed", "pcie_link_gen", "pcie_link_width",
                         "rx_words", "tx_words", "earlier_sample"}

\* A rate needs both counters now and at some refresh before.
TenstorrentRates(ok) ==
  Given({"rx_words", "tx_words", "earlier_sample"} \subseteq ok, {"pcie_rx", "pcie_tx"})

TenstorrentDynamic(old, ok) ==
  Given("hwmon" \in ok, Answered(TenstorrentHwmon, ok))
  \cup Answered({"gpu_clock_speed", "pcie_link_gen", "pcie_link_width"}, ok)
  \cup TenstorrentRates(ok)

\* Rows have a pid and nothing else.
TenstorrentRunning(old, ok, mode) == {}

-----------------------------------------------------------------------------
(* The NPU of a Qualcomm board: one, reached through an open context.       *)

QualcommInit(ok) == [up |-> TRUE, st |-> Closed]

QualcommShutdown(st) == Freed(DlClose(st))

QualcommHandles(st, ok, cards) ==
  IF "context" \in ok THEN [found |-> TRUE, st |-> Listed(Opened(Allocated(st)))]
  ELSE [found |-> FALSE, st |-> st]

QualcommStatic(ok) == Given("architecture" \in ok, {"device_name"})

\* /proc/meminfo, line by line.
SystemMemory(ok) ==
  Answered({"total_memory", "free_memory"}, ok)
  \cup Given({"total_memory", "free_memory"} \subseteq ok, {"used_memory", "mem_util_rate"})

QualcommDynamicQueries ==
  {"profile", "thermal_zones", "meminfo", "total_memory", "free_memory"}

\* Without the data of the profiler nothing else is read.
QualcommDynamic(old, ok) ==
  Given("profile" \in ok,
        {"gpu_util_rate", "gpu_clock_speed", "hvx_util_rate", "hmx_util_rate"}
        \cup Given("thermal_zones" \in ok, {"gpu_temp"})
        \cup Given("meminfo" \in ok, SystemMemory(ok)))

\* There are no rows.
QualcommRunning(old, ok, mode) == {}

-----------------------------------------------------------------------------
(* The NPU of a Rockchip board: debugfs and sysfs.                          *)

RockchipInit(ok) == [up |-> "load_file" \in ok, st |-> Closed]

RockchipShutdown(st) == Freed(st)

RockchipHandles(st, ok, cards) == [found |-> TRUE, st |-> Listed(Allocated(st))]

RockchipStatic(ok) == {"device_name"}

RockchipDynamicQueries == {"gpu_util_rate", "meminfo", "total_memory", "free_memory"}

RockchipDynamic(old, ok) ==
  Answered({"gpu_util_rate"}, ok) \cup {"gpu_clock_speed", "gpu_clock_speed_max", "gpu_temp"}
  \cup Given("meminfo" \in ok, SystemMemory(ok))

RockchipRunning(old, ok, mode) == {}
=============================================================================
