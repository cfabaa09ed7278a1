------------------------------- MODULE AmdGpus ------------------------------
(* AMD devices: those of the amdgpu driver and the older ones of the radeon *)
(* driver (extract_gpuinfo_amdgpu.c, extract_gpuinfo_radeon.c).  Both go    *)
(* through libdrm and read sysfs.                                           *)
EXTENDS GpuInfo

-----------------------------------------------------------------------------
(* amdgpu: libdrm and its symbols are required.                             *)

AmdgpuInit(ok) == LibraryInit(ok, {"symbols"})

\* What is kept of each counted device is released, the count set to 0, and
\* the libraries closed.
AmdgpuShutdown(st) == DlClose([Freed(st) EXCEPT !.count = 0])

\* Mutant: the device is listed before libdrm_amdgpu has initialised it.
AmdgpuCard_Early(st, ok) ==
  IF {"amd", "node", "version", "driver", "initialised"} \subseteq ok THEN ListedWithCallback(st)
  ELSE IF {"amd", "node", "version", "driver"} \subseteq ok
  THEN [ListedWithCallback(st) EXCEPT !.count = st.count]
  ELSE st

\* A device of the system is listed when it is a PCI device of AMD, one of its
\* nodes opens, the driver is amdgpu, and libdrm_amdgpu is there to initialise
\* it ("initialised").
AmdgpuCard(st, ok) ==
  IF {"amd", "node", "version", "driver", "initialised"} \subseteq ok
  THEN ListedWithCallback(st) ELSE st

\* The devices are counted, then asked for.
AmdgpuHandles(st, ok, cards) ==
  IF st.handle /\ {"count", "devices"} \subseteq ok /\ cards # <<>>
  THEN [found |-> TRUE, st |-> FoldLeft(AmdgpuCard, Allocated(st), cards)]
  ELSE [found |-> FALSE, st |-> st]

\* gpuinfo_amdgpu_kfd_node_path and gpuinfo_amdgpu_kfd_architecture: a node of
\* the topology with the device's render minor, a target that is known.
AmdgpuArchitecture(ok) ==
  Given({"kfd_node", "gfx_target", "target_known"} \subseteq ok, {"device_architecture"})

\* The thresholds are read from hwmon, for both drivers.
HwmonThresholds(ok) ==
  Given("hwmon" \in ok,
        Answered({"temperature_slowdown_threshold", "temperature_shutdown_threshold"}, ok))

AmdPcieMax(ok) == Given("pcie_max" \in ok, {"max_pcie_link_width", "max_pcie_gen"})

\* A name comes from libdrm_amdgpu, from the table of nvtop, or from the driver.
AmdgpuStatic(ok) ==
  Given(ok \cap {"marketing_name", "name_in_table", "driver_description"} # {}, {"device_name"})
  \cup AmdgpuArchitecture(ok) \cup HwmonThresholds(ok) \cup AmdPcieMax(ok)

AmdgpuSensors == {"gpu_clock_speed", "mem_clock_speed", "gpu_util_rate", "gpu_temp",
                  "power_draw", "fan_speed"}

AmdgpuDynamicQueries ==
  AmdgpuSensors \cup {"gpu_info", "memory", "pcie_link", "pcie_bandwidth", "power_cap",
                      "power_cap_default"}

\* The current cap, or the default one when that is 0 or cannot be read.
AmdgpuPowerCap(ok) ==
  Given(ok \cap {"power_cap", "power_cap_default"} # {}, {"power_draw_max"})

AmdLink(ok) == Given("pcie_link" \in ok, {"pcie_link_width", "pcie_link_gen"})

\* Mutant: the memory is not reset with the rest.
AmdgpuDynamic_KeepsMemory(old, ok) ==
  (old \cap MemoryFields) \cup Answered(AmdgpuSensors, ok)
  \cup Given("gpu_info" \in ok, {"gpu_clock_speed_max", "mem_clock_speed_max"})
  \cup Given("memory" \in ok, MemoryFields) \cup AmdLink(ok)
  \cup Given("pcie_bandwidth" \in ok, {"pcie_rx", "pcie_tx"}) \cup AmdgpuPowerCap(ok)

AmdgpuDynamic(old, ok) ==
  Answered(AmdgpuSensors, ok)
  \cup Given("gpu_info" \in ok, {"gpu_clock_speed_max", "mem_clock_speed_max"})
  \cup Given("memory" \in ok, MemoryFields) \cup AmdLink(ok)
  \cup Given("pcie_bandwidth" \in ok, {"pcie_rx", "pcie_tx"}) \cup AmdgpuPowerCap(ok)

\* A file is of a client of the device unless it names another; the old kernels
\* tell a percentage, the newer ones the time an engine was used.
AmdgpuFdinfo ==
  {"same_device", "client", "gpu_memory_usage", "gfx_engine_used", "compute_engine_used",
   "enc_engine_used", "dec_engine_used", "usage", "encode", "decode", "baseline",
   "plausible", "shared_codec"}

\* A usage comes from the time since the client was met in the last sweep, if
\* that has not gone back or further than the clock.
AmdgpuBusy(ok) ==
  Given({"client", "baseline", "plausible"} \subseteq ok,
        Given(ok \cap {"gfx_engine_used", "compute_engine_used"} # {}, {"gpu_usage"})
        \cup Given("dec_engine_used" \in ok, {"decode_usage"})
        \cup Given("enc_engine_used" \in ok, {"encode_usage"}))

AmdgpuParse(ok) ==
  Parsed("same_device" \in ok,
         Answered({"gpu_memory_usage", "gfx_engine_used", "compute_engine_used",
                   "enc_engine_used", "dec_engine_used"}, ok)
         \cup Given("usage" \in ok, {"gpu_usage"}) \cup Given("encode" \in ok, {"encode_usage"})
         \cup Given("decode" \in ok, {"decode_usage"}) \cup AmdgpuBusy(ok)
         \cup Given({"client", "shared_codec"} \subseteq ok, {"decode_usage"}))

-----------------------------------------------------------------------------
(* radeon: a static table of devices; libdrm's version of the driver says   *)
(* what may be asked.                                                       *)

RadeonInit(ok) == LibraryInit(ok, {"symbols"})

\* The devices are released from the last to the first, counting down.
RadeonShutdown(st) == DlClose([st EXCEPT !.count = 0])

\* The place is counted before the device is listed.
RadeonCard(st, ok) ==
  IF {"amd", "node", "version", "driver"} \subseteq ok THEN Listed(st) ELSE st

RadeonHandles(st, ok, cards) ==
  IF "count" \in ok /\ cards # <<>>
  THEN [found |-> TRUE, st |-> FoldLeft(RadeonCard, st, cards)]
  ELSE [found |-> FALSE, st |-> st]

\* 2.39 and 2.42 are what the driver's version is at least.  An unknown chipset
\* gets a name too.
RadeonStatic(ok) ==
  {"device_name"} \cup AmdPcieMax(ok) \cup HwmonThresholds(ok)
  \cup Given("2.39" \in ok, {"n_shared_cores"})

RadeonDynamicQueries == {"2.42", "2.39", "total_memory", "fan_speed"}

\* A refused question leaves 0 and counts as answered.
RadeonDynamic(old, ok) ==
  {"gpu_util_rate"} \cup Answered({"total_memory", "fan_speed"}, ok)
  \cup Given("2.42" \in ok, {"gpu_clock_speed", "gpu_clock_speed_max", "mem_clock_speed",
                             "mem_clock_speed_max", "gpu_temp"})
  \cup Given("2.39" \in ok, {"used_memory", "free_memory", "mem_util_rate"})

\* The rate of busy blocks rises at once and falls by a tenth of the way, cut
\* to an integer.
RadeonSmoothed(busy, shown) ==
  IF busy < shown THEN (busy + 9 * shown) \div 10 ELSE busy

\* No processes are told.
RadeonRunning(old, ok, mode) == {}
=============================================================================
