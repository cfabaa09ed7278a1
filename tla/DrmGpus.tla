------------------------------- MODULE DrmGpus ------------------------------
(* Devices whose processes are found by the sweep of fdinfo: Intel (i915    *)
(* and xe), VideoCore (v3d), Adreno (msm) and Mali (panfrost, panthor);     *)
(* extract_gpuinfo_intel*.c, _v3d*.c, _msm.c, _mali_common.c, _panfrost.c,  *)
(* _panthor.c.                                                              *)
EXTENDS GpuInfo

-----------------------------------------------------------------------------
(* Intel and VideoCore: the devices of the subsystem drm are enumerated.    *)

IntelInit(ok) == [up |-> TRUE, st |-> Closed]
V3dInit(ok) == [up |-> TRUE, st |-> Closed]

\* The devices are released; table and count stay.
IntelShutdown(st) == st
V3dShutdown(st) == st

\* An enabled card of Intel under one of its two drivers.
IntelCard(st, ok) ==
  IF {"dev_node", "parent", "vendor", "driver", "enabled"} \subseteq ok
  THEN ListedWithCallback(st) ELSE st

V3dCard(st, ok) ==
  IF {"dev_node", "parent", "driver"} \subseteq ok THEN ListedWithCallback(st) ELSE st

IntelHandles(st, ok, cards) == HandlesOf(IntelCard, st, ok, cards)
V3dHandles(st, ok, cards) == HandlesOf(V3dCard, st, ok, cards)

IntelStatic(ok) ==
  Answered({"device_name"}, ok) \cup
  Given("pcie_max" \in ok, {"max_pcie_link_width", "max_pcie_gen"})

IntelAttributes == {"gpu_clock_speed_max", "mem_clock_speed_max"}
IntelHwmon == {"fan_rpm", "gpu_temp", "power_draw_max"}

IntelDynamicQueries ==
  IntelAttributes \cup IntelHwmon \cup
  {"perf_frequency", "sysfs_frequency", "integrated", "pcie_link", "hwmon", "energy",
   "earlier_energy", "regions", "usage_known"}

\* The counter of the perf event, or sysfs when it does not tell.
IntelClock(ok) == Given(ok \cap {"perf_frequency", "sysfs_frequency"} # {}, {"gpu_clock_speed"})

\* The power is the energy since the refresh before: not at the first.
IntelPower(ok) == Given({"energy", "earlier_energy"} \subseteq ok, {"power_draw"})

\* gpuinfo_intel_i915_refresh_dynamic_info and the same for xe: what is in use
\* is told only to the privileged.
IntelMemory(ok) ==
  Given("regions" \in ok,
        {"total_memory"} \cup
        Given("usage_known" \in ok, {"free_memory", "used_memory", "mem_util_rate"}))

IntelDynamic(old, ok) ==
  IntelClock(ok) \cup Answered(IntelAttributes, ok)
  \cup Given("integrated" \notin ok /\ "pcie_link" \in ok, {"pcie_link_width", "pcie_link_gen"})
  \cup Given("hwmon" \in ok, Answered(IntelHwmon, ok) \cup IntelPower(ok))
  \cup IntelMemory(ok)

V3dStatic(ok) == {"device_name"}

V3dMailbox == {"gpu_temp", "gpu_clock_speed", "decoder_rate"}

V3dDynamicQueries == V3dMailbox \cup {"mailbox", "bo_stats"}

V3dDynamic(old, ok) ==
  Given("bo_stats" \in ok, {"used_memory", "total_memory", "mem_util_rate"})
  \cup Given("mailbox" \in ok, Answered(V3dMailbox, ok))

-----------------------------------------------------------------------------
(* Adreno and Mali: the devices libdrm knows, of any bus.                   *)

\* For msm it does not matter whether /proc/meminfo opens.
MsmInit(ok) == LibraryInit(ok, {"symbols"})
PanfrostInit(ok) == LibraryInit(ok, {"symbols", "meminfo_file"})
PanthorInit(ok) == LibraryInit(ok, {"symbols", "meminfo_file"})

MsmShutdown(st) == DlClose([Freed(st) EXCEPT !.count = 0])

MaliShutdown(st) == DlClose([Freed(st) EXCEPT !.count = 0])

PanthorShutdown(st) == MaliShutdown(st)

\* The profiling state of each device is put back through a path that was freed
\* when it was opened, and is freed again.
PanfrostShutdown(st) ==
  [MaliShutdown(st) EXCEPT !.closedTwice = @ \/ st.count > 0]

\* A node that opens, whose driver has the vendor's name.
DrmNode == {"node", "version", "driver"}

MsmCard(st, ok) == IF DrmNode \subseteq ok THEN ListedWithCallback(st) ELSE st

PanthorCard(st, ok) == IF DrmNode \subseteq ok THEN ListedWithCallback(st) ELSE st

\* The device is listed and gets its callback before the profiling is tried;
\* when that fails it is not counted, and its place is taken by the next.
PanfrostCard(st, ok) ==
  IF ~(DrmNode \subseteq ok) THEN st
  ELSE IF "profile" \in ok THEN ListedWithCallback(st)
  ELSE [ListedWithCallback(st) EXCEPT !.count = st.count]

DrmHandles(Card(_, _), st, ok, cards) ==
  IF st.handle /\ {"count", "devices"} \subseteq ok /\ cards # <<>>
  THEN [found |-> TRUE, st |-> FoldLeft(Card, Allocated([st EXCEPT !.count = 0]), cards)]
  ELSE [found |-> FALSE, st |-> st]

\* msm counts on from what it had, which is nothing.
MsmHandles(st, ok, cards) == DrmHandles(MsmCard, st, ok, cards)
PanfrostHandles(st, ok, cards) == DrmHandles(PanfrostCard, st, ok, cards)
PanthorHandles(st, ok, cards) == DrmHandles(PanthorCard, st, ok, cards)

MsmStatic(ok) == Given("chip_id" \in ok, {"device_name"})

\* The engines need the shader mask and two more answers.
PanfrostStatic(ok) ==
  Given("chip_id" \in ok, {"device_name"}) \cup Answered({"n_shared_cores", "l2cache_size"}, ok)
  \cup Given({"n_shared_cores", "core_features", "thread_features"} \subseteq ok,
             {"n_exec_engines"})

\* A refused question gives a name too.
PanthorStatic(ok) == {"device_name"}

\* /proc/meminfo: what is not found counts as 0 and is valid.
MsmDynamic(old, ok) ==
  MemoryFields \cup Given("max_freq" \in ok, {"gpu_clock_speed", "gpu_clock_speed_max"})

MaliDynamic(old, ok) == MemoryFields

\* The fields of the device that the parser of fdinfo sets, with the frequencies
\* of its last client.
MaliFromFdinfo(ok) == Answered({"gpu_clock_speed", "gpu_clock_speed_max"}, ok)

-----------------------------------------------------------------------------
(* The parsers of fdinfo.  "baseline" says that the client was met in the   *)
(* last sweep, "plausible" that the time it used since has not gone back    *)
(* and is not longer than the time that passed.                             *)

Since == {"baseline", "plausible"}

I915Fdinfo ==
  Since \cup {"same_device", "client", "gpu_memory_usage", "gfx_engine_used",
              "compute_engine_used", "video"}

\* Video is taken for decoding and encoding, but no baseline of the encoder is
\* kept; the compute engine counts only with the render engine.
I915Parse(ok) ==
  Parsed({"same_device", "client"} \subseteq ok,
         Answered({"gpu_memory_usage", "gfx_engine_used", "compute_engine_used"}, ok)
         \cup Given("video" \in ok, {"enc_engine_used", "dec_engine_used"})
         \cup Given(Since \subseteq ok,
                    Given("gfx_engine_used" \in ok, {"gpu_usage"})
                    \cup Given("video" \in ok, {"decode_usage"})))

XeFdinfo == {"same_device", "client", "gpu_memory_usage", "baseline", "video_ran"}

\* The cycles an engine ran of those that passed; no engine makes the usage 0.
XeParse(ok) ==
  Parsed({"same_device", "client"} \subseteq ok,
         Answered({"gpu_memory_usage"}, ok) \cup {"gpu_cycles"}
         \cup Given("baseline" \in ok,
                    {"gpu_usage"} \cup Given("video_ran" \in ok, {"decode_usage"})))

RenderFdinfo == Since \cup {"client", "gpu_memory_usage", "gfx_engine_used"}

\* Any file with a client is taken, of whichever device it is.
RenderParse(ok) ==
  Parsed("client" \in ok,
         Answered({"gpu_memory_usage", "gfx_engine_used"}, ok)
         \cup Given(Since \cup {"gfx_engine_used"} \subseteq ok, {"gpu_usage"}))

V3dParse(ok) == RenderParse(ok)
MsmParse(ok) == RenderParse(ok)

MaliFdinfo == RenderFdinfo \cup {"same_driver", "gpu_clock_speed", "gpu_clock_speed_max"}

\* A client of a device with the same driver, with the cycles and the time of
\* the sample from which gpuinfo_refresh_utilisation_rate makes the load.
MaliParse(ok) ==
  Parsed({"same_driver", "client"} \subseteq ok,
         RenderParse(ok).fields
         \cup Given("baseline" \in ok,
                    {"sample_delta"} \cup Given("gfx_engine_used" \in ok, {"gpu_cycles"})))
=============================================================================
