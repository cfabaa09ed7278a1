------------------------------- MODULE Devices ------------------------------
(* A vendor and one of its devices through the life of the program          *)
(* (extract_gpuinfo.c, nvtop.c): the vendor is started and looks for its    *)
(* devices, which are then refreshed in every cycle and released at the     *)
(* end.  What is known of the device are the fields whose valid bit is on.  *)
EXTENDS NvmlGpus, AmdGpus, DrmGpus, NpuGpus

CONSTANTS Vendors, MaxCards   \* MaxCards: bound, the cards of the system

VARIABLES
  vendor,
  at,        \* what the program does next
  st,        \* the vendor: its library, its array, its part of the list
  static,    \* the valid fields of static_info
  valid,     \* the valid fields of dynamic_info
  row,       \* the valid fields of one row of processes
  \* history
  fresh,     \* the fields of dynamic_info that this cycle has told
  rowFresh   \* the fields of the row that the last refresh of rows has told

deviceVars == <<vendor, at, st, static, valid, row, fresh, rowFresh>>

AllVendors == {"nvidia", "enflame", "ixml", "metax", "ascend", "tpu", "tenstorrent",
               "qualcomm", "rockchip", "amdgpu", "radeon", "intel", "v3d", "msm",
               "panfrost", "panthor"}

ASSUME VendorsAssumption == Vendors \subseteq AllVendors /\ MaxCards \in Nat

Mali == {"panfrost", "panthor"}

\* The drivers of a vendor whose fdinfo differ.
Drivers == IF vendor = "intel" THEN {"i915", "xe"} ELSE {vendor}

\* Vendors that tell no process at all.
Rowless == {"radeon", "qualcomm", "rockchip"}

\* Bound on the answers: all questions are answered, all but one, or none.
Answers(Q) == {Q, {}} \cup {Q \ {q} : q \in Q}

-----------------------------------------------------------------------------
(* struct gpu_vendor: the functions of each vendor.                         *)

InitQuestions ==
  {"library", "symbols", "start", "meminfo_file", "class_directory", "load_file", "chips"}

VendorInit(ok) ==
  CASE vendor = "nvidia" -> NvidiaInit(ok) [] vendor = "enflame" -> EnflameInit(ok)
    [] vendor = "ixml" -> IxmlInit(ok) [] vendor = "metax" -> MetaxInit(ok)
    [] vendor = "ascend" -> AscendInit(ok) [] vendor = "tpu" -> TpuInit(ok)
    [] vendor = "tenstorrent" -> TenstorrentInit(ok) [] vendor = "qualcomm" -> QualcommInit(ok)
    [] vendor = "rockchip" -> RockchipInit(ok) [] vendor = "amdgpu" -> AmdgpuInit(ok)
    [] vendor = "radeon" -> RadeonInit(ok) [] vendor = "intel" -> IntelInit(ok)
    [] vendor = "v3d" -> V3dInit(ok) [] vendor = "msm" -> MsmInit(ok)
    [] vendor = "panfrost" -> PanfrostInit(ok) [] vendor = "panthor" -> PanthorInit(ok)

CardQuestions ==
  {"handle", "pci", "amd", "node", "version", "driver", "initialised", "dev_node", "parent",
   "vendor", "enabled", "profile", "info", "limited_info", "devices", "pci_path"}

SystemCards ==
  UNION {[1..n -> {CardQuestions} \cup {CardQuestions \ {q} : q \in CardQuestions}]
           : n \in 0..MaxCards}

HandleQuestions == {"count", "devices", "context"}

VendorHandles(ok, cards) ==
  CASE vendor = "nvidia" -> NvidiaHandles(st, ok, cards)
    [] vendor = "enflame" -> EnflameHandles(st, ok, cards)
    [] vendor = "ixml" -> IxmlHandles(st, ok, cards)
    [] vendor = "metax" -> MetaxHandles(st, ok, cards)
    [] vendor = "ascend" -> AscendHandles(st, ok, cards)
    [] vendor = "tpu" -> TpuHandles(st, ok, cards)
    [] vendor = "tenstorrent" -> TenstorrentHandles(st, ok, cards)
    [] vendor = "qualcomm" -> QualcommHandles(st, ok, cards)
    [] vendor = "rockchip" -> RockchipHandles(st, ok, cards)
    [] vendor = "amdgpu" -> AmdgpuHandles(st, ok, cards)
    [] vendor = "radeon" -> RadeonHandles(st, ok, cards)
    [] vendor = "intel" -> IntelHandles(st, ok, cards)
    [] vendor = "v3d" -> V3dHandles(st, ok, cards)
    [] vendor = "msm" -> MsmHandles(st, ok, cards)
    [] vendor = "panfrost" -> PanfrostHandles(st, ok, cards)
    [] vendor = "panthor" -> PanthorHandles(st, ok, cards)

VendorShutdown(s) ==
  CASE vendor = "nvidia" -> NvidiaShutdown(s) [] vendor = "enflame" -> EnflameShutdown(s)
    [] vendor = "ixml" -> IxmlShutdown(s) [] vendor = "metax" -> MetaxShutdown(s)
    [] vendor = "ascend" -> AscendShutdown(s) [] vendor = "tpu" -> TpuShutdown(s)
    [] vendor = "tenstorrent" -> TenstorrentShutdown(s) [] vendor = "qualcomm" -> QualcommShutdown(s)
    [] vendor = "rockchip" -> RockchipShutdown(s) [] vendor = "amdgpu" -> AmdgpuShutdown(s)
    [] vendor = "radeon" -> RadeonShutdown(s) [] vendor = "intel" -> IntelShutdown(s)
    [] vendor = "v3d" -> V3dShutdown(s) [] vendor = "msm" -> MsmShutdown(s)
    [] vendor = "panfrost" -> PanfrostShutdown(s) [] vendor = "panthor" -> PanthorShutdown(s)

StaticQuestions ==
  LinkAndThresholds \cup MetaxStaticQueries \cup TenstorrentStaticQueries \cup
  {"architecture", "architecture_name", "pcie_max", "chip_info", "hbm", "ddr", "marketing_name",
   "name_in_table", "driver_description", "kfd_node", "gfx_target", "target_known", "2.39",
   "chip_id", "n_shared_cores", "l2cache_size", "core_features", "thread_features"}

VendorStatic(ok) ==
  CASE vendor = "nvidia" -> NvidiaStatic(ok) [] vendor = "enflame" -> EnflameStatic(ok)
    [] vendor = "ixml" -> IxmlStatic(ok) [] vendor = "metax" -> MetaxStatic(ok)
    [] vendor = "ascend" -> AscendStatic(ok) [] vendor = "tpu" -> TpuStatic(ok)
    [] vendor = "tenstorrent" -> TenstorrentStatic(ok) [] vendor = "qualcomm" -> QualcommStatic(ok)
    [] vendor = "rockchip" -> RockchipStatic(ok) [] vendor = "amdgpu" -> AmdgpuStatic(ok)
    [] vendor = "radeon" -> RadeonStatic(ok) [] vendor = "intel" -> IntelStatic(ok)
    [] vendor = "v3d" -> V3dStatic(ok) [] vendor = "msm" -> MsmStatic(ok)
    [] vendor = "panfrost" -> PanfrostStatic(ok) [] vendor = "panthor" -> PanthorStatic(ok)

DynamicQuestions ==
  CASE vendor = "nvidia" -> NvidiaDynamicQueries [] vendor = "enflame" -> EnflameDynamicQueries
    [] vendor = "ixml" -> IxmlDynamicQueries [] vendor = "metax" -> MetaxDynamicQueries
    [] vendor = "ascend" -> AscendDynamicQueries [] vendor = "tenstorrent" -> TenstorrentDynamicQueries
    [] vendor = "qualcomm" -> QualcommDynamicQueries [] vendor = "rockchip" -> RockchipDynamicQueries
    [] vendor = "amdgpu" -> AmdgpuDynamicQueries [] vendor = "radeon" -> RadeonDynamicQueries
    [] vendor = "intel" -> IntelDynamicQueries [] vendor = "v3d" -> V3dDynamicQueries
    [] vendor = "msm" -> {"max_freq"} [] OTHER -> {}

VendorDynamic(old, ok) ==
  CASE vendor = "nvidia" -> NvidiaDynamic(old, ok) [] vendor = "enflame" -> EnflameDynamic(old, ok)
    [] vendor = "ixml" -> IxmlDynamic(old, ok) [] vendor = "metax" -> MetaxDynamic(old, ok)
    [] vendor = "ascend" -> AscendDynamic(old, ok) [] vendor = "tpu" -> TpuDynamic(old, ok)
    [] vendor = "tenstorrent" -> TenstorrentDynamic(old, ok)
    [] vendor = "qualcomm" -> QualcommDynamic(old, ok)
    [] vendor = "rockchip" -> RockchipDynamic(old, ok) [] vendor = "amdgpu" -> AmdgpuDynamic(old, ok)
    [] vendor = "radeon" -> RadeonDynamic(old, ok) [] vendor = "intel" -> IntelDynamic(old, ok)
    [] vendor = "v3d" -> V3dDynamic(old, ok) [] vendor = "msm" -> MsmDynamic(old, ok)
    [] vendor \in Mali -> MaliDynamic(old, ok)

RowQuestions ==
  CASE vendor \in {"nvidia", "enflame"} -> NvmlProcessQueries
    [] vendor = "ixml" -> IxmlProcessQueries
    [] vendor \in {"metax", "ascend", "tpu"} -> {"processes"}
    [] vendor = "amdgpu" -> AmdgpuFdinfo
    [] vendor = "intel" -> I915Fdinfo \cup XeFdinfo
    [] vendor \in {"v3d", "msm"} -> RenderFdinfo
    [] vendor \in Mali -> MaliFdinfo
    [] OTHER -> {}

\* What the rows of a vendor tell: those of a vendor with a callback are filled
\* by the sweep of fdinfo, an Intel device's by the parser of its driver.
VendorRow(old, ok, driver) ==
  CASE vendor = "nvidia" -> NvidiaRunning(old, ok, "multi_instance_mode" \in valid)
    [] vendor = "enflame" -> EnflameRunning(old, ok, "multi_instance_mode" \in valid)
    [] vendor = "ixml" -> IxmlRunning(old, ok, FALSE)
    [] vendor = "metax" -> MetaxRunning(old, ok, FALSE)
    [] vendor = "ascend" -> AscendRunning(old, ok, FALSE)
    [] vendor = "tpu" -> TpuRunning(old, ok, FALSE)
    [] vendor = "tenstorrent" -> TenstorrentRunning(old, ok, FALSE)
    [] vendor = "qualcomm" -> QualcommRunning(old, ok, FALSE)
    [] vendor = "rockchip" -> RockchipRunning(old, ok, FALSE)
    [] vendor = "radeon" -> RadeonRunning(old, ok, FALSE)
    [] vendor = "amdgpu" -> AmdgpuParse(ok).fields
    [] vendor = "intel" -> IF driver = "xe" THEN XeParse(ok).fields ELSE I915Parse(ok).fields
    [] vendor = "v3d" -> V3dParse(ok).fields [] vendor = "msm" -> MsmParse(ok).fields
    [] vendor \in Mali -> MaliParse(ok).fields

-----------------------------------------------------------------------------
(* What the program adds to it.                                             *)

\* calculate_effective_load; "positive_limit": the limit of the power is not 0.
EffectiveLoad(fields, ok) ==
  (fields \ {"effective_load_rate"}) \cup
  Given({"gpu_util_rate", "power_draw", "power_draw_max"} \subseteq fields /\ "positive_limit" \in ok,
        {"effective_load_rate"})

\* gpuinfo_populate_process_info; "fits": the row uses no more than there is.
Populated(fields, process, ok) ==
  LET known == process \cup Answered({"cmdline", "user_name"}, ok)
               \cup Given("process_info" \in ok, {"cpu_usage", "cpu_memory_res", "cpu_memory_virt"})
  IN  IF "total_memory" \notin fields \/ "gpu_memory_usage" \notin known THEN known
      ELSE IF "fits" \in ok THEN known \cup {"gpu_memory_percentage"}
      ELSE known \ {"gpu_memory_usage"}

\* gpuinfo_refresh_utilisation_rate, for Mali; "ran": some cycles were used.
Utilisation(fields, process, ok) ==
  fields \cup Given(vendor \in Mali /\ "gpu_cycles" \in process /\ "ran" \in ok, {"gpu_util_rate"})

\* The fields of a device that only its rows can tell.
FromRows(fields, process) ==
  Given("gpu_usage" \in process, {"gpu_util_rate"})
  \cup Given("encode_usage" \in process, {"encoder_rate"})
  \cup Given("decode_usage" \in process, {"decoder_rate"})
  \cup Given("gpu_memory_usage" \in process /\ "total_memory" \in fields, {"used_memory"})

\* gpuinfo_fix_dynamic_info_from_process_info; "sum_fits": the rows use no more
\* than there is.
Fixed(fields, process, ok) ==
  LET counted == IF "sum_fits" \in ok THEN FromRows(fields, process)
                 ELSE FromRows(fields, process) \ {"used_memory"}
      needed == "used_memory" \notin fields /\ "total_memory" \in fields
  IN  EffectiveLoad(fields \cup counted
                    \cup Given(needed /\ "used_memory" \in counted, {"free_memory"}), ok)

-----------------------------------------------------------------------------
(* gpuinfo_init_info_extraction, and the end.                               *)

DevicesInit ==
  /\ vendor \in Vendors
  /\ at = "start" /\ st = Closed
  /\ static = {} /\ valid = {} /\ row = {} /\ fresh = {} /\ rowFresh = {}

information == <<static, valid, row, fresh, rowFresh>>

\* The program goes on with the devices of other vendors when there are none.
Start ==
  /\ at = "start"
  /\ \E ok \in SUBSET InitQuestions :
       LET start == VendorInit(ok) IN
       st' = start.st /\ at' = IF start.up THEN "look" ELSE "without"
  /\ UNCHANGED <<vendor, information>>

FindDevices ==
  /\ at = "look"
  /\ \E ok \in SUBSET HandleQuestions, cards \in SystemCards :
       LET handles == VendorHandles(ok, cards)
           usable == handles.found /\ handles.st.count > 0
       IN  /\ st' = IF usable THEN handles.st ELSE VendorShutdown(handles.st)
           /\ at' = IF usable THEN "static" ELSE "without"
  /\ UNCHANGED <<vendor, information>>

\* gpuinfo_shutdown_info_extraction: the list is emptied first; every vendor is
\* shut down, one that has no device once more.
Shutdown ==
  /\ at \in {"drawn", "without"} /\ at' = "ended"
  /\ st' = VendorShutdown([st EXCEPT !.list = <<>>, !.callbacks = {}])
  /\ UNCHANGED <<vendor, information>>

-----------------------------------------------------------------------------
(* One cycle of the main loop.                                              *)

PopulateStatic ==
  /\ at = "static" /\ at' = "dynamic"
  /\ \E ok \in {StaticQuestions, {}} : static' = VendorStatic(ok)
  /\ UNCHANGED <<vendor, st, valid, row, fresh, rowFresh>>

RefreshDynamic ==
  /\ at \in {"dynamic", "drawn"} /\ at' = "refreshed"
  /\ \E ok \in Answers(DynamicQuestions), positive \in SUBSET {"positive_limit"} :
       /\ valid' = EffectiveLoad(VendorDynamic(valid, ok), positive)
       /\ fresh' = EffectiveLoad(VendorDynamic({}, ok), positive)
  /\ UNCHANGED <<vendor, st, static, row, rowFresh>>

\* While the kill menu is open the rows stay, and so does what they would tell.
SkipProcesses ==
  /\ at = "refreshed" /\ at' = "drawn"
  /\ UNCHANGED <<vendor, st, information>>

\* gpuinfo_refresh_processes and gpuinfo_utilisation_rate.  The parser of Mali's
\* fdinfo sets fields of the device too.
RefreshProcesses ==
  /\ at = "refreshed"
  /\ \/ /\ vendor = "metax" /\ at' = "exited"
        /\ UNCHANGED information
     \/ /\ vendor \notin Rowless /\ at' = "counted"
        /\ \E ok \in Answers(RowQuestions), about \in {{}, {"cmdline", "user_name", "process_info"}},
              sums \in SUBSET {"fits", "ran"}, driver \in Drivers :
             LET device == Given(vendor \in Mali, MaliFromFdinfo(ok)) IN
             /\ row' = Populated(valid, VendorRow(row, ok, driver), about \cup sums)
             /\ rowFresh' = Populated(fresh, VendorRow({}, ok, driver), about \cup sums)
             /\ valid' = Utilisation(valid \cup device, row', sums)
             /\ fresh' = Utilisation(fresh \cup device, rowFresh', sums)
        /\ UNCHANGED static
     \/ /\ at' = "counted" /\ row' = {} /\ rowFresh' = {}   \* no process
        /\ UNCHANGED <<static, valid, fresh>>
  /\ UNCHANGED <<vendor, st>>

FixDynamic ==
  /\ at = "counted" /\ at' = "drawn"
  /\ \E ok \in SUBSET {"sum_fits", "positive_limit"} :
       valid' = Fixed(valid, row, ok) /\ fresh' = Fixed(fresh, rowFresh, ok)
  /\ UNCHANGED <<vendor, st, static, row, rowFresh>>

DevicesNext ==
  \/ Start \/ FindDevices \/ PopulateStatic \/ RefreshDynamic \/ SkipProcesses
  \/ RefreshProcesses \/ FixDynamic \/ Shutdown

DevicesSpec == DevicesInit /\ [][DevicesNext]_deviceVars

-----------------------------------------------------------------------------
(* Properties.                                                              *)

\* A vendor that found nothing is shut down at once, and every vendor is shut
\* down at the end: none closes its library a second time or loses it open
\* (TPU never closes its library; panfrost frees a path twice).
ReleasedOnce ==
  vendor \notin {"tpu", "panfrost"} =>
    /\ ~st.closedTwice
    /\ st.open = st.handle
    /\ at = "ended" => ~st.open

\* While the program runs, the list has every device that was counted and each
\* once, in an array that is still there, and the sweep calls only devices of
\* the list (a panfrost device is listed before it is known to be usable).
DevicesBacked ==
  at \notin {"start", "look", "ended"} /\ vendor # "panfrost" =>
    /\ ToSet(st.list) = 1..st.count /\ IsInjective(st.list)
    /\ st.list # <<>> => st.allocated \/ vendor \in {"radeon", "intel", "v3d"}
    /\ st.callbacks \subseteq ToSet(st.list)

\* What is drawn and saved was told in this cycle, by the device or by the rows
\* of the last refresh: no field outlives its answer (Iluvatar's fields are
\* never reset, TPU's rows never zeroed).
ShownIsFresh ==
  at = "drawn" /\ vendor \notin {"ixml", "tpu"} => valid \subseteq fresh /\ row \subseteq rowFresh
=============================================================================
