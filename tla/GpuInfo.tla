------------------------------- MODULE GpuInfo ------------------------------
(* What every vendor fills and the rest of the program reads: the fields of *)
(* struct gpuinfo_static_info, gpuinfo_dynamic_info and gpu_process         *)
(* (extract_gpuinfo_common.h), as the sets of fields whose valid bit is on, *)
(* and the state of a vendor while its devices are looked for.              *)
(*                                                                          *)
(* A vendor asks a library, an ioctl or a file for each value.  What it     *)
(* gets is a set ok of the names of the questions that are answered.        *)
EXTENDS Naturals, Sequences, FiniteSets, SequencesExt

StaticFields ==
  {"device_name", "device_architecture", "max_pcie_gen", "max_pcie_link_width",
   "temperature_shutdown_threshold", "temperature_slowdown_threshold",
   "n_shared_cores", "l2cache_size", "n_exec_engines", "engine_count", "memory_type"}

DynamicFields ==
  {"gpu_clock_speed", "gpu_clock_speed_max", "mem_clock_speed", "mem_clock_speed_max",
   "gpu_util_rate", "mem_util_rate", "hvx_util_rate", "hmx_util_rate", "encoder_rate",
   "decoder_rate", "total_memory", "free_memory", "used_memory", "pcie_link_gen",
   "pcie_link_width", "pcie_rx", "pcie_tx", "fan_speed", "fan_rpm", "gpu_temp",
   "power_draw", "power_draw_max", "effective_load_rate", "multi_instance_mode",
   "ecc_corrected", "ecc_uncorrected"}

ProcessFields ==
  {"gfx_engine_used", "compute_engine_used", "enc_engine_used", "dec_engine_used",
   "gpu_usage", "encode_usage", "decode_usage", "gpu_memory_usage", "gpu_cycles",
   "sample_delta", "cmdline", "user_name", "cpu_usage", "cpu_memory_virt",
   "cpu_memory_res", "gpu_memory_percentage"}

MemoryFields == {"total_memory", "used_memory", "free_memory", "mem_util_rate"}
UsageFields == {"gpu_usage", "encode_usage", "decode_usage"}

\* The fields S if the condition holds, none otherwise.
Given(condition, S) == IF condition THEN S ELSE {}

\* A question that fills the field of its own name.
Answered(S, ok) == S \cap ok

-----------------------------------------------------------------------------
(* A vendor: whether its shared library is open, and how often it was       *)
(* closed more than opened; its array of devices, the global list and the   *)
(* fdinfo callbacks as positions in that array.                             *)

Closed == [handle |-> FALSE, open |-> FALSE, closedTwice |-> FALSE,
           allocated |-> FALSE, count |-> 0, list |-> <<>>, callbacks |-> {}]

Opened(st) == [st EXCEPT !.handle = TRUE, !.open = TRUE]

\* dlclose, through a handle that is set to NULL with it.
DlClose(st) ==
  IF ~st.handle THEN st
  ELSE [st EXCEPT !.handle = FALSE, !.open = FALSE, !.closedTwice = @ \/ ~st.open]

\* The start of the vendors that use libdrm: the library, and all they need of it.
LibraryInit(ok, needed) ==
  CASE "library" \notin ok -> [up |-> FALSE, st |-> Closed]
    [] {"library"} \cup needed \subseteq ok -> [up |-> TRUE, st |-> Opened(Closed)]
    [] OTHER -> [up |-> FALSE, st |-> DlClose(Opened(Closed))]

\* The template of nvidia, enflame, ixml and metax: the library, its symbols,
\* and its initialisation, after whose failure the library is not closed.
TemplateInit(ok) ==
  CASE "library" \notin ok -> [up |-> FALSE, st |-> Closed]
    [] {"library", "symbols"} \subseteq ok -> [up |-> "start" \in ok, st |-> Opened(Closed)]
    [] OTHER -> [up |-> FALSE, st |-> DlClose(Opened(Closed))]

\* A device is written to the next free place and appended to the list.
Listed(st) == [st EXCEPT !.list = Append(@, st.count + 1), !.count = @ + 1]

\* As Listed, with a callback for the sweep of fdinfo.
ListedWithCallback(st) ==
  [Listed(st) EXCEPT !.callbacks = @ \cup {st.count + 1}]

Allocated(st) == [st EXCEPT !.allocated = TRUE]

\* The cards are counted, the array allocated, and each card put to Card.
HandlesOf(Card(_, _), st, ok, cards) ==
  IF "count" \in ok THEN [found |-> TRUE, st |-> FoldLeft(Card, Allocated(st), cards)]
  ELSE [found |-> FALSE, st |-> st]

\* What a parser of fdinfo says of a file: whether it is of a client of the
\* device, and the fields it read.
Parsed(accepted, fields) == [accepted |-> accepted, fields |-> IF accepted THEN fields ELSE {}]

\* The array is freed; the count stays what it was if the vendor keeps it.
Freed(st) == [st EXCEPT !.allocated = FALSE]
=============================================================================
