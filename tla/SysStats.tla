------------------------------ MODULE SysStats ------------------------------
(* The block of CPU statistics (system_stats.c, draw_sys_stats): the thread *)
(* of the process pool fills it core by core while the main loop may be     *)
(* drawing it, and nothing keeps them apart.  The cores of /proc/stat are   *)
(* those that are online, and they are known by their position alone.       *)
EXTENDS Integers, Sequences, FiniteSets

CONSTANT
  Cores   \* a set of naturals: cpu0, cpu1, ..., no more than SYS_STATS_MAX_CORES

ASSUME CoresAssumption == Cores \subseteq Nat /\ IsFiniteSet(Cores)

VARIABLES
  online,
  core_count,             \* struct sys_stats; a percentage is what it is taken from
  core_user_pct, core_sys_pct,
  prev,                   \* valid; per position that was filled, a core and the age of
                          \* its counters
  reader,                 \* sys_stats_read: at, the cores it found, the position it is at
  sys_stats_valid,
  painter,                \* draw_sys_stats: whether it draws, how many cores
  screen,                 \* the percentages drawn, two for each core
  sampled                 \* history: the cores of the last sample

block == <<core_count, core_user_pct, core_sys_pct>>
statsVars == <<online, block, prev, reader, sys_stats_valid, painter, screen, sampled>>

Positions == 1..Cardinality(Cores)

\* A usage of "core" since counters kept of "base", "age" samples ago; whether
\* the same cores were online in the sample before.  Counters that were never
\* kept are 0, as they were at the boot.
Zero == [core |-> 0, base |-> 0, age |-> 1, steady |-> TRUE]

\* The lines of /proc/stat come in the order of the cores' numbers.
Nth(S, i) == CHOOSE c \in S : Cardinality({d \in S : d <= c}) = i

Wiped == [i \in Positions |-> Zero]

StatsInit ==
  /\ online \in (SUBSET Cores) \ {{}}
  /\ core_count = 0 /\ core_user_pct = Wiped /\ core_sys_pct = Wiped
  /\ prev = [valid |-> FALSE, kept |-> <<>>]
  /\ reader = [at |-> "idle", cores |-> {}, i |-> 1]
  /\ sys_stats_valid = FALSE
  /\ painter = [on |-> FALSE, cores |-> 0] /\ screen = <<>>
  /\ sampled = {}

-----------------------------------------------------------------------------
(* sys_stats_read, in the thread of the pool.                               *)

\* Counters that were kept two samples ago or more are alike.
Aged(kept) == [i \in DOMAIN kept |-> [kept[i] EXCEPT !.age = IF @ = 0 THEN 1 ELSE 2]]

\* memset, and every line of /proc/stat.
BeginRead ==
  /\ reader.at = "idle" /\ ~sys_stats_valid
  /\ core_count' = 0 /\ core_user_pct' = Wiped /\ core_sys_pct' = Wiped
  /\ reader' = [at |-> "count", cores |-> online, i |-> 1]
  /\ prev' = [prev EXCEPT !.kept = Aged(@)]
  /\ UNCHANGED <<online, sys_stats_valid, painter, screen, sampled>>

\* /proc/stat cannot be opened: no core, and the counters kept stay.
ReadFails ==
  /\ reader.at = "idle" /\ ~sys_stats_valid
  /\ core_count' = 0 /\ core_user_pct' = Wiped /\ core_sys_pct' = Wiped
  /\ sys_stats_valid' = TRUE
  /\ UNCHANGED <<online, prev, reader, painter, screen, sampled>>

SetCount ==
  /\ reader.at = "count"
  /\ core_count' = Cardinality(reader.cores)
  /\ reader' = [reader EXCEPT !.at = "cores"]
  /\ UNCHANGED <<online, core_user_pct, core_sys_pct, prev, sys_stats_valid, painter, screen, sampled>>

\* Mutant: the counters are kept of the first sample only.
Keep_First(old, i, core) ==
  [j \in DOMAIN old \cup {i} |-> IF j \in DOMAIN old THEN old[j] ELSE [core |-> core, age |-> 0]]

\* The counters of a core are kept at its position.
Keep(old, i, core) ==
  [j \in DOMAIN old \cup {i} |-> IF j = i THEN [core |-> core, age |-> 0] ELSE old[j]]

\* A share of the time since the counters at the position were kept; zero in
\* the first sample.
UsageOf(i, core) ==
  IF ~prev.valid THEN Zero
  ELSE LET base == IF i \in DOMAIN prev.kept THEN prev.kept[i] ELSE [core |-> core, age |-> 2]
       IN  [core |-> core, base |-> base.core, age |-> base.age, steady |-> sampled = reader.cores]

\* One core: the share of the user first.
ReadUser ==
  /\ reader.at = "cores" /\ reader.i <= Cardinality(reader.cores)
  /\ core_user_pct' = [core_user_pct EXCEPT ![reader.i] = UsageOf(reader.i, Nth(reader.cores, reader.i))]
  /\ reader' = [reader EXCEPT !.at = "system"]
  /\ UNCHANGED <<online, core_count, core_sys_pct, prev, sys_stats_valid, painter, screen, sampled>>

\* The share of the system next, and the counters are kept for the next sample.
ReadSystem ==
  /\ reader.at = "system"
  /\ LET i == reader.i  core == Nth(reader.cores, i) IN
     /\ core_sys_pct' = [core_sys_pct EXCEPT ![i] = UsageOf(i, core)]
     /\ prev' = [prev EXCEPT !.kept = Keep(@, i, core)]
     /\ reader' = [reader EXCEPT !.at = "cores", !.i = i + 1]
  /\ UNCHANGED <<online, core_count, core_user_pct, sys_stats_valid, painter, screen, sampled>>

\* Back in proc_pool_thread.
EndRead ==
  /\ reader.at = "cores" /\ reader.i > Cardinality(reader.cores)
  /\ sys_stats_valid' = TRUE /\ sampled' = reader.cores /\ prev' = [prev EXCEPT !.valid = TRUE]
  /\ reader' = [at |-> "idle", cores |-> {}, i |-> 1]
  /\ UNCHANGED <<online, block, painter, screen>>

-----------------------------------------------------------------------------
(* The main loop.                                                           *)

\* draw_sys_stats reads the count once.
BeginDraw ==
  /\ ~painter.on
  /\ painter' = [on |-> TRUE, cores |-> core_count] /\ screen' = <<>>
  /\ UNCHANGED <<online, block, prev, reader, sys_stats_valid, sampled>>

\* The core whose bar is drawn next.
DrawnCore == Len(screen) \div 2 + 1

DrawUser ==
  /\ painter.on /\ Len(screen) < 2 * painter.cores /\ Len(screen) % 2 = 0
  /\ screen' = Append(screen, core_user_pct[DrawnCore])
  /\ UNCHANGED <<online, block, prev, reader, sys_stats_valid, painter, sampled>>

DrawSystem ==
  /\ painter.on /\ Len(screen) < 2 * painter.cores /\ Len(screen) % 2 = 1
  /\ screen' = Append(screen, core_sys_pct[DrawnCore])
  /\ UNCHANGED <<online, block, prev, reader, sys_stats_valid, painter, sampled>>

\* A frame of the table may be taken next, and given back.
EndDraw ==
  /\ painter.on /\ Len(screen) = 2 * painter.cores
  /\ painter' = [on |-> FALSE, cores |-> 0]
  /\ sys_stats_valid' \in {sys_stats_valid, FALSE}
  /\ UNCHANGED <<online, block, prev, reader, screen, sampled>>

\* Cores come and go.
Hotplug ==
  /\ online' \in (SUBSET Cores) \ {{}}
  /\ UNCHANGED <<block, prev, reader, sys_stats_valid, painter, screen, sampled>>

StatsNext ==
  \/ BeginRead \/ ReadFails \/ SetCount \/ ReadUser \/ ReadSystem \/ EndRead
  \/ BeginDraw \/ DrawUser \/ DrawSystem \/ EndDraw \/ Hotplug

StatsSpec == StatsInit /\ [][StatsNext]_statsVars

-----------------------------------------------------------------------------
(* Properties.                                                              *)

\* Whatever the thread does meanwhile, a usage that is drawn is zero or that of
\* one core between two samples, the one after the other, unless cores came or
\* went between these two (sys_stats_read and draw_sys_stats, without a lock).
UsageOfItsCore ==
  \A i \in DOMAIN screen :
    screen[i].steady => screen[i].base = screen[i].core /\ screen[i].age = 1
=============================================================================
