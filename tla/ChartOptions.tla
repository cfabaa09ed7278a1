---------------------------- MODULE ChartOptions ----------------------------
(* The metrics that a device draws in its plot (interface_options.h): a set *)
(* of at most MAX_LINES_PER_PLOT of them, shared by the plots, the setup    *)
(* window that changes it and the file it is saved in.                      *)
EXTENDS Naturals, FiniteSets

CONSTANTS
  Metrics,    \* a set of naturals: enum plot_information, in its order
  MaxLines    \* MAX_LINES_PER_PLOT

ASSUME MetricsAssumption == Metrics \subseteq Nat /\ IsFiniteSet(Metrics)
ASSUME LinesAssumption == MaxLines \in Nat

ToDraw == {S \in SUBSET Metrics : Cardinality(S) <= MaxLines}

\* plot_add_draw_info, plot_remove_draw_info.
AddDraw(m, S) == IF Cardinality(S) < MaxLines THEN S \cup {m} ELSE S
RemoveDraw(m, S) == S \ {m}

\* Enter on a metric of one device, and of all: it is removed if each of them
\* draws it.
Toggled(m, S) == IF m \in S THEN RemoveDraw(m, S) ELSE AddDraw(m, S)
ToggledForAll(m, S, all) == IF all THEN RemoveDraw(m, S) ELSE AddDraw(m, S)
=============================================================================
