--------------------------- MODULE ProcessOptions ---------------------------
(* The fields of processes that are displayed, and the one they are sorted  *)
(* by (interface_options.h, interface_options.c).                           *)
EXTENDS Naturals, Sequences, SequencesExt

CONSTANTS
  FieldCount,     \* process_field_count
  SortPreference, \* the fields that are looked for, in this order
  NoField         \* "none"

Fields == 1..FieldCount

ASSUME FieldsAssumption == FieldCount \in Nat \ {0} /\ NoField \notin Fields
ASSUME PreferenceAssumption == SortPreference \in Seq(Fields)

\* process_default_sort_by_from: there are fields it does not look for.
DefaultSort(shown) ==
  LET liked == {i \in DOMAIN SortPreference : SortPreference[i] \in shown} IN
  IF liked = {} THEN NoField ELSE SortPreference[Min(liked)]

\* The table is sorted by a field that is displayed, or by none if there is
\* none to choose.
SortIsShown(sort, shown) ==
  sort \in shown \/ (sort = NoField /\ DefaultSort(shown) = NoField)
=============================================================================
