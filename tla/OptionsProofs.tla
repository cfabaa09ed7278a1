----------------------------- MODULE OptionsProofs -----------------------------
(* The options: the cursor of the setup window that changes them, for any   *)
(* devices, metrics and fields; the order of the rows by the field that is  *)
(* set, for any rows; the file they are saved in, wherever it ends; and the *)
(* charts that follow them, for any devices, metrics and depth.             *)
EXTENDS Plots, SetupWindow, SortOrder, OptionsFile, FiniteSetTheorems, SequenceTheorems, TLAPS

\* For induction over the naturals.
Ind == INSTANCE FoldSteps WITH Step <- AddDraw

\* The loops of the file: its pieces are put together, its lines are read.
Chained(s, t) == s \o t
FlatLoop == INSTANCE FoldSteps WITH Step <- Chained
ReadLoop == INSTANCE FoldSteps WITH Step <- Read

\* The loops that move devices between the lists of monitored and other ones.
LeaveLoop == INSTANCE FoldSteps WITH Step <- Leave
ReturnLoop == INSTANCE FoldSteps WITH Step <- Return

-----------------------------------------------------------------------------
(* What is chosen from a set.                                               *)

\* A set of naturals with a member has a least one.
LEMMA LeastExists ==
  ASSUME NEW S \in SUBSET Nat, S # {}
  PROVE  Min(S) \in S /\ \A n \in S : Min(S) <= n
<1> DEFINE T == {n \in Nat : \A m \in S : n <= m}
<1>1. 0 \in T
  OBVIOUS
<1>2. PICK m \in S : TRUE
  OBVIOUS
<1>3. m \in Nat /\ m + 1 \in Nat /\ m + 1 \notin T
  BY <1>2
<1>4. \E n \in T : n + 1 \notin T
  <2>1. SUFFICES ASSUME \A n \in T : n + 1 \in T
                 PROVE  FALSE
    OBVIOUS
  <2>2. T \subseteq Nat
    OBVIOUS
  <2> HIDE DEF T
  <2>3. T = Nat
    BY <1>1, <2>1, <2>2, Ind!Induction
  <2> QED
    BY <1>3, <2>3
<1>5. PICK n \in T : n + 1 \notin T
  BY <1>4
<1>6. PICK x \in S : ~(n + 1 <= x)
  BY <1>5
<1>7. x \in S /\ \A y \in S : x <= y
  <2>1. n \in Nat /\ x \in Nat /\ n <= x
    BY <1>5, <1>6
  <2>2. x = n
    BY <1>6, <2>1
  <2> QED
    BY <1>5, <2>2
<1> QED
  BY <1>7, Zenon DEF Min

\* Every position up to the number of members is that of one of them.
LEMMA KthIs ==
  ASSUME NEW S \in SUBSET Nat, IsFiniteSet(S), NEW k \in Nat, k < Cardinality(S)
  PROVE  Kth(S, k) \in S /\ Cardinality({n \in S : n < Kth(S, k)}) = k
<1> DEFINE Under(m) == {n \in S : n < m}
           c == Cardinality(S)
           f == [m \in S |-> Cardinality(Under(m))]
<1>1. c \in Nat
  BY FS_CardinalityType
<1>2. ASSUME NEW m \in S
      PROVE  IsFiniteSet(Under(m)) /\ Cardinality(Under(m)) \in 0..(c - 1)
  <2>1. Under(m) \subseteq S /\ m \notin Under(m)
    OBVIOUS
  <2>2. /\ IsFiniteSet(Under(m)) /\ Cardinality(Under(m)) <= c
        /\ Cardinality(Under(m)) = c => Under(m) = S
    BY <2>1, FS_Subset, Zenon
  <2>3. Cardinality(Under(m)) \in Nat
    BY <2>2, FS_CardinalityType
  <2> HIDE DEF Under, c
  <2> QED
    BY <1>1, <2>1, <2>2, <2>3
<1>3. ASSUME NEW m \in S, NEW n \in S, m < n
      PROVE  Cardinality(Under(m)) # Cardinality(Under(n))
  <2>1. \A x \in S : x \in Nat
    OBVIOUS
  <2>2. Under(m) \subseteq Under(n) /\ m \in Under(n) /\ m \notin Under(m)
    <3>1. /\ m \in Nat /\ n \in Nat /\ ~(m < m)
          /\ \A x \in S : x < m => x < n
      BY <1>3, <2>1
    <3> QED
      BY <1>3, <3>1
  <2>3. IsFiniteSet(Under(n))
    BY <1>2
  <2> HIDE DEF Under
  <2>4. Cardinality(Under(m)) = Cardinality(Under(n)) => Under(m) = Under(n)
    BY <2>2, <2>3, FS_Subset, Zenon
  <2> QED
    BY <2>2, <2>4
<1> HIDE DEF Under, c
<1>4. f \in [S -> 0..(c - 1)]
  BY <1>2
<1>5. \A m, n \in S : f[m] = f[n] => m = n
  <2>1. ASSUME NEW m \in S, NEW n \in S, m # n
        PROVE  f[m] # f[n]
    <3>1. m < n \/ n < m
      BY <2>1
    <3>2. Cardinality(Under(m)) # Cardinality(Under(n))
      BY <1>3, <3>1
    <3> QED
      BY <3>2
  <2> QED
    BY <2>1
<1>6. /\ IsFiniteSet(0..(c - 1)) /\ Cardinality(0..(c - 1)) = c
  <2>1. c - 1 \in Int /\ (0 > c - 1 => c = 0) /\ (c - 1) - 0 + 1 = c
    BY <1>1
  <2> QED
    BY <2>1, FS_Interval
<1> HIDE DEF f
<1>7. f \in Injection(S, 0..(c - 1))
  BY <1>4, <1>5, Zenon DEF Injection, IsInjective
<1>8. f \in Surjection(S, 0..(c - 1))
  BY <1>6, <1>7, FS_Injection DEF c
<1>9. k \in 0..(c - 1)
  BY <1>1 DEF c
<1>10. \E m \in S : f[m] = k
  BY <1>8, <1>9, Zenon DEF Surjection
<1>11. \E m \in S : Cardinality({n \in S : n < m}) = k
  BY <1>10 DEF f, Under
<1> QED
  BY <1>11, Zenon DEF Kth

\* The set of metrics drawn stays one that may be drawn.
LEMMA StillDrawn ==
  ASSUME NEW S \in ToDraw, NEW m \in Metrics
  PROVE  AddDraw(m, S) \in ToDraw /\ RemoveDraw(m, S) \in ToDraw
<1>1. /\ S \subseteq Metrics /\ Cardinality(S) <= MaxLines /\ IsFiniteSet(S)
      /\ Cardinality(S) \in Nat /\ MaxLines \in Nat
  <2>1. S \subseteq Metrics /\ Cardinality(S) <= MaxLines
    BY DEF ToDraw
  <2>2. IsFiniteSet(S)
    BY <2>1, MetricsAssumption, FS_Subset
  <2> QED
    BY <2>1, <2>2, FS_CardinalityType, LinesAssumption
<1>2. AddDraw(m, S) \in ToDraw
  <2>1. CASE Cardinality(S) < MaxLines
    <3>1. /\ Cardinality(S \cup {m}) \in {Cardinality(S), Cardinality(S) + 1}
          /\ S \cup {m} \subseteq Metrics
      BY <1>1, FS_AddElement
    <3>2. Cardinality(S \cup {m}) <= MaxLines
      BY <1>1, <2>1, <3>1
    <3> QED
      BY <2>1, <3>1, <3>2 DEF AddDraw, ToDraw
  <2>2. CASE ~(Cardinality(S) < MaxLines)
    BY <2>2 DEF AddDraw
  <2> QED
    BY <2>1, <2>2
<1>3. RemoveDraw(m, S) \in ToDraw
  <2>1. S \ {m} \subseteq S
    OBVIOUS
  <2>2. Cardinality(S \ {m}) <= Cardinality(S) /\ IsFiniteSet(S \ {m})
    BY <1>1, <2>1, FS_Subset
  <2>3. Cardinality(S \ {m}) \in Nat
    BY <2>2, FS_CardinalityType
  <2>4. Cardinality(S \ {m}) <= MaxLines /\ S \ {m} \subseteq Metrics
    BY <1>1, <2>2, <2>3
  <2> QED
    BY <2>4 DEF RemoveDraw, ToDraw
<1> QED
  BY <1>2, <1>3

LEMMA DefaultIsShown ==
  ASSUME NEW columns \in SUBSET Fields
  PROVE  SortIsShown(DefaultSort(columns), columns)
<1> DEFINE liked == {i \in DOMAIN SortPreference : SortPreference[i] \in columns}
<1>1. CASE liked = {}
  BY <1>1 DEF SortIsShown, DefaultSort
<1>2. CASE liked # {}
  <2>1. liked \in SUBSET Nat
    BY PreferenceAssumption
  <2>2. Min(liked) \in liked
    BY <1>2, <2>1, LeastExists
  <2>3. DefaultSort(columns) = SortPreference[Min(liked)]
    BY <1>2, Zenon DEF DefaultSort
  <2> HIDE <1>2
  <2> QED
    BY <2>2, <2>3, Zenon DEF SortIsShown
<1> QED
  BY <1>1, <1>2

-----------------------------------------------------------------------------
(* The cursor.                                                              *)

Cursors == [section : 1..5, level : 0..2, row : Nat, value : Nat]

\* Outside of the list of options the line remembered is one of it, where
\* drawing does not look at it.
Resting(c) == c.level = 0 => /\ c.section = 1 => c.row < 3
                             /\ c.section = 5 => c.row < MaxGpus

InRange(c) == c.row < Rows(SectionOf(c)) /\ (c.level = 2 => c.value < Values(c))

DrawingOK == \E gpus \in 1..MaxGpus : drawing \in [1..gpus -> ToDraw]

OptionsOK ==
  /\ DrawingOK /\ process_fields_displayed \in SUBSET Fields
  /\ SortIsShown(sort_processes_by, process_fields_displayed)

SetupInv ==
  /\ OptionsOK
  /\ open \in BOOLEAN /\ drawn \in BOOLEAN
  /\ cursor \in Cursors /\ Resting(cursor)
  /\ drawn /\ open => InRange(cursor)

LEMMA SectionIs ==
  \A c : /\ c.section = 1 => SectionOf(c) = "general"
         /\ c.section = 2 => SectionOf(c) = "header"
         /\ c.section = 3 => SectionOf(c) = "chart"
         /\ c.section = 4 => SectionOf(c) = "processes"
         /\ c.section = 5 => SectionOf(c) = "devices"
BY DEF SectionOf, Sections

LEMMA Clamped ==
  ASSUME NEW c \in Cursors, NEW limit \in Nat
  PROVE  /\ RowAtMost(c, limit) \in Cursors /\ LevelAtMost(c, limit) \in Cursors
         /\ ValueAtMost(c, limit) \in Cursors
         /\ RowAtMost(c, limit).row = AtMost(c.row, limit)
         /\ RowAtMost(c, limit).section = c.section /\ RowAtMost(c, limit).level = c.level
         /\ RowAtMost(c, limit).value = c.value
         /\ LevelAtMost(c, limit).level = AtMost(c.level, limit)
         /\ LevelAtMost(c, limit).section = c.section /\ LevelAtMost(c, limit).row = c.row
         /\ LevelAtMost(c, limit).value = c.value
         /\ ValueAtMost(c, limit).value = AtMost(c.value, limit)
         /\ ValueAtMost(c, limit).section = c.section /\ ValueAtMost(c, limit).row = c.row
         /\ ValueAtMost(c, limit).level = c.level
<1>1. /\ c.section \in 1..5 /\ c.level \in 0..2 /\ c.row \in Nat /\ c.value \in Nat
      /\ c = [section |-> c.section, level |-> c.level, row |-> c.row, value |-> c.value]
  BY DEF Cursors
<1>2. AtMost(c.row, limit) \in Nat /\ AtMost(c.level, limit) \in 0..2 /\ AtMost(c.value, limit) \in Nat
  BY <1>1 DEF AtMost
<1>3. RowAtMost(c, limit) = [section |-> c.section, level |-> c.level,
                             row |-> AtMost(c.row, limit), value |-> c.value]
  BY DEF RowAtMost, Cursors
<1>4. LevelAtMost(c, limit) = [section |-> c.section, level |-> AtMost(c.level, limit),
                               row |-> c.row, value |-> c.value]
  BY DEF LevelAtMost, Cursors
<1>5. ValueAtMost(c, limit) = [section |-> c.section, level |-> c.level,
                               row |-> c.row, value |-> AtMost(c.value, limit)]
  BY DEF ValueAtMost, Cursors
<1>6. RowAtMost(c, limit) \in Cursors /\ LevelAtMost(c, limit) \in Cursors
      /\ ValueAtMost(c, limit) \in Cursors
  BY <1>1, <1>2, <1>3, <1>4, <1>5 DEF Cursors
<1> QED
  BY <1>3, <1>4, <1>5, <1>6

LEMMA Counts ==
  ASSUME DrawingOK, process_fields_displayed \in SUBSET Fields
  PROVE  /\ ColorRows \in Nat /\ Len(drawing) \in Nat \ {0} /\ Len(drawing) <= MaxGpus
         /\ MaxGpus \in Nat \ {0} /\ FieldCount \in Nat \ {0}
         /\ Cardinality(Metrics) \in Nat \ {0}
         /\ Cardinality(process_fields_displayed) \in Nat
         /\ process_fields_displayed # {} => Cardinality(process_fields_displayed) # 0
<1>1. PICK g \in 1..MaxGpus : drawing \in [1..g -> ToDraw]
  BY DEF DrawingOK
<1>2. ColorRows \in Nat
  <2> DEFINE U == UNION {drawing[i] : i \in DOMAIN drawing}
  <2>1. \A i \in DOMAIN drawing : drawing[i] \subseteq Metrics
    BY <1>1 DEF ToDraw
  <2>2. U \subseteq Metrics
    BY <2>1, Zenon
  <2>3. IsFiniteSet(U)
    BY <2>2, MetricsAssumption, FS_Subset
  <2> QED
    BY <2>3, FS_CardinalityType, Zenon DEF ColorRows
<1>3. g \in Nat \ {0} /\ g <= MaxGpus /\ MaxGpus \in Nat \ {0}
  BY SetupAssumption
<1>4. Len(drawing) = g
  BY <1>1, <1>3
<1>5. Cardinality(Metrics) \in Nat /\ Cardinality(Metrics) # 0
  BY MetricsAssumption, SetupAssumption, FS_CardinalityType, FS_EmptySet
<1>6. IsFiniteSet(process_fields_displayed)
  <2>1. IsFiniteSet(Fields)
    BY FieldsAssumption, FS_Interval DEF Fields
  <2> QED
    BY <2>1, FS_Subset
<1>7. /\ Cardinality(process_fields_displayed) \in Nat
      /\ process_fields_displayed # {} => Cardinality(process_fields_displayed) # 0
  BY <1>6, FS_CardinalityType, FS_EmptySet
<1> QED
  BY <1>2, <1>3, <1>4, <1>5, <1>7, FieldsAssumption

\* Drawing brings the cursor to a line that there is.
LEMMA DrawnInRange ==
  ASSUME DrawingOK, process_fields_displayed \in SUBSET Fields,
         NEW c \in Cursors, Resting(c)
  PROVE  Drawn(c) \in Cursors /\ Resting(Drawn(c)) /\ InRange(Drawn(c))
<1>1. /\ ColorRows \in Nat /\ Len(drawing) \in Nat \ {0}
      /\ MaxGpus \in Nat \ {0} /\ FieldCount \in Nat \ {0}
      /\ Cardinality(Metrics) \in Nat \ {0}
      /\ Cardinality(process_fields_displayed) \in Nat
      /\ process_fields_displayed # {} => Cardinality(process_fields_displayed) # 0
  BY Counts
<1>2. c.section \in 1..5 /\ c.level \in 0..2 /\ c.row \in Nat /\ c.value \in Nat
  BY DEF Cursors
<1>3. CASE c.section = 1
  <2> DEFINE d == LevelAtMost(c, 1)  e == RowAtMost(d, 2)
  <2>1. /\ d \in Cursors /\ d.section = 1 /\ d.level = AtMost(c.level, 1) /\ d.row = c.row
    BY <1>3, Clamped, SMTT(40)
  <2>2. /\ e \in Cursors /\ e.section = 1 /\ e.level = d.level /\ e.row = AtMost(d.row, 2)
    BY <2>1, Clamped
  <2>3. Drawn(c) = IF d.level = 1 THEN e ELSE d
    BY <1>3, SectionIs DEF Drawn, DrawnGeneral
  <2> HIDE DEF d, e
  <2>4. Resting(d) /\ Resting(e)
    BY <1>2, <1>3, <2>1, <2>2 DEF Resting, AtMost
  <2>5. Drawn(c) \in Cursors /\ Drawn(c).section = 1 /\ Drawn(c).level < 2 /\ Drawn(c).row < 3
        /\ Resting(Drawn(c))
    BY <1>2, <1>3, <2>1, <2>2, <2>3, <2>4 DEF Resting, AtMost
  <2>6. SectionOf(Drawn(c)) = "general" /\ Rows("general") = 3
    BY <2>5, SectionIs DEF Rows
  <2> QED
    BY <2>5, <2>6 DEF InRange
<1>4. CASE c.section = 2
  <2> DEFINE d == LevelAtMost(c, 1)  e == RowAtMost(d, 2)
  <2>1. /\ d \in Cursors /\ d.section = 2 /\ d.level = AtMost(c.level, 1)
    BY <1>4, Clamped
  <2>2. /\ e \in Cursors /\ e.section = 2 /\ e.level = d.level /\ e.row = AtMost(d.row, 2)
        /\ d.row \in Nat
    BY <2>1, Clamped DEF Cursors
  <2>3. Drawn(c) = e
    BY <1>4, SectionIs DEF Drawn, DrawnHeader
  <2> HIDE DEF d, e
  <2>4. e.level < 2 /\ e.row < 3 /\ Resting(e)
    BY <1>2, <2>1, <2>2 DEF Resting, AtMost
  <2>5. SectionOf(e) = "header" /\ Rows("header") = 3
    BY <2>2, SectionIs DEF Rows
  <2> QED
    BY <2>2, <2>3, <2>4, <2>5 DEF InRange
<1>5. CASE c.section = 3
  <2> DEFINE last == FirstGpu + Len(drawing) - 1
             d == RowAtMost(c, last)
             inner == LevelAtMost(d, 1)
             values == Cardinality(Metrics) - 1
             outer == ValueAtMost(d, values)
  <2>1. last \in Nat /\ AllGpus \in Nat /\ values \in Nat /\ last + 1 = FirstGpu + Len(drawing)
    BY <1>1 DEF FirstGpu, AllGpus
  <2>2. Drawn(c) = IF d.row < AllGpus THEN inner ELSE outer
    BY <1>5, SectionIs DEF Drawn, DrawnChart
  <2>3. Rows("chart") = FirstGpu + Len(drawing)
    BY DEF Rows
  <2>4. \A x : x.section = 3 => SectionOf(x) = "chart"
    BY SectionIs
  <2>5. \A x : SectionOf(x) = "chart" /\ x.row >= AllGpus => Values(x) = Cardinality(Metrics)
    BY DEF Values
  <2> HIDE DEF last, d, values
  <2>6. /\ d \in Cursors /\ d.section = 3 /\ d.row = AtMost(c.row, last) /\ d.row \in Nat
    BY <1>5, <2>1, Clamped DEF d, Cursors
  <2>7. /\ inner \in Cursors /\ inner.section = 3 /\ inner.level = AtMost(d.level, 1)
        /\ inner.row = d.row
    <3>1. d \in Cursors /\ d.section = 3
      BY <2>6
    <3> QED
      BY <3>1, Clamped
  <2>8. /\ outer \in Cursors /\ outer.section = 3 /\ outer.value = AtMost(d.value, values)
        /\ outer.row = d.row
    BY <2>1, <2>6, Clamped
  <2>9. d.level \in 0..2 /\ d.value \in Nat
    BY <2>6 DEF Cursors
  <2> HIDE DEF inner, outer
  <2>10. d.row <= last /\ inner.level < 2 /\ outer.value <= values
    BY <1>2, <2>1, <2>6, <2>7, <2>8, <2>9 DEF AtMost
  <2>11. CASE d.row < AllGpus
    <3>1. inner.row < FirstGpu + Len(drawing) /\ Resting(inner)
      BY <2>1, <2>6, <2>7, <2>10 DEF Resting
    <3> QED
      BY <2>2, <2>3, <2>4, <2>7, <2>10, <2>11, <3>1 DEF InRange
  <2>12. CASE ~(d.row < AllGpus)
    <3>1. outer.row < FirstGpu + Len(drawing) /\ Resting(outer) /\ outer.row >= AllGpus
      BY <2>1, <2>6, <2>8, <2>10, <2>12 DEF Resting
    <3>2. outer.value < Cardinality(Metrics)
      BY <1>1, <2>8, <2>9, <2>10 DEF values, AtMost
    <3>3. SectionOf(outer) = "chart"
      BY <2>4, <2>8
    <3>4. Values(outer) = Cardinality(Metrics)
      BY <2>5, <3>1, <3>3
    <3>5. Drawn(c) = outer
      BY <2>2, <2>12
    <3> QED
      BY <2>3, <2>8, <3>1, <3>2, <3>3, <3>4, <3>5 DEF InRange
  <2> QED
    BY <2>11, <2>12
<1>6. CASE c.section = 4
  <2> DEFINE d == RowAtMost(c, FieldsRow)
             F == FieldCount - 1
             S == Cardinality(process_fields_displayed) - 1
             fields == ValueAtMost(d, F)
             sort == ValueAtMost(d, S)
             inner == LevelAtMost(d, 1)
  <2>1. Drawn(c) = CASE d.row = FieldsRow -> fields
                     [] d.row = SortRow /\ process_fields_displayed # {} -> sort
                     [] OTHER -> inner
    BY <1>6, SectionIs DEF Drawn, DrawnProcesses
  <2>2. FieldsRow = 4 /\ SortRow = 3 /\ Rows("processes") = 5 /\ F \in Nat
        /\ (process_fields_displayed # {} => S \in Nat)
    BY <1>1 DEF FieldsRow, SortRow, Rows
  <2>3. \A x : x.section = 4 => SectionOf(x) = "processes"
    BY SectionIs
  <2>4. /\ \A x : SectionOf(x) = "processes" /\ x.row = 4 => Values(x) = FieldCount
        /\ \A x : SectionOf(x) = "processes" /\ x.row = 3 =>
                    Values(x) = Cardinality(process_fields_displayed)
    BY DEF Values, FieldsRow, SortRow
  <2> HIDE DEF d
  <2>5. d \in Cursors /\ d.section = 4 /\ d.row = AtMost(c.row, 4)
    <3>1. FieldsRow \in Nat
      BY <2>2
    <3>2. d \in Cursors /\ d.section = c.section /\ d.row = AtMost(c.row, FieldsRow)
      BY <3>1, Clamped, Zenon DEF d
    <3> QED
      BY <1>6, <2>2, <3>2
  <2>6. d.level \in 0..2 /\ d.value \in Nat /\ d.row \in Nat /\ d.row < 5
    BY <1>2, <2>5 DEF Cursors, AtMost
  <2>7. fields \in Cursors /\ fields.section = 4 /\ fields.row = d.row /\ fields.value = AtMost(d.value, F)
    BY <2>2, <2>5, Clamped
  <2>8. inner \in Cursors /\ inner.section = 4 /\ inner.row = d.row /\ inner.level = AtMost(d.level, 1)
    BY <2>5, Clamped
  <2>9. process_fields_displayed # {} =>
          sort \in Cursors /\ sort.section = 4 /\ sort.row = d.row /\ sort.value = AtMost(d.value, S)
    BY <2>2, <2>5, Clamped
  <2> HIDE DEF fields, sort, inner
  <2>10. CASE d.row = FieldsRow
    <3>1. Drawn(c) = fields /\ fields.row = 4 /\ SectionOf(fields) = "processes"
      BY <2>1, <2>2, <2>3, <2>7, <2>10
    <3>2. fields.value < FieldCount /\ Resting(fields)
      BY <1>1, <2>2, <2>6, <2>7 DEF AtMost, Resting
    <3> QED
      BY <2>2, <2>4, <2>7, <3>1, <3>2 DEF InRange
  <2>11. CASE d.row = SortRow /\ process_fields_displayed # {}
    <3>1. Drawn(c) = sort /\ sort.row = 3 /\ SectionOf(sort) = "processes"
      BY <2>1, <2>2, <2>3, <2>9, <2>11
    <3>2. sort.value < Cardinality(process_fields_displayed) /\ Resting(sort)
      BY <1>1, <2>2, <2>6, <2>9, <2>11 DEF AtMost, Resting
    <3> QED
      BY <2>2, <2>4, <2>9, <2>11, <3>1, <3>2 DEF InRange
  <2>12. CASE ~(d.row = FieldsRow) /\ ~(d.row = SortRow /\ process_fields_displayed # {})
    <3>1. Drawn(c) = inner /\ inner.row < 5 /\ SectionOf(inner) = "processes"
      BY <2>1, <2>2, <2>3, <2>6, <2>8, <2>12
    <3>2. inner.level < 2 /\ Resting(inner)
      BY <2>6, <2>8 DEF AtMost, Resting
    <3> QED
      BY <2>2, <2>8, <3>1, <3>2 DEF InRange
  <2> QED
    BY <2>10, <2>11, <2>12
<1>7. CASE c.section = 5
  <2> DEFINE d == LevelAtMost(c, 1)  last == MaxGpus - 1  e == RowAtMost(d, last)
  <2>1. /\ d \in Cursors /\ d.section = 5 /\ d.level = AtMost(c.level, 1) /\ d.row = c.row
    BY <1>7, Clamped
  <2>2. last \in Nat
    BY <1>1
  <2>3. /\ e \in Cursors /\ e.section = 5 /\ e.level = d.level /\ e.row = AtMost(d.row, last)
    BY <2>1, <2>2, Clamped
  <2>4. Drawn(c) = IF d.level = 1 THEN e ELSE d
    BY <1>7, SectionIs DEF Drawn, DrawnDevices
  <2> HIDE DEF d, e
  <2>5. Resting(d) /\ Resting(e) /\ e.row < MaxGpus
    BY <1>1, <1>2, <1>7, <2>1, <2>3 DEF Resting, AtMost
  <2>6. Drawn(c) \in Cursors /\ Drawn(c).section = 5 /\ Drawn(c).level < 2 /\ Drawn(c).row < MaxGpus
        /\ Resting(Drawn(c))
    BY <1>1, <1>2, <1>7, <2>1, <2>3, <2>4, <2>5 DEF Resting, AtMost
  <2>7. SectionOf(Drawn(c)) = "devices" /\ Rows("devices") = MaxGpus
    BY <2>6, SectionIs DEF Rows
  <2> QED
    BY <2>6, <2>7 DEF InRange
<1> QED
  BY <1>2, <1>3, <1>4, <1>5, <1>6, <1>7

-----------------------------------------------------------------------------
(* The keys.                                                                *)

LEMMA SetupStart == SetupInit => SetupInv
<1> SUFFICES ASSUME SetupInit
             PROVE  SetupInv
  OBVIOUS
<1>1. DrawingOK /\ process_fields_displayed \in SUBSET Fields
  BY DEF SetupInit, DrawingOK
<1>2. SortIsShown(sort_processes_by, process_fields_displayed)
  BY <1>1, DefaultIsShown DEF SetupInit
<1>3. Home \in Cursors /\ Resting(Home)
  BY SetupAssumption DEF Home, Cursors, Resting
<1> QED
  BY <1>1, <1>2, <1>3 DEF SetupInit, SetupInv, OptionsOK

\* The cursor is in the same place as before as long as the lists are.
LEMMA SameLists ==
  ASSUME UNCHANGED <<drawing, process_fields_displayed>>, NEW d, cursor' = d
  PROVE  InRange(d) => InRange(cursor)'
BY DEF InRange, Rows, Values, SectionOf, FirstGpu, AllGpus, ColorRows

LEMMA SetupTopKeeps ==
  ASSUME SetupInv, SetupTop
  PROVE  SetupInv'
<1>1. /\ UNCHANGED <<process_fields_displayed, sort_processes_by>> /\ drawn' = TRUE
      /\ open \in BOOLEAN /\ open' \in {open, FALSE}
      /\ drawing' = drawing \/ (~open' /\ DrawingOK')
      /\ cursor' = IF open' THEN Drawn(cursor) ELSE Home
  BY DEF SetupTop, SetupInv, DrawingOK
<1>2. OptionsOK'
  <2>1. DrawingOK'
    BY <1>1 DEF SetupInv, OptionsOK, DrawingOK
  <2> QED
    BY <1>1, <2>1 DEF SetupInv, OptionsOK
<1>3. CASE open'
  <2> DEFINE d == Drawn(cursor)
  <2>1. d \in Cursors /\ Resting(d) /\ InRange(d)
    BY DrawnInRange DEF SetupInv, OptionsOK
  <2>2. cursor' = d /\ UNCHANGED <<drawing, process_fields_displayed>>
    BY <1>1, <1>3
  <2> HIDE DEF d
  <2>3. InRange(cursor)'
    BY <2>1, <2>2, SameLists
  <2> QED
    BY <1>1, <1>2, <1>3, <2>1, <2>2, <2>3, Zenon DEF SetupInv, Resting
<1>4. CASE ~open'
  <2>1. Home \in Cursors /\ Resting(Home)
    BY SetupAssumption DEF Home, Cursors, Resting
  <2>2. cursor' = Home /\ open' \in BOOLEAN
    BY <1>1, <1>4
  <2> HIDE DEF Home
  <2> QED
    BY <1>1, <1>2, <1>4, <2>1, <2>2, Zenon DEF SetupInv, Resting
<1> QED
  BY <1>3, <1>4

\* After a key only these matter.
LEMMA AfterKey ==
  ASSUME OptionsOK', open' \in BOOLEAN, drawn' = FALSE, NEW c \in Cursors, Resting(c), cursor' = c
  PROVE  SetupInv'
BY Zenon DEF SetupInv, Resting

\* The moves that change two and three parts of the cursor.
LEMMA AtSectionIs ==
  ASSUME NEW c \in Cursors, NEW s
  PROVE  AtSection(c, s) = [section |-> s, level |-> c.level, row |-> 0, value |-> 0]
<1> DEFINE d == [c EXCEPT !.section = s]  e == [d EXCEPT !.row = 0]  f == [e EXCEPT !.value = 0]
<1>1. AtSection(c, s) = f
  BY Zenon DEF AtSection
<1>2. d = [section |-> s, level |-> c.level, row |-> c.row, value |-> c.value]
  BY DEF Cursors
<1> HIDE DEF d
<1>3. e = [section |-> s, level |-> c.level, row |-> 0, value |-> c.value]
  BY <1>2
<1> HIDE DEF e
<1>4. f = [section |-> s, level |-> c.level, row |-> 0, value |-> 0]
  BY <1>3
<1> QED
  BY <1>1, <1>4

LEMMA RowMoves ==
  ASSUME NEW c \in Cursors, c.level = 1
  PROVE  /\ Upward(c) = [section |-> c.section, level |-> 1,
                         row |-> IF c.row = 0 THEN 0 ELSE c.row - 1, value |-> 0]
         /\ Downward(c) = [section |-> c.section, level |-> 1, row |-> c.row + 1, value |-> 0]
<1> DEFINE d == [c EXCEPT !.value = 0]
           up == IF c.row = 0 THEN 0 ELSE c.row - 1
           down == c.row + 1
<1>1. d = [section |-> c.section, level |-> 1, row |-> c.row, value |-> 0] /\ d.row = c.row
  BY DEF Cursors
<1>2. /\ Upward(c) = [c EXCEPT !.value = 0, !.row = IF @ = 0 THEN 0 ELSE @ - 1]
      /\ Downward(c) = [c EXCEPT !.value = 0, !.row = @ + 1]
  BY DEF Upward, Downward
<1>3. /\ Upward(c) = [d EXCEPT !.row = IF d.row = 0 THEN 0 ELSE d.row - 1]
      /\ Downward(c) = [d EXCEPT !.row = d.row + 1]
  BY <1>2, Zenon
<1> HIDE DEF d
<1>4. Upward(c) = [d EXCEPT !.row = up] /\ Downward(c) = [d EXCEPT !.row = down]
  BY <1>1, <1>3
<1> HIDE DEF up, down
<1>5. /\ [d EXCEPT !.row = up] = [section |-> c.section, level |-> 1, row |-> up, value |-> 0]
      /\ [d EXCEPT !.row = down] = [section |-> c.section, level |-> 1, row |-> down, value |-> 0]
  BY <1>1
<1> QED
  BY <1>4, <1>5 DEF up, down

LEMMA Moves ==
  ASSUME NEW c \in Cursors, Resting(c), c.level = 1 => InRange(c)
  PROVE  /\ Inward(c) \in Cursors /\ Resting(Inward(c))
         /\ Outward(c) \in Cursors /\ Resting(Outward(c))
         /\ Upward(c) \in Cursors /\ Resting(Upward(c))
         /\ Downward(c) \in Cursors /\ Resting(Downward(c))
<1>1. /\ c.section \in 1..5 /\ c.level \in 0..2 /\ c.row \in Nat /\ c.value \in Nat
  BY DEF Cursors
<1>2. MaxGpus \in Nat \ {0} /\ Len(Sections) = 5
  BY SetupAssumption DEF Sections
<1>3. c.level = 1 => /\ c.section = 1 => c.row < 3
                     /\ c.section = 5 => c.row < MaxGpus
  <2>1. Rows("general") = 3 /\ Rows("devices") = MaxGpus
    BY DEF Rows
  <2>2. c.section = 1 => SectionOf(c) = "general"
    BY SectionIs
  <2>3. c.section = 5 => SectionOf(c) = "devices"
    BY SectionIs
  <2> QED
    BY <2>1, <2>2, <2>3 DEF InRange
<1>4. Inward(c) \in Cursors /\ Resting(Inward(c))
  <2>1. /\ Inward(c) = [section |-> c.section, level |-> AtMost(c.level + 1, 2),
                        row |-> c.row, value |-> c.value]
        /\ AtMost(c.level + 1, 2) \in 1..2
    BY <1>1 DEF Inward, Cursors, AtMost
  <2> QED
    BY <1>1, <2>1 DEF Cursors, Resting
<1>5. Outward(c) \in Cursors /\ Resting(Outward(c))
  <2> DEFINE l == IF c.level = 0 THEN 0 ELSE c.level - 1
  <2>1. /\ Outward(c) = [section |-> c.section, level |-> l, row |-> c.row, value |-> c.value]
    BY DEF Outward, Cursors
  <2>2. l \in 0..2 /\ (l = 0 => c.level = 0 \/ c.level = 1)
    BY <1>1
  <2> HIDE DEF l
  <2> QED
    BY <1>1, <1>3, <2>1, <2>2 DEF Cursors, Resting
<1>6. \A s \in 1..5 : c.level = 0 => AtSection(c, s) \in Cursors /\ Resting(AtSection(c, s))
  <2>1. SUFFICES ASSUME NEW s \in 1..5, c.level = 0
                 PROVE  AtSection(c, s) \in Cursors /\ Resting(AtSection(c, s))
    OBVIOUS
  <2>2. AtSection(c, s) = [section |-> s, level |-> 0, row |-> 0, value |-> 0]
    BY <2>1, AtSectionIs
  <2> QED
    BY <1>2, <2>2 DEF Cursors, Resting
<1>7. CASE c.level = 0
  <2>1. Upward(c) \in {c, AtSection(c, c.section - 1)} /\ (c.section = 1 => Upward(c) = c)
    BY <1>7 DEF Upward
  <2>2. Downward(c) \in {c, AtSection(c, c.section + 1)} /\ (c.section = 5 => Downward(c) = c)
    BY <1>2, <1>7 DEF Downward
  <2>3. /\ c.section # 1 => c.section - 1 \in 1..5
        /\ c.section # 5 => c.section + 1 \in 1..5
    BY <1>1
  <2> QED
    BY <1>4, <1>5, <1>6, <1>7, <2>1, <2>2, <2>3
<1>8. CASE c.level = 1
  <2> DEFINE r == IF c.row = 0 THEN 0 ELSE c.row - 1
  <2>1. /\ Upward(c) = [section |-> c.section, level |-> 1, row |-> r, value |-> 0]
        /\ Downward(c) = [section |-> c.section, level |-> 1, row |-> c.row + 1, value |-> 0]
    BY <1>8, RowMoves
  <2>2. r \in Nat /\ c.row + 1 \in Nat
    BY <1>1
  <2> HIDE DEF r
  <2> QED
    BY <1>1, <1>4, <1>5, <2>1, <2>2 DEF Cursors, Resting
<1>9. CASE c.level = 2
  <2> DEFINE v == IF c.value = 0 THEN 0 ELSE c.value - 1
  <2>1. /\ Upward(c) = [section |-> c.section, level |-> 2, row |-> c.row, value |-> v]
        /\ Downward(c) = [section |-> c.section, level |-> 2, row |-> c.row, value |-> c.value + 1]
    BY <1>9 DEF Upward, Downward, Cursors
  <2>2. v \in Nat /\ c.value + 1 \in Nat
    BY <1>1
  <2> HIDE DEF v
  <2> QED
    BY <1>1, <1>4, <1>5, <2>1, <2>2 DEF Cursors, Resting
<1> QED
  BY <1>1, <1>7, <1>8, <1>9

\* What Enter indexes with the cursor.
LEMMA EnterIsOn ==
  ASSUME SetupInv, SetupKey, cursor.level = 2
  PROVE  /\ SectionOf(cursor) = "chart" /\ cursor.row >= AllGpus =>
              /\ cursor.row < FirstGpu + Len(drawing) /\ cursor.value < Cardinality(Metrics)
              /\ Kth(Metrics, cursor.value) \in Metrics
         /\ SectionOf(cursor) = "processes" /\ cursor.row = SortRow =>
              /\ cursor.value < Cardinality(process_fields_displayed)
              /\ Kth(process_fields_displayed, cursor.value) \in process_fields_displayed
         /\ SectionOf(cursor) = "processes" /\ cursor.row = FieldsRow => cursor.value < FieldCount
<1>1. InRange(cursor) /\ cursor \in Cursors
  BY DEF SetupInv, SetupKey
<1>2. cursor.value \in Nat
  BY <1>1 DEF Cursors
<1>3. cursor.row < Rows(SectionOf(cursor)) /\ cursor.value < Values(cursor)
  BY <1>1 DEF InRange
<1>4. ASSUME SectionOf(cursor) = "chart", cursor.row >= AllGpus
      PROVE  /\ cursor.row < FirstGpu + Len(drawing) /\ cursor.value < Cardinality(Metrics)
             /\ Kth(Metrics, cursor.value) \in Metrics
  <2>1. Rows(SectionOf(cursor)) = FirstGpu + Len(drawing) /\ Values(cursor) = Cardinality(Metrics)
    BY <1>4 DEF Rows, Values
  <2>2. cursor.value < Cardinality(Metrics)
    BY <1>3, <2>1
  <2>3. Kth(Metrics, cursor.value) \in Metrics
    BY <1>2, <2>2, MetricsAssumption, KthIs
  <2> QED
    BY <1>3, <2>1, <2>2, <2>3
<1>5. ASSUME SectionOf(cursor) = "processes", cursor.row = SortRow
      PROVE  /\ cursor.value < Cardinality(process_fields_displayed)
             /\ Kth(process_fields_displayed, cursor.value) \in process_fields_displayed
  <2>1. Values(cursor) = Cardinality(process_fields_displayed)
    BY <1>5 DEF Values, SortRow, FieldsRow
  <2>2. cursor.value < Cardinality(process_fields_displayed)
    BY <1>3, <2>1
  <2>3. process_fields_displayed \in SUBSET Nat /\ IsFiniteSet(process_fields_displayed)
    <3>1. process_fields_displayed \subseteq Fields
      BY DEF SetupInv, OptionsOK
    <3>2. IsFiniteSet(Fields)
      BY FieldsAssumption, FS_Interval DEF Fields
    <3>3. IsFiniteSet(process_fields_displayed)
      BY <3>1, <3>2, FS_Subset
    <3> QED
      BY <3>1, <3>3 DEF Fields
  <2> QED
    BY <1>2, <2>2, <2>3, KthIs
<1>6. ASSUME SectionOf(cursor) = "processes", cursor.row = FieldsRow
      PROVE  cursor.value < FieldCount
  <2>1. Values(cursor) = FieldCount
    BY <1>6 DEF Values, SortRow, FieldsRow
  <2> QED
    BY <1>3, <2>1
<1> QED
  BY <1>4, <1>5, <1>6

\* A toggled metric leaves a device with a set it may draw.
LEMMA EnterAllKeepsOptions ==
  ASSUME SetupInv, EnterAllGpus
  PROVE  OptionsOK' /\ DOMAIN drawing' = DOMAIN drawing
<1> DEFINE m == Kth(Metrics, cursor.value)
           all == \A i \in DOMAIN drawing : m \in drawing[i]
<1>1. /\ drawing' = [i \in DOMAIN drawing |-> ToggledForAll(m, drawing[i], all)]
      /\ UNCHANGED <<process_fields_displayed, sort_processes_by>>
  BY DEF EnterAllGpus
<1>2. m \in Metrics
  <2>1. cursor.level = 2 /\ SectionOf(cursor) = "chart" /\ cursor.row = AllGpus
    BY DEF EnterAllGpus, At
  <2>2. AllGpus \in Nat
    BY Counts DEF SetupInv, OptionsOK, AllGpus
  <2>3. cursor.row >= AllGpus
    BY <2>1, <2>2
  <2> QED
    BY <2>1, <2>3, EnterIsOn DEF EnterAllGpus
<1> HIDE DEF m, all
<1>3. PICK g \in 1..MaxGpus : drawing \in [1..g -> ToDraw]
  BY DEF SetupInv, OptionsOK, DrawingOK
<1>4. \A i \in 1..g : ToggledForAll(m, drawing[i], all) \in ToDraw
  BY <1>2, <1>3, StillDrawn DEF ToggledForAll
<1>5. drawing' \in [1..g -> ToDraw] /\ DOMAIN drawing' = DOMAIN drawing
  BY <1>1, <1>3, <1>4
<1>6. DrawingOK'
  BY <1>5 DEF DrawingOK
<1> QED
  BY <1>1, <1>5, <1>6 DEF SetupInv, OptionsOK

LEMMA EnterGpuKeepsOptions ==
  ASSUME SetupInv, EnterGpu
  PROVE  OptionsOK' /\ DOMAIN drawing' = DOMAIN drawing
<1> DEFINE m == Kth(Metrics, cursor.value)
           gpu == cursor.row - FirstGpu + 1
           new == Toggled(m, drawing[gpu])
<1>1. /\ drawing' = [drawing EXCEPT ![gpu] = new]
      /\ UNCHANGED <<process_fields_displayed, sort_processes_by>>
  BY DEF EnterGpu
<1>2. PICK g \in 1..MaxGpus : drawing \in [1..g -> ToDraw]
  BY DEF SetupInv, OptionsOK, DrawingOK
<1>3. m \in Metrics /\ gpu \in 1..g
  <2>1. cursor.level = 2 /\ SectionOf(cursor) = "chart" /\ cursor.row > AllGpus
    BY DEF EnterGpu, At
  <2>2. /\ AllGpus \in Nat /\ FirstGpu = AllGpus + 1
        /\ Len(drawing) \in Nat /\ cursor.row \in Nat
    <3>1. ColorRows \in Nat /\ Len(drawing) \in Nat
      BY Counts DEF SetupInv, OptionsOK
    <3>2. cursor.row \in Nat
      BY DEF SetupInv, Cursors
    <3> QED
      BY <3>1, <3>2 DEF AllGpus, FirstGpu
  <2>3. cursor.row >= AllGpus
    BY <2>1, <2>2
  <2>4. m \in Metrics /\ cursor.row < FirstGpu + Len(drawing)
    BY <2>1, <2>3, EnterIsOn DEF EnterGpu
  <2>5. Len(drawing) = g
    BY <1>2, SetupAssumption
  <2> QED
    BY <2>1, <2>2, <2>4, <2>5
<1> HIDE DEF m, gpu
<1>4. new \in ToDraw
  BY <1>2, <1>3, StillDrawn DEF Toggled
<1>5. drawing' \in [1..g -> ToDraw] /\ DOMAIN drawing' = DOMAIN drawing
  BY <1>1, <1>2, <1>4
<1>6. DrawingOK'
  BY <1>5 DEF DrawingOK
<1> QED
  BY <1>1, <1>5, <1>6 DEF SetupInv, OptionsOK

\* What is sorted by is displayed whatever is hidden.
LEMMA EnterFieldKeepsOptions ==
  ASSUME SetupInv, EnterField
  PROVE  OptionsOK'
<1> DEFINE f == cursor.value + 1
           columns == IF f \in process_fields_displayed THEN process_fields_displayed \ {f}
                    ELSE process_fields_displayed \cup {f}
<1>1. /\ process_fields_displayed' = columns /\ drawing' = drawing
      /\ sort_processes_by' = IF sort_processes_by \in columns THEN sort_processes_by
                              ELSE DefaultSort(columns)
  BY Zenon DEF EnterField
<1>2. f \in Fields
  <2>1. cursor.value < FieldCount /\ cursor.value \in Nat
    <3>1. cursor.level = 2 /\ SectionOf(cursor) = "processes" /\ cursor.row = FieldsRow
      BY DEF EnterField, At
    <3> QED
      BY <3>1, EnterIsOn DEF EnterField, SetupInv, Cursors
  <2> QED
    BY <2>1, FieldsAssumption DEF Fields
<1> HIDE DEF f
<1>3. columns \in SUBSET Fields
  BY <1>2 DEF SetupInv, OptionsOK
<1> HIDE DEF columns
<1>4. SortIsShown(sort_processes_by', columns)
  <2>1. CASE sort_processes_by \in columns
    BY <1>1, <2>1 DEF SortIsShown
  <2>2. CASE ~(sort_processes_by \in columns)
    BY <1>1, <1>3, <2>2, DefaultIsShown
  <2> QED
    BY <2>1, <2>2
<1>5. DrawingOK'
  BY <1>1 DEF SetupInv, OptionsOK, DrawingOK
<1> QED
  BY <1>1, <1>3, <1>4, <1>5 DEF OptionsOK, SortIsShown

\* The lines of the chart section are numbers before a key and after it.
LinesAreNat == ColorRows \in Nat /\ AllGpus \in Nat /\ FirstGpu \in Nat /\ FirstGpu = AllGpus + 1

LEMMA LinesNow == OptionsOK => LinesAreNat
BY Counts DEF OptionsOK, LinesAreNat, AllGpus, FirstGpu

LEMMA LinesAfter == OptionsOK' => LinesAreNat'
BY LinesNow, PTL

\* The length of what is drawn is that of its domain.
LEMMA SameDevices ==
  ASSUME OptionsOK, OptionsOK', DOMAIN drawing' = DOMAIN drawing
  PROVE  Len(drawing') = Len(drawing) /\ Len(drawing) \in Nat
<1>1. PICK g \in 1..MaxGpus : drawing \in [1..g -> ToDraw]
  BY DEF OptionsOK, DrawingOK
<1>2. PICK h \in 1..MaxGpus : drawing' \in [1..h -> ToDraw]
  BY DEF OptionsOK, DrawingOK
<1>3. g \in Nat /\ h \in Nat /\ 1..g = 1..h
  BY <1>1, <1>2, SetupAssumption
<1>4. Len(drawing) = g /\ Len(drawing') = h
  BY <1>1, <1>2, <1>3
<1>5. g = h
  <2>1. g \in 1..g /\ h \in 1..h
    BY <1>1, <1>2, SetupAssumption
  <2>2. g \in 1..h /\ h \in 1..g
    BY <1>3, <2>1
  <2> QED
    BY <1>3, <2>2
<1> QED
  BY <1>3, <1>4, <1>5

\* A cursor in a list of values is where drawing leaves it.
OnValue == OptionsOK /\ cursor \in Cursors /\ cursor.level = 2 /\ InRange(cursor)
Stays == Drawn(cursor) = cursor

LEMMA SameRecord ==
  ASSUME NEW c \in Cursors
  PROVE  /\ \A limit \in Nat : c.row <= limit => RowAtMost(c, limit) = c
         /\ \A limit \in Nat : c.value <= limit => ValueAtMost(c, limit) = c
<1>1. c.row \in Nat /\ c.value \in Nat
  BY DEF Cursors
<1>2. [c EXCEPT !.row = c.row] = c /\ [c EXCEPT !.value = c.value] = c
  BY DEF Cursors
<1>3. \A n, limit \in Nat : n <= limit => AtMost(n, limit) = n
  BY DEF AtMost
<1>4. /\ \A limit : RowAtMost(c, limit) = [c EXCEPT !.row = AtMost(c.row, limit)]
      /\ \A limit : ValueAtMost(c, limit) = [c EXCEPT !.value = AtMost(c.value, limit)]
  BY Zenon DEF RowAtMost, ValueAtMost
<1> QED
  BY <1>1, <1>2, <1>3, <1>4, Zenon

LEMMA StaysNow == OnValue => Stays
<1> SUFFICES ASSUME OnValue
             PROVE  Drawn(cursor) = cursor
  BY DEF Stays
<1>1. /\ cursor \in Cursors /\ cursor.level = 2
      /\ cursor.row < Rows(SectionOf(cursor)) /\ cursor.value < Values(cursor)
  BY DEF OnValue, InRange
<1>2. cursor.section \in 1..5 /\ cursor.row \in Nat /\ cursor.value \in Nat
  BY <1>1 DEF Cursors
<1>3. /\ LinesAreNat /\ Len(drawing) \in Nat \ {0}
      /\ Cardinality(Metrics) \in Nat \ {0} /\ FieldCount \in Nat \ {0}
      /\ Cardinality(process_fields_displayed) \in Nat
      /\ process_fields_displayed # {} => Cardinality(process_fields_displayed) # 0
  BY Counts, LinesNow DEF OnValue, OptionsOK
<1>4. SectionOf(cursor) \in {"general", "header", "chart", "processes", "devices"}
  BY <1>2, SectionIs
<1>5. CASE SectionOf(cursor) = "chart" /\ cursor.row >= AllGpus
  <2> DEFINE last == FirstGpu + Len(drawing) - 1  values == Cardinality(Metrics) - 1
             d == RowAtMost(cursor, last)
  <2>1. Rows(SectionOf(cursor)) = FirstGpu + Len(drawing) /\ Values(cursor) = Cardinality(Metrics)
    BY <1>5 DEF Rows, Values
  <2>2. last \in Nat /\ values \in Nat /\ cursor.row <= last /\ cursor.value <= values
    BY <1>1, <1>2, <1>3, <2>1 DEF LinesAreNat
  <2>3. Drawn(cursor) = IF d.row < AllGpus THEN LevelAtMost(d, 1) ELSE ValueAtMost(d, values)
    BY <1>5 DEF Drawn, DrawnChart
  <2> HIDE DEF last, values
  <2>4. d = cursor /\ ValueAtMost(cursor, values) = cursor
    BY <1>1, <2>2, SameRecord
  <2> HIDE DEF d
  <2>5. ~(cursor.row < AllGpus)
    BY <1>2, <1>3, <1>5 DEF LinesAreNat
  <2> QED
    BY <2>3, <2>4, <2>5
<1>6. CASE SectionOf(cursor) = "processes" /\ cursor.row \in {SortRow, FieldsRow}
  <2> DEFINE F == FieldCount - 1  S == Cardinality(process_fields_displayed) - 1
             d == RowAtMost(cursor, FieldsRow)
  <2>1. /\ cursor.row = SortRow => Values(cursor) = Cardinality(process_fields_displayed)
        /\ cursor.row = FieldsRow => Values(cursor) = FieldCount
        /\ SortRow = 3 /\ FieldsRow = 4
    BY <1>6 DEF Values, SortRow, FieldsRow
  <2>2. Drawn(cursor) = CASE d.row = FieldsRow -> ValueAtMost(d, F)
                          [] d.row = SortRow /\ process_fields_displayed # {} -> ValueAtMost(d, S)
                          [] OTHER -> LevelAtMost(d, 1)
    BY <1>6 DEF Drawn, DrawnProcesses
  <2>3. cursor.row <= FieldsRow /\ FieldsRow \in Nat
    BY <1>6, <2>1
  <2>4. d = cursor
    BY <1>1, <2>3, SameRecord
  <2>5. cursor.row = FieldsRow => F \in Nat /\ cursor.value <= F
    BY <1>1, <1>2, <1>3, <2>1
  <2>6. cursor.row = SortRow => S \in Nat /\ cursor.value <= S
    BY <1>1, <1>2, <1>3, <2>1
  <2>7. cursor.row = SortRow => process_fields_displayed # {}
    <3>1. SUFFICES ASSUME cursor.row = SortRow, process_fields_displayed = {}
                   PROVE  FALSE
      OBVIOUS
    <3>2. Cardinality(process_fields_displayed) = 0
      BY <3>1, FS_EmptySet
    <3> QED
      BY <2>1, <1>1, <1>2, <3>1, <3>2
  <2> HIDE DEF F, S, d
  <2>8. cursor.row = FieldsRow => ValueAtMost(cursor, F) = cursor
    BY <1>1, <2>5, SameRecord
  <2>9. cursor.row = SortRow => ValueAtMost(cursor, S) = cursor
    BY <1>1, <2>6, SameRecord
  <2> QED
    BY <1>6, <2>1, <2>2, <2>4, <2>7, <2>8, <2>9
<1>7. CASE /\ ~(SectionOf(cursor) = "chart" /\ cursor.row >= AllGpus)
           /\ ~(SectionOf(cursor) = "processes" /\ cursor.row \in {SortRow, FieldsRow})
  <2>1. Values(cursor) = 0
    BY <1>7 DEF Values
  <2> QED
    BY <1>1, <1>2, <2>1
<1> QED
  BY <1>5, <1>6, <1>7

LEMMA StaysAfter == OnValue' => Stays'
BY StaysNow, PTL

LEMMA EnterAllGpusKeeps ==
  ASSUME SetupInv, EnterAllGpus
  PROVE  SetupInv' /\ Meaning(Drawn(cursor))' = Meaning(cursor)
<1> DEFINE line == AllGpus'
<1>1. OptionsOK' /\ OptionsOK /\ DOMAIN drawing' = DOMAIN drawing
  BY EnterAllKeepsOptions DEF SetupInv
<1>2. LinesAreNat /\ LinesAreNat' /\ Len(drawing') = Len(drawing) /\ Len(drawing) \in Nat
  BY <1>1, LinesNow, LinesAfter, SameDevices
<1>3. /\ cursor' = [cursor EXCEPT !.row = line] /\ cursor.row = AllGpus /\ cursor.level = 2
      /\ SectionOf(cursor) = "chart" /\ open' \in BOOLEAN /\ drawn' = FALSE
      /\ cursor \in Cursors
  BY DEF EnterAllGpus, SetupKey, At, SetupInv
<1>4. Len(drawing) # 0 /\ cursor.value < Cardinality(Metrics)
  <2>1. AllGpus \in Nat /\ cursor.row >= AllGpus
    BY <1>2, <1>3 DEF LinesAreNat
  <2>2. Len(drawing) # 0
    BY Counts, <1>1 DEF OptionsOK
  <2> QED
    BY <1>3, <2>1, <2>2, EnterIsOn DEF EnterAllGpus
<1>5. line \in Nat /\ FirstGpu' = line + 1
  BY <1>2 DEF LinesAreNat
<1> HIDE DEF line
<1>6. /\ cursor' = [section |-> cursor.section, level |-> 2, row |-> line, value |-> cursor.value]
      /\ cursor' \in Cursors
  BY <1>3, <1>5 DEF Cursors
<1>7. SectionOf(cursor') = "chart" /\ cursor'.row = line /\ cursor'.level = 2
      /\ cursor'.value = cursor.value
  BY <1>3, <1>6 DEF SectionOf
<1>8. SetupInv'
  <2>1. Resting(cursor')
    BY <1>7 DEF Resting
  <2> QED
    BY <1>1, <1>3, <1>6, <2>1, AfterKey
<1>9. InRange(cursor)'
  <2>1. Rows("chart")' = FirstGpu' + Len(drawing')
    BY DEF Rows
  <2>2. Values(cursor)' = Cardinality(Metrics)
    <3>1. (cursor.row >= AllGpus)'
      BY <1>5, <1>7 DEF line
    <3> QED
      BY <1>7, <3>1 DEF Values
  <2>3. line < FirstGpu' + Len(drawing')
    BY <1>2, <1>5
  <2> QED
    BY <1>4, <1>7, <2>1, <2>2, <2>3 DEF InRange
<1>10. Stays'
  BY <1>1, <1>6, <1>7, <1>9, StaysAfter DEF OnValue
<1>11. Meaning(cursor)' = Meaning(cursor)
  <2>1. /\ Meaning(cursor)' = [cursor' EXCEPT !.row = <<"from all gpus", line - line>>]
        /\ Meaning(cursor) = [cursor EXCEPT !.row = <<"from all gpus", cursor.row - AllGpus>>]
    <3>1. (cursor.row >= AllGpus)' /\ cursor.row >= AllGpus
      BY <1>2, <1>3, <1>5, <1>7 DEF line, LinesAreNat
    <3> QED
      BY <1>3, <1>7, <3>1, Zenon DEF Meaning, line
  <2>2. line - line = 0 /\ cursor.row - AllGpus = 0
    BY <1>2, <1>3, <1>5 DEF LinesAreNat
  <2>3. cursor.section \in 1..5 /\ cursor = [section |-> cursor.section, level |-> 2,
                                              row |-> cursor.row, value |-> cursor.value]
    BY <1>3 DEF Cursors
  <2> DEFINE tag == <<"from all gpus", 0>>
  <2>4. /\ Meaning(cursor)' = [cursor' EXCEPT !.row = tag]
        /\ Meaning(cursor) = [cursor EXCEPT !.row = tag]
    BY <2>1, <2>2, Zenon
  <2> HIDE DEF tag
  <2>5. [cursor' EXCEPT !.row = tag] = [section |-> cursor.section, level |-> 2, row |-> tag,
                                        value |-> cursor.value]
    BY <1>6
  <2>6. [cursor EXCEPT !.row = tag] = [section |-> cursor.section, level |-> 2, row |-> tag,
                                       value |-> cursor.value]
    BY <2>3
  <2> QED
    BY <2>4, <2>5, <2>6
<1> QED
  BY <1>8, <1>10, <1>11, Zenon DEF Stays

LEMMA EnterGpuKeeps ==
  ASSUME SetupInv, EnterGpu
  PROVE  SetupInv' /\ Meaning(Drawn(cursor))' = Meaning(cursor)
<1> DEFINE gpu == cursor.row - FirstGpu + 1
           line == FirstGpu' + gpu - 1
<1>1. OptionsOK' /\ OptionsOK /\ DOMAIN drawing' = DOMAIN drawing
  BY EnterGpuKeepsOptions DEF SetupInv
<1>2. LinesAreNat /\ LinesAreNat' /\ Len(drawing') = Len(drawing) /\ Len(drawing) \in Nat
  BY <1>1, LinesNow, LinesAfter, SameDevices
<1>3. /\ cursor' = [cursor EXCEPT !.row = line] /\ cursor.row > AllGpus /\ cursor.level = 2
      /\ SectionOf(cursor) = "chart" /\ open' \in BOOLEAN /\ drawn' = FALSE
      /\ cursor \in Cursors /\ cursor.row \in Nat
  BY DEF EnterGpu, SetupKey, At, SetupInv, Cursors
<1>4. cursor.row >= AllGpus /\ cursor.row < FirstGpu + Len(drawing)
      /\ cursor.value < Cardinality(Metrics)
  <2>1. cursor.row >= AllGpus
    BY <1>2, <1>3 DEF LinesAreNat
  <2> QED
    BY <1>3, <2>1, EnterIsOn DEF EnterGpu
<1>5. /\ line \in Nat /\ line >= AllGpus' /\ line - AllGpus' = cursor.row - AllGpus
      /\ line < FirstGpu' + Len(drawing')
  <2> DEFINE a == AllGpus  b == AllGpus'  r == cursor.row  n == Len(drawing)
  <2>1. /\ a \in Nat /\ b \in Nat /\ r \in Nat /\ n \in Nat /\ r > a /\ r < (a + 1) + n
        /\ FirstGpu = a + 1 /\ FirstGpu' = b + 1 /\ Len(drawing') = n
    BY <1>2, <1>3, <1>4 DEF LinesAreNat
  <2>2. line = (b + 1) + (r - (a + 1) + 1) - 1
    BY <2>1
  <2> HIDE DEF line, gpu, a, b, r, n
  <2>3. line \in Nat /\ line >= b /\ line - b = r - a /\ line < (b + 1) + n
    BY <2>1, <2>2
  <2> QED
    BY <2>1, <2>3 DEF a, b, r, n
<1> HIDE DEF line, gpu
<1>6. /\ cursor' = [section |-> cursor.section, level |-> 2, row |-> line, value |-> cursor.value]
      /\ cursor' \in Cursors
  BY <1>3, <1>5 DEF Cursors
<1>7. SectionOf(cursor') = "chart" /\ cursor'.row = line /\ cursor'.level = 2
      /\ cursor'.value = cursor.value
  BY <1>3, <1>6 DEF SectionOf
<1>8. SetupInv'
  <2>1. Resting(cursor')
    BY <1>7 DEF Resting
  <2> QED
    BY <1>1, <1>3, <1>6, <2>1, AfterKey
<1>9. InRange(cursor)'
  <2>1. Rows("chart")' = FirstGpu' + Len(drawing')
    BY DEF Rows
  <2>2. Values(cursor)' = Cardinality(Metrics)
    BY <1>5, <1>7 DEF Values
  <2> QED
    BY <1>4, <1>5, <1>7, <2>1, <2>2 DEF InRange
<1>10. Stays'
  BY <1>1, <1>6, <1>7, <1>9, StaysAfter DEF OnValue
<1>11. Meaning(cursor)' = Meaning(cursor)
  <2> DEFINE tag == <<"from all gpus", cursor.row - AllGpus>>
  <2>1. /\ Meaning(cursor)' = [cursor' EXCEPT !.row = <<"from all gpus", line - AllGpus'>>]
        /\ Meaning(cursor) = [cursor EXCEPT !.row = tag]
    BY <1>3, <1>4, <1>5, <1>7, Zenon DEF Meaning
  <2>2. Meaning(cursor)' = [cursor' EXCEPT !.row = tag]
    BY <1>5, <2>1, Zenon
  <2>3. cursor.section \in 1..5 /\ cursor = [section |-> cursor.section, level |-> 2,
                                              row |-> cursor.row, value |-> cursor.value]
    BY <1>3 DEF Cursors
  <2> HIDE DEF tag
  <2>4. [cursor' EXCEPT !.row = tag] = [section |-> cursor.section, level |-> 2, row |-> tag,
                                        value |-> cursor.value]
    BY <1>6
  <2>5. [cursor EXCEPT !.row = tag] = [section |-> cursor.section, level |-> 2, row |-> tag,
                                       value |-> cursor.value]
    BY <2>3
  <2> QED
    BY <2>1, <2>2, <2>4, <2>5, Zenon
<1> QED
  BY <1>8, <1>10, <1>11, Zenon DEF Stays

LEMMA EnterSortKeeps ==
  ASSUME SetupInv, EnterSort
  PROVE  SetupInv' /\ Meaning(Drawn(cursor))' = Meaning(cursor)
<1>1. /\ cursor.level = 2 /\ SectionOf(cursor) = "processes" /\ cursor.row = SortRow
      /\ UNCHANGED <<drawing, process_fields_displayed, cursor>> /\ cursor \in Cursors
      /\ open' \in BOOLEAN /\ drawn' = FALSE /\ drawn /\ open
      /\ sort_processes_by' = Kth(process_fields_displayed, cursor.value)
  BY DEF EnterSort, SetupKey, At, SetupInv
<1>2. OptionsOK'
  <2>1. sort_processes_by' \in process_fields_displayed'
    BY <1>1, EnterIsOn DEF EnterSort
  <2> QED
    BY <1>1, <2>1 DEF SetupInv, OptionsOK, DrawingOK, SortIsShown
<1>3. SetupInv'
  <2>1. Resting(cursor)
    BY DEF SetupInv
  <2>2. cursor' = cursor
    BY <1>1
  <2> QED
    BY <1>1, <1>2, <2>1, <2>2, AfterKey
<1>4. InRange(cursor)'
  <2>1. InRange(cursor) /\ cursor' = cursor /\ UNCHANGED <<drawing, process_fields_displayed>>
    BY <1>1 DEF SetupInv
  <2> QED
    BY <2>1, SameLists
<1>5. Stays'
  BY <1>1, <1>2, <1>4, StaysAfter DEF OnValue
<1>6. Meaning(cursor)' = Meaning(cursor)
  <2>1. SectionOf(cursor') = "processes"
    BY <1>1
  <2> QED
    BY <1>1, <2>1 DEF Meaning
<1> QED
  BY <1>3, <1>5, <1>6, Zenon DEF Stays

LEMMA EnterFieldKeeps ==
  ASSUME SetupInv, EnterField
  PROVE  SetupInv' /\ Meaning(Drawn(cursor))' = Meaning(cursor)
<1>1. /\ cursor.level = 2 /\ SectionOf(cursor) = "processes" /\ cursor.row = FieldsRow
      /\ UNCHANGED <<drawing, cursor>> /\ cursor \in Cursors
      /\ open' \in BOOLEAN /\ drawn' = FALSE
  BY DEF EnterField, SetupKey, At, SetupInv
<1>2. OptionsOK'
  BY EnterFieldKeepsOptions
<1>3. SetupInv'
  <2>1. Resting(cursor) /\ cursor' = cursor
    BY <1>1 DEF SetupInv
  <2> QED
    BY <1>1, <1>2, <2>1, AfterKey
<1>4. InRange(cursor)'
  <2>1. cursor.value < FieldCount
    BY <1>1, EnterIsOn DEF EnterField
  <2>2. SectionOf(cursor') = "processes" /\ cursor'.row = FieldsRow
    BY <1>1
  <2>3. Values(cursor)' = FieldCount /\ Rows("processes")' = 5 /\ FieldsRow = 4
    BY <2>2 DEF Values, Rows, SortRow, FieldsRow
  <2> QED
    BY <1>1, <2>1, <2>2, <2>3 DEF InRange
<1>5. Stays'
  BY <1>1, <1>2, <1>4, StaysAfter DEF OnValue
<1>6. Meaning(cursor)' = Meaning(cursor)
  <2>1. SectionOf(cursor') = "processes"
    BY <1>1
  <2> QED
    BY <1>1, <2>1 DEF Meaning
<1> QED
  BY <1>3, <1>5, <1>6, Zenon DEF Stays

\* The keys that change no option.
LEMMA OtherKeysKeep ==
  ASSUME SetupInv, ShowOrHide \/ ArrowKey \/ EnterInward \/ OtherSetupKey
  PROVE  SetupInv' /\ UNCHANGED optionVars
<1>1. UNCHANGED optionVars /\ drawn' = FALSE /\ open' \in BOOLEAN
  BY DEF ShowOrHide, ArrowKey, EnterInward, OtherSetupKey, SetupKey, SetupInv
<1>2. OptionsOK'
  BY <1>1 DEF SetupInv, OptionsOK, DrawingOK, optionVars
<1>3. cursor' \in Cursors /\ Resting(cursor')
  <2>1. Home \in Cursors /\ Resting(Home)
    BY SetupAssumption DEF Home, Cursors, Resting
  <2>2. cursor \in Cursors /\ Resting(cursor)
    BY DEF SetupInv
  <2>3. CASE ShowOrHide
    BY <2>1, <2>3 DEF ShowOrHide
  <2>4. CASE OtherSetupKey
    BY <2>2, <2>4 DEF OtherSetupKey
  <2>5. CASE ArrowKey \/ EnterInward
    <3>1. /\ InRange(cursor)
          /\ cursor' \in {Inward(cursor), Outward(cursor), Upward(cursor), Downward(cursor)}
      BY <2>5 DEF SetupInv, SetupKey, ArrowKey, EnterInward
    <3> QED
      BY <2>2, <3>1, Moves
  <2> QED
    BY <2>3, <2>4, <2>5
<1> QED
  BY <1>1, <1>2, <1>3, AfterKey

CursorMeans == open /\ open' /\ optionVars' # optionVars => Meaning(Drawn(cursor))' = Meaning(cursor)

LEMMA SetupStep == SetupInv /\ [SetupNext]_setupVars => SetupInv' /\ [CursorMeans]_setupVars
<1> SUFFICES ASSUME SetupInv, [SetupNext]_setupVars
             PROVE  SetupInv' /\ [CursorMeans]_setupVars
  OBVIOUS
<1>1. CASE SetupTop
  <2>1. open' => UNCHANGED optionVars
    BY <1>1 DEF SetupTop, optionVars
  <2> QED
    BY <1>1, <2>1, SetupTopKeeps, Zenon DEF CursorMeans
<1>2. CASE ShowOrHide \/ ArrowKey \/ EnterInward \/ OtherSetupKey
  <2>1. SetupInv' /\ UNCHANGED optionVars
    BY <1>2, OtherKeysKeep
  <2> QED
    BY <2>1, Zenon DEF CursorMeans
<1>3. CASE EnterAllGpus
  BY <1>3, EnterAllGpusKeeps, Zenon DEF CursorMeans
<1>4. CASE EnterGpu
  BY <1>4, EnterGpuKeeps, Zenon DEF CursorMeans
<1>5. CASE EnterSort
  BY <1>5, EnterSortKeeps, Zenon DEF CursorMeans
<1>6. CASE EnterField
  BY <1>6, EnterFieldKeeps, Zenon DEF CursorMeans
<1>7. CASE UNCHANGED setupVars
  <2>1. UNCHANGED <<drawing, process_fields_displayed, sort_processes_by, open, cursor, drawn>>
    BY <1>7 DEF setupVars
  <2>2. OptionsOK'
    BY <2>1 DEF SetupInv, OptionsOK, DrawingOK
  <2>3. InRange(cursor) => InRange(cursor)'
    BY <2>1, SameLists
  <2> QED
    BY <1>7, <2>1, <2>2, <2>3, Zenon DEF SetupInv, Resting
<1> QED
  BY <1>1, <1>2, <1>3, <1>4, <1>5, <1>6, <1>7, Zenon DEF SetupNext

LEMMA SetupAlways == SetupSpec => []SetupInv
BY SetupStart, SetupStep, PTL DEF SetupSpec

LEMMA SetupInvImplies == SetupInv => CursorInRange
BY Zenon DEF SetupInv, OptionsOK, InRange, CursorInRange

\* When a key comes the cursor of the setup window is on a line that there is,
\* and on a value that there is: what Enter indexes are monitored devices and
\* metrics and fields that exist, whatever was toggled before.
THEOREM CursorIsInRange == SetupSpec => []CursorInRange
BY SetupAlways, SetupInvImplies, PTL

\* Enter leaves the cursor on the same device and the same value while color
\* rows come and go above it.
THEOREM CursorStaysOnDevice == SetupSpec => CursorStays
<1>1. SetupInv /\ [SetupNext]_setupVars
        => [open /\ open' /\ optionVars' # optionVars => Meaning(Drawn(cursor))' = Meaning(cursor)]_setupVars
  BY SetupStep, Zenon DEF CursorMeans
<1> QED
  BY SetupAlways, <1>1, PTL DEF SetupSpec, CursorStays

-----------------------------------------------------------------------------
(* The order the rows are meant to have.                                    *)

\* The value a row of the pool is sorted by.
OwnValue(r) == IF field \in Compared THEN r.value ELSE r.pid

\* A rate that is missing counts as zero.
Weight(r) == IF r.has THEN r.value ELSE 0

AbovePool(r, s) == OwnValue(r) > OwnValue(s) \/ (OwnValue(r) = OwnValue(s) /\ r.pid > s.pid)
AboveGpu(r, s) == Weight(r) >= Weight(s)

\* r may stand before s.
Before(r, s) ==
  IF view = "all" THEN IF descending THEN AbovePool(r, s) ELSE AbovePool(s, r)
  ELSE IF descending THEN AboveGpu(r, s) ELSE AboveGpu(s, r)

Row == [pid : 1..RowCount, has : BOOLEAN, value : -1..RowCount]

\* What the order needs to know of a row.
IsRow(r) ==
  /\ r \in Row
  /\ field = "pid" => r.value = r.pid
  /\ field \in Compared \ {"pid"} => r.value \in {-1, 0, 1}
  /\ view = "gpu" => r.value >= 0
  /\ ~r.has => view = "gpu" /\ r.value = 0

\* The rows are sorted by the values they have.
Comparable(r) ==
  IF view = "all" THEN r.value >= 0
  ELSE field \in GpuFields \ {"type"} /\ (field \in Rates \/ r.has)

SortTypeOK ==
  /\ view \in {"all", "gpu"} /\ field \in AllFields /\ descending \in BOOLEAN

LEMMA ChoiceIsRow ==
  ASSUME SortTypeOK, NEW r \in RowChoices
  PROVE  IsRow(r)
<1>1. r \in Row /\ r.pid \in Int /\ r.value \in Int
      BY SortAssumption DEF RowChoices, Row
<1>2. field = "pid" => r.value = r.pid
      BY DEF RowChoices, Signed
<1>3. field \in Compared \ {"pid"} => r.value \in {-1, 0, 1}
  <2>1. /\ view = "all" /\ field \in Signed => r.value \in {-1, 0, 1}
        /\ field \in Compared \ (Signed \cup {"pid"}) => r.value \in {0, 1}
    <3>1. ASSUME view = "all", field \in Signed
          PROVE  r.value \in {-1, 0, 1}
          BY <3>1 DEF RowChoices, Signed
    <3>2. ASSUME field \in Compared \ (Signed \cup {"pid"})
          PROVE  r.value \in {0, 1}
          BY <3>2 DEF RowChoices
    <3> QED BY <3>1, <3>2
  <2>2. field \in Compared /\ field \in Signed => view = "all"
        BY DEF Compared, Signed, GpuFields, AlwaysTold, Rates
  <2> QED BY <2>1, <2>2
<1>4. view = "gpu" => r.value >= 0
      BY <1>1 DEF RowChoices, Row
<1>5. ~r.has => view = "gpu" /\ r.value = 0
      BY DEF RowChoices
<1> QED BY <1>1, <1>2, <1>3, <1>4, <1>5 DEF IsRow

-----------------------------------------------------------------------------
(* Two neighbours.                                                          *)

\* What the sort leaves between two neighbours.
Settled(a, b) == Compare(a, b) <= 0 \/ Compare(b, a) > 0

LEMMA PoolValue ==
  ASSUME SortTypeOK, view = "all", NEW r, IsRow(r), Comparable(r)
  PROVE  /\ SortValue(field, r) = OwnValue(r)
         /\ OwnValue(r) \in Int /\ r.pid \in Int
<1>1. r.pid \in Int /\ r.value \in Int /\ r.value >= 0 /\ U64 \in Nat /\ U64 > 1
      BY SortAssumption DEF IsRow, Row, Comparable
<1>2. field \in Numbers \ {"pid"} => r.value % U64 = r.value
  <2>1. field \in Numbers \ {"pid"} => r.value = 0 \/ r.value = 1
        BY <1>1 DEF IsRow, Compared
  <2>2. 0 % U64 = 0 /\ 1 % U64 = 1
        BY <1>1
  <2> QED BY <2>1, <2>2
<1>3. CASE field = "pid"
      BY <1>1, <1>3 DEF SortValue, OwnValue, Compared, IsRow, Numbers
<1>4. CASE field \in Numbers \ {"pid"}
      BY <1>1, <1>2, <1>4 DEF SortValue, OwnValue, Compared, Numbers, Signed
<1>5. CASE field \notin Numbers
      BY <1>1, <1>5 DEF SortValue, OwnValue, Compared, Numbers
<1> QED BY <1>3, <1>4, <1>5

LEMMA PoolNeighbours ==
  ASSUME SortTypeOK, view = "all", NEW a, NEW b, IsRow(a), IsRow(b), Comparable(a), Comparable(b),
         a.pid # b.pid, Settled(a, b)
  PROVE  Before(a, b)
<1> DEFINE va == OwnValue(a)  vb == OwnValue(b)
<1>1. /\ SortValue(field, a) = va /\ SortValue(field, b) = vb
      /\ va \in Int /\ vb \in Int /\ a.pid \in Int /\ b.pid \in Int
      BY PoolValue
<1>2. SortedCompare(field, a, b) <= 0 \/ SortedCompare(field, b, a) > 0
      BY DEF Settled, Compare
<1> HIDE DEF va, vb
<1>3. IF descending THEN va > vb \/ (va = vb /\ a.pid > b.pid)
      ELSE vb > va \/ (vb = va /\ b.pid > a.pid)
      BY <1>1, <1>2 DEF SortedCompare
<1> QED BY <1>3 DEF Before, AbovePool, va, vb

LEMMA GpuNeighbours ==
  ASSUME SortTypeOK, view = "gpu", NEW a, NEW b, IsRow(a), IsRow(b), Comparable(a), Comparable(b),
         Settled(a, b)
  PROVE  Before(a, b)
<1>1. /\ a.value \in Int /\ a.value >= 0 /\ a.pid \in Int
      /\ b.value \in Int /\ b.value >= 0 /\ b.pid \in Int
      BY SortAssumption DEF IsRow, Row
<1>2. field \in Rates \/ (a.has /\ b.has)
      BY DEF Comparable
<1>3. /\ IF descending THEN CompareDesc(field, a, b) <= 0 \/ CompareDesc(field, b, a) > 0
         ELSE CompareAsc(field, a, b) <= 0 \/ CompareAsc(field, b, a) > 0
      BY DEF Settled, Compare
<1>4. /\ Weight(a) = IF a.has THEN a.value ELSE 0
      /\ Weight(b) = IF b.has THEN b.value ELSE 0
      BY DEF Weight
<1>5. IF descending THEN Weight(a) >= Weight(b) ELSE Weight(b) >= Weight(a)
  <2>1. CASE field \in {"pid", "gpu_id"}
        BY <1>1, <1>2, <1>3, <1>4, <2>1 DEF CompareDesc, CompareAsc, Falling, Rates
  <2>2. CASE field \in {"memory", "cpu_usage", "cpu_mem_usage"}
        BY <1>1, <1>2, <1>3, <1>4, <2>2 DEF CompareDesc, CompareAsc, Falling, IfBoth, Rates
  <2>3. CASE field \in {"user", "command"}
        BY <1>1, <1>2, <1>3, <1>4, <2>3
           DEF CompareDesc, CompareAsc, Falling, TextFalling, IfBoth, Rates
  <2>4. CASE field \in Rates
    <3>1. /\ CompareDesc(field, a, b) = RateFalling(field, a, b)
          /\ CompareDesc(field, b, a) = RateFalling(field, b, a)
          /\ CompareAsc(field, a, b) = -RateFalling(field, a, b)
          /\ CompareAsc(field, b, a) = -RateFalling(field, b, a)
          BY <2>4 DEF CompareDesc, CompareAsc, Rates
    <3>2. CASE a.has /\ b.has
      <4>1. CASE field = "gpu_rate"
        <5>1. /\ RateFalling(field, a, b) = IF b.value >= a.value THEN 1 ELSE -1
              /\ RateFalling(field, b, a) = IF a.value >= b.value THEN 1 ELSE -1
              BY <3>2, <4>1 DEF RateFalling, Falling
        <5> QED BY <1>1, <1>3, <1>4, <3>1, <3>2, <5>1
      <4>2. CASE field # "gpu_rate"
        <5>1. /\ RateFalling(field, a, b) = IF a.value >= b.value THEN -1 ELSE 1
              /\ RateFalling(field, b, a) = IF b.value >= a.value THEN -1 ELSE 1
              BY <3>2, <4>2 DEF RateFalling, Falling
        <5> QED BY <1>1, <1>3, <1>4, <3>1, <3>2, <5>1
      <4> QED BY <4>1, <4>2
    <3>3. CASE a.has /\ ~b.has
          BY <1>1, <1>3, <1>4, <3>1, <3>3 DEF RateFalling
    <3>4. CASE ~a.has /\ b.has
          BY <1>1, <1>3, <1>4, <3>1, <3>4 DEF RateFalling
    <3>5. CASE ~a.has /\ ~b.has
          BY <1>1, <1>3, <1>4, <3>1, <3>5 DEF RateFalling
    <3> QED BY <3>2, <3>3, <3>4, <3>5
  <2> QED BY <2>1, <2>2, <2>3, <2>4 DEF Comparable, GpuFields, AlwaysTold, Rates
<1> QED BY <1>5 DEF Before, AboveGpu

LEMMA BeforeIsTransitive ==
  ASSUME SortTypeOK, NEW a, NEW b, NEW c, IsRow(a), IsRow(b), IsRow(c), Before(a, b), Before(b, c)
  PROVE  Before(a, c)
<1>1. ASSUME NEW r, IsRow(r)
      PROVE  OwnValue(r) \in Int /\ Weight(r) \in Int /\ r.pid \in Int
      BY <1>1, SortAssumption DEF IsRow, Row, OwnValue, Weight
<1> QED BY <1>1 DEF Before, AbovePool, AboveGpu

-----------------------------------------------------------------------------
(* All rows.                                                                *)

\* Neighbours in order make a list in order.
LEMMA NeighboursSuffice ==
  ASSUME SortTypeOK, NEW n \in Nat, NEW s, \A i \in 1..n : IsRow(s[i]),
         \A i \in 1..(n - 1) : Before(s[i], s[i + 1])
  PROVE  \A i, j \in 1..n : i < j => Before(s[i], s[j])
<1> DEFINE T == {d \in Nat : \A i \in 1..n : i + d + 1 <= n => Before(s[i], s[i + d + 1])}
<1>1. 0 \in T
  <2>1. ASSUME NEW i \in 1..n, i + 0 + 1 <= n
        PROVE  Before(s[i], s[i + 0 + 1])
    <3>1. i \in 1..(n - 1) /\ i + 0 + 1 = i + 1
          BY <2>1
    <3> QED BY <3>1
  <2> QED BY <2>1
<1>2. ASSUME NEW d \in T
      PROVE  d + 1 \in T
  <2>1. d \in Nat /\ d + 1 \in Nat
        OBVIOUS
  <2>2. ASSUME NEW i \in 1..n, i + (d + 1) + 1 <= n
        PROVE  Before(s[i], s[i + (d + 1) + 1])
    <3> DEFINE k == i + d + 1
    <3>1. k \in 1..(n - 1) /\ k \in 1..n /\ k + 1 \in 1..n /\ k <= n /\ i + (d + 1) + 1 = k + 1
          BY <2>1, <2>2
    <3>2. Before(s[i], s[k])
          BY <3>1
    <3>3. Before(s[k], s[k + 1])
          BY <3>1
    <3>4. IsRow(s[i]) /\ IsRow(s[k]) /\ IsRow(s[k + 1])
          BY <3>1
    <3> HIDE DEF k
    <3>5. Before(s[i], s[k + 1])
          BY <3>2, <3>3, <3>4, BeforeIsTransitive
    <3> QED BY <3>1, <3>5
  <2> QED BY <2>1, <2>2
<1>3. T = Nat
  <2>1. T \subseteq Nat
        OBVIOUS
  <2> HIDE DEF T
  <2> QED BY <1>1, <1>2, <2>1, Ind!Induction
<1>4. ASSUME NEW i \in 1..n, NEW j \in 1..n, i < j
      PROVE  Before(s[i], s[j])
  <2> DEFINE d == j - i - 1
  <2>1. d \in Nat /\ i + d + 1 = j /\ j <= n
        BY <1>4
  <2>2. d \in T
        BY <1>3, <2>1
  <2> HIDE DEF d
  <2>3. i + d + 1 <= n => Before(s[i], s[i + d + 1])
        BY <2>2
  <2> QED BY <2>1, <2>3
<1> QED BY <1>4

\* A sort permutes the rows.
LEMMA PermutedIs ==
  ASSUME NEW n \in Nat, NEW S, NEW rows \in [1..n -> S], NEW s \in Permuted(rows)
  PROVE  /\ s \in [1..n -> S]
         /\ (\A i, j \in 1..n : i # j => rows[i].pid # rows[j].pid)
              => \A i, j \in 1..n : i # j => s[i].pid # s[j].pid
<1>1. Cardinality(1..n) = n
      BY FS_Interval
<1>2. PICK p \in SetToSeqs(DOMAIN rows) : s = [i \in DOMAIN rows |-> rows[p[i]]]
      BY DEF Permuted
<1>3. p \in [1..n -> 1..n] /\ \A i, j \in 1..n : i # j => p[i] # p[j]
      BY <1>1, <1>2 DEF SetToSeqs
<1> QED BY <1>2, <1>3

LEMMA FilteredIs ==
  ASSUME NEW S, NEW rows \in Seq(S)
  PROVE  Filtered(rows) \in Seq(S)
<1> DEFINE own == {i \in DOMAIN rows : rows[i].pid = Own}
           k == CHOOSE i \in own : \A j \in own : i <= j
           m == Len(rows)
<1>1. CASE ~(filter /\ own # {})
      BY <1>1 DEF Filtered
<1>2. CASE filter /\ own # {}
  <2>1. k \in 1..m /\ m \in Nat
    <3>1. own \subseteq Nat
          OBVIOUS
    <3>2. \E i \in own : \A j \in own : i <= j
          BY <1>2, <3>1, LeastExists
    <3>3. k \in own
          BY <3>2
    <3> QED BY <3>3
  <2>2. Filtered(rows) = SubSeq(rows, 1, k - 1) \o SubSeq(rows, k + 1, m)
        BY <1>2 DEF Filtered, RemoveAt
  <2> HIDE DEF own, k
  <2>3. \A i \in 1..m : rows[i] \in S
        OBVIOUS
  <2> HIDE DEF m
  <2>4. SubSeq(rows, 1, k - 1) \in Seq(S)
    <3>1. 1 \in Int /\ k - 1 \in Int /\ \A i \in 1..(k - 1) : rows[i] \in S
          BY <2>1, <2>3
    <3> QED BY ONLY <3>1, SubSeqProperties
  <2>5. SubSeq(rows, k + 1, m) \in Seq(S)
    <3>1. k + 1 \in Int /\ m \in Int /\ \A i \in (k + 1)..m : rows[i] \in S
          BY <2>1, <2>3
    <3> QED BY ONLY <3>1, SubSeqProperties
  <2> QED BY <2>2, <2>4, <2>5, ConcatProperties
<1> QED BY <1>1, <1>2

\* The rows shown are those sorted last.
SortInv ==
  /\ SortTypeOK
  /\ listed \in [1..RowCount -> RowChoices] /\ Listable(listed)
  /\ shown \in SortedRows

LEMMA InitSortInv == SortInit => SortInv
  BY DEF SortInit, SortInv, SortTypeOK

LEMMA NextSortInv == SortInv /\ [SortNext]_sortVars => SortInv'
<1> SUFFICES ASSUME SortInv, [SortNext]_sortVars PROVE SortInv'
    OBVIOUS
<1>1. CASE Relisted
  <2>1. SortTypeOK' /\ (shown \in SortedRows)' /\ Listable(listed)'
    <3>1. SortTypeOK'
          BY <1>1 DEF Relisted, SortInv, SortTypeOK
    <3>2. (shown \in SortedRows)'
          BY <1>1 DEF Relisted
    <3>3. Listable(listed)'
          BY <1>1 DEF Relisted, Listable
    <3> QED BY <3>1, <3>2, <3>3
  <2>2. RowChoices' = RowChoices
        BY <1>1 DEF Relisted, RowChoices, Compared
  <2>3. PICK r \in RowChoices : listed' = Append(Tail(listed), r)
        BY <1>1 DEF Relisted
  <2>4. listed' \in [1..RowCount -> RowChoices]
    <3> DEFINE S == RowChoices
    <3>1. listed \in [1..RowCount -> S] /\ r \in S /\ RowCount \in Nat /\ RowCount >= 1
          BY SortAssumption DEF SortInv
    <3> HIDE DEF S
    <3>2. listed \in Seq(S) /\ Len(listed) = RowCount /\ listed # <<>>
          BY <3>1
    <3>3. Tail(listed) \in Seq(S) /\ Len(Tail(listed)) = RowCount - 1
          BY <3>1, <3>2
    <3>4. Append(Tail(listed), r) \in Seq(S) /\ Len(Append(Tail(listed), r)) = RowCount
          BY <3>1, <3>3
    <3> DEFINE new == Append(Tail(listed), r)
    <3> HIDE DEF new
    <3>5. new \in Seq(S) /\ Len(new) = RowCount
          BY <3>4 DEF new
    <3>6. new \in [1..RowCount -> S]
          BY <3>5
    <3> QED BY <2>3, <3>6 DEF S, new
  <2> QED BY <2>1, <2>2, <2>4 DEF SortInv
<1>2. CASE OtherOrder
  <2>1. SortTypeOK' /\ (shown \in SortedRows)'
        BY <1>2 DEF OtherOrder, SortInv, SortTypeOK
  <2>2. RowChoices' = RowChoices
        BY <1>2 DEF OtherOrder, RowChoices, Compared
  <2>3. Listable(listed)'
        BY <1>2 DEF OtherOrder, SortInv, Listable
  <2> QED BY <1>2, <2>1, <2>2, <2>3 DEF OtherOrder, SortInv
<1>3. CASE UNCHANGED sortVars
  <2>1. /\ view' = view /\ field' = field /\ descending' = descending /\ filter' = filter
        /\ listed' = listed /\ shown' = shown
        BY <1>3 DEF sortVars
  <2>2. SortTypeOK' /\ Listable(listed)'
        BY <2>1 DEF SortInv, SortTypeOK, Listable
  <2>3. RowChoices' = RowChoices
        BY <2>1 DEF RowChoices, Compared
  <2>4. SortedRows' = SortedRows
    <3>1. \A a, b : Compare(a, b)' = Compare(a, b)
          BY <2>1 DEF Compare, SortedCompare
    <3>2. Filtered(listed)' = Filtered(listed)
          BY <2>1 DEF Filtered
    <3>3. Sorts(listed)' = Sorts(listed) /\ Sorts(Filtered(listed))' = Sorts(Filtered(listed))
          BY <2>1, <3>1, <3>2, Zenon DEF Sorts
    <3> QED BY <2>1, <3>2, <3>3 DEF SortedRows
  <2> QED BY <2>1, <2>2, <2>3, <2>4 DEF SortInv
<1> QED BY <1>1, <1>2, <1>3 DEF SortNext

LEMMA SortedIsInOrder == SortInv => RowsInOrder
<1> DEFINE comparable == IF view = "all" THEN \A i \in DOMAIN shown : shown[i].value >= 0
                         ELSE /\ field \in GpuFields \ {"type"}
                              /\ field \in Rates \/ \A i \in DOMAIN shown : shown[i].has
<1> SUFFICES ASSUME SortInv, comparable
             PROVE  \A i, j \in DOMAIN shown : i < j => Before(shown[i], shown[j])
    BY DEF RowsInOrder, Before, AbovePool, AboveGpu, OwnValue, Weight
<1>1. SortTypeOK /\ listed \in [1..RowCount -> RowChoices] /\ RowCount \in Nat
      BY SortAssumption DEF SortInv
<1>2. PICK n \in Nat :
        \E rows \in [1..n -> RowChoices] :
          /\ shown \in Sorts(rows)
          /\ view = "all" => \A i, j \in 1..n : i # j => rows[i].pid # rows[j].pid
  <2>1. CASE view = "all"
    <3>1. shown \in Sorts(listed)
          BY <2>1 DEF SortInv, SortedRows
    <3>2. \A i, j \in 1..RowCount : i # j => listed[i].pid # listed[j].pid
          BY <1>1, <2>1 DEF SortInv, Listable
    <3> QED BY <1>1, <3>1, <3>2
  <2>2. CASE view = "gpu"
    <3> DEFINE left == Filtered(listed)
               S == RowChoices
    <3>1. shown \in Sorts(left)
          BY <2>2 DEF SortInv, SortedRows
    <3>2. listed \in Seq(S)
          BY <1>1
    <3> HIDE DEF S
    <3>3. left \in Seq(S)
          BY <3>2, FilteredIs
    <3> HIDE DEF left
    <3>4. Len(left) \in Nat /\ left \in [1..Len(left) -> S]
          BY <3>3
    <3> QED BY <2>2, <3>1, <3>4 DEF S
  <2> QED BY <1>1, <2>1, <2>2 DEF SortTypeOK
<1> PICK rows \in [1..n -> RowChoices] :
      /\ shown \in Sorts(rows)
      /\ view = "all" => \A i, j \in 1..n : i # j => rows[i].pid # rows[j].pid
    BY <1>2
<1>3. /\ shown \in [1..n -> RowChoices]
      /\ view = "all" => \A i, j \in 1..n : i # j => shown[i].pid # shown[j].pid
  <2>1. shown \in Permuted(rows)
        BY <1>2 DEF Sorts
  <2> DEFINE S == RowChoices
  <2>2. rows \in [1..n -> S]
        OBVIOUS
  <2> HIDE DEF S
  <2>3. /\ shown \in [1..n -> S]
        /\ (\A i, j \in 1..n : i # j => rows[i].pid # rows[j].pid)
              => \A i, j \in 1..n : i # j => shown[i].pid # shown[j].pid
        BY <2>1, <2>2, PermutedIs, ZenonT(30)
  <2> QED BY <1>2, <2>3 DEF S
<1>4. \A i \in 1..n : IsRow(shown[i]) /\ Comparable(shown[i])
  <2>1. \A i \in 1..n : IsRow(shown[i])
        BY <1>1, <1>3, ChoiceIsRow
  <2>2. \A i \in 1..n : Comparable(shown[i])
        BY <1>3 DEF Comparable
  <2> QED BY <2>1, <2>2
<1>5. ASSUME NEW i \in 1..(n - 1)
      PROVE  Before(shown[i], shown[i + 1])
  <2>1. i \in 1..n /\ i + 1 \in 1..n /\ i # i + 1 /\ Len(shown) = n
        BY <1>3
  <2>2. Settled(shown[i], shown[i + 1])
        BY <1>2, <2>1 DEF Sorts, Settled
  <2> DEFINE a == shown[i]  b == shown[i + 1]
  <2>3. IsRow(a) /\ IsRow(b) /\ Comparable(a) /\ Comparable(b) /\ (view = "all" => a.pid # b.pid)
        BY <1>3, <1>4, <2>1
  <2>4. Settled(a, b)
        BY <2>2
  <2> HIDE DEF a, b
  <2>5. Before(a, b)
        BY <1>1, <2>3, <2>4, PoolNeighbours, GpuNeighbours DEF SortTypeOK
  <2> QED BY <2>5 DEF a, b
<1>6. \A i, j \in 1..n : i < j => Before(shown[i], shown[j])
      BY <1>1, <1>4, <1>5, NeighboursSuffice
<1>7. DOMAIN shown = 1..n
      BY <1>3
<1> QED BY <1>6, <1>7

\* For any number of rows listed in any order, and whichever of them have no
\* value, any two that are drawn are in the order of the field the rows are
\* sorted by.
THEOREM RowsAreInOrder == SortSpec => []RowsInOrder
  BY InitSortInv, NextSortInv, SortedIsInOrder, PTL DEF SortSpec

-----------------------------------------------------------------------------
(* The lines of the file.                                                   *)

\* The loops over the enums write all that is set, and nothing twice.
LEMMA AscendingIs ==
  ASSUME NEW S \in SUBSET Nat, IsFiniteSet(S)
  PROVE  /\ Ascending(S) \in [1..Cardinality(S) -> S]
         /\ \A i, j \in 1..Cardinality(S) : i < j => Ascending(S)[i] < Ascending(S)[j]
         /\ \A x \in S : \E i \in 1..Cardinality(S) : Ascending(S)[i] = x
<1> DEFINE n == Cardinality(S)
           a == Ascending(S)
           q == [i \in 1..n |-> Kth(S, i - 1)]
           Under(m) == {x \in S : x < m}
<1>1. n \in Nat
  BY FS_CardinalityType
<1>2. ASSUME NEW i \in 1..n
      PROVE  q[i] \in S /\ Cardinality(Under(q[i])) = i - 1
  <2>1. i - 1 \in Nat /\ i - 1 < n
    BY <1>1
  <2>2. Kth(S, i - 1) \in S /\ Cardinality(Under(Kth(S, i - 1))) = i - 1
    BY <2>1, KthIs
  <2> QED
    BY <2>2
<1>3. ASSUME NEW i \in 1..n, NEW j \in 1..n, i < j
      PROVE  q[i] < q[j]
  <2>1. q[i] \in Nat /\ q[j] \in Nat
    BY <1>2
  <2>2. SUFFICES ASSUME q[j] <= q[i]
                 PROVE  FALSE
    BY <2>1
  <2> HIDE DEF q
  <2>3. Under(q[j]) \in SUBSET Under(q[i]) /\ Under(q[i]) \in SUBSET S
    <3>1. \A x \in S : x \in Nat /\ (x < q[j] => x < q[i])
      BY <2>1, <2>2
    <3> QED
      BY <3>1
  <2>4. Cardinality(Under(q[i])) = i - 1 /\ Cardinality(Under(q[j])) = j - 1
    BY <1>2
  <2> HIDE DEF Under
  <2>5. Cardinality(Under(q[j])) <= Cardinality(Under(q[i]))
    BY <2>3, FS_Subset
  <2> QED
    BY <1>1, <1>3, <2>4, <2>5
<1>4. q \in [1..n -> S] /\ \A i, j \in DOMAIN q : i < j => q[i] < q[j]
  <2>1. DOMAIN q = 1..n /\ q = [i \in 1..n |-> q[i]]
    OBVIOUS
  <2> HIDE DEF q
  <2> QED
    BY <1>2, <1>3, <2>1
<1>5. a \in [1..n -> S] /\ \A i, j \in DOMAIN a : i < j => a[i] < a[j]
  <2>1. a = CHOOSE s \in [1..n -> S] : \A i, j \in DOMAIN s : i < j => s[i] < s[j]
    BY Zenon DEF Ascending
  <2> HIDE DEF a, q
  <2> QED
    BY <1>4, <2>1
<1> HIDE DEF a, n
<1>6. a \in Injection(1..n, S)
  <2>1. ASSUME NEW i \in 1..n, NEW j \in 1..n, a[i] = a[j]
        PROVE  i = j
    <3>1. a[i] \in Nat /\ a[j] \in Nat /\ DOMAIN a = 1..n
      BY <1>5
    <3>2. ~(i < j) /\ ~(j < i)
      BY <1>5, <2>1, <3>1
    <3> QED
      BY <1>1, <3>2
  <2> QED
    BY <1>5, <2>1, Zenon DEF Injection, IsInjective
<1>7. IsFiniteSet(1..n) /\ Cardinality(1..n) = n
  BY <1>1, FS_Interval
<1>8. a \in Surjection(1..n, S)
  BY <1>6, <1>7, FS_Injection DEF n
<1>9. \A x \in S : \E i \in 1..n : a[i] = x
  BY <1>8, Zenon DEF Surjection
<1> QED
  BY <1>5, <1>9 DEF a, n

\* The pieces of a file follow one another.  The numbers are where they begin.
Begins(at, pieces) ==
  /\ at \in [0..Len(pieces) -> Nat] /\ at[0] = 0
  /\ \A i \in 1..Len(pieces) : at[i] = at[i - 1] + Len(pieces[i])

Flat(pieces) ==
  CHOOSE g : g = [i \in 1..Len(pieces) |-> IF i = 1 THEN pieces[i] ELSE g[i - 1] \o pieces[i]]

LEMMA FlatIs ==
  ASSUME NEW C, NEW pieces \in Seq(Seq(C))
  PROVE  /\ \A i \in 1..Len(pieces) : Flat(pieces)[i] \in Seq(C)
         /\ 1 \in 1..Len(pieces) => Flat(pieces)[1] = pieces[1]
         /\ \A i \in 2..Len(pieces) : Flat(pieces)[i] = Flat(pieces)[i - 1] \o pieces[i]
<1> DEFINE n == Len(pieces)  g == Flat(pieces)
<1>1. n \in Nat /\ DOMAIN pieces = 1..n /\ \A i \in 1..n : pieces[i] \in Seq(C)
  OBVIOUS
<1> HIDE DEF n
<1>2. PICK f : f[0] = <<>> /\ \A k \in 1..n : f[k] = f[k - 1] \o pieces[k]
  <2>1. \E f : /\ f[0] = <<>> /\ \A k \in 1..n : f[k] = Chained(f[k - 1], pieces[k])
               /\ f[n] = FlatLoop!Fold(<<>>, pieces)
    BY <1>1, FlatLoop!Steps, ZenonT(40)
  <2> QED
    BY <2>1 DEF Chained
<1>3. \E h : h = [i \in 1..n |-> IF i = 1 THEN pieces[i] ELSE h[i - 1] \o pieces[i]]
  <2> DEFINE h == [i \in 1..n |-> f[i]]
  <2>1. ASSUME NEW i \in 1..n
        PROVE  h[i] = IF i = 1 THEN pieces[i] ELSE h[i - 1] \o pieces[i]
    <3>1. f[i] = f[i - 1] \o pieces[i] /\ pieces[i] \in Seq(C)
      BY <1>1, <1>2
    <3>2. CASE i = 1
      <4>1. f[i - 1] = <<>>
        BY <1>2, <3>2
      <4>2. <<>> \o pieces[i] = pieces[i]
        BY <3>1, ConcatEmptySeq
      <4> QED
        BY <3>1, <3>2, <4>1, <4>2
    <3>3. CASE i # 1
      <4>1. i - 1 \in 1..n
        BY <1>1, <3>3
      <4> QED
        BY <3>1, <3>3, <4>1
    <3> QED
      BY <3>2, <3>3
  <2>2. h = [i \in 1..n |-> h[i]]
    OBVIOUS
  <2> HIDE DEF h
  <2>3. h = [i \in 1..n |-> IF i = 1 THEN pieces[i] ELSE h[i - 1] \o pieces[i]]
    BY <2>1, <2>2
  <2> QED
    BY <2>3
<1>4. g = [i \in 1..n |-> IF i = 1 THEN pieces[i] ELSE g[i - 1] \o pieces[i]]
  BY <1>3, Zenon DEF Flat, n
<1> HIDE DEF g
<1>5. ASSUME NEW i \in 1..n
      PROVE  g[i] = IF i = 1 THEN pieces[i] ELSE g[i - 1] \o pieces[i]
  BY <1>4, Zenon
<1> DEFINE T == {k \in Nat : k + 1 \in 1..n => g[k + 1] \in Seq(C)}
<1>6. 0 \in T
  BY <1>1, <1>5
<1>7. ASSUME NEW k \in T
      PROVE  k + 1 \in T
  <2>1. k \in Nat /\ k + 1 \in Nat /\ (k + 1) + 1 # 1 /\ ((k + 1) + 1) - 1 = k + 1
    OBVIOUS
  <2>2. CASE (k + 1) + 1 \in 1..n
    <3>1. k + 1 \in 1..n
      BY <1>1, <2>1, <2>2
    <3>2. g[k + 1] \in Seq(C)
      BY <3>1
    <3>3. g[(k + 1) + 1] = g[k + 1] \o pieces[(k + 1) + 1]
      BY <1>5, <2>1, <2>2
    <3>4. g[k + 1] \o pieces[(k + 1) + 1] \in Seq(C)
      BY <1>1, <2>2, <3>2, ConcatProperties
    <3> QED
      BY <2>1, <3>3, <3>4
  <2> QED
    BY <2>1, <2>2
<1>8. T = Nat
  <2>1. T \subseteq Nat
    OBVIOUS
  <2> HIDE DEF T
  <2> QED
    BY <1>6, <1>7, <2>1, Ind!Induction
<1>9. ASSUME NEW i \in 1..n
      PROVE  g[i] \in Seq(C)
  <2>1. i - 1 \in Nat /\ (i - 1) + 1 = i
    BY <1>1
  <2> QED
    BY <1>8, <2>1
<1>10. ASSUME NEW i \in 2..n
       PROVE  g[i] = g[i - 1] \o pieces[i]
  <2>1. i \in 1..n /\ i # 1
    BY <1>1
  <2> QED
    BY <1>5, <2>1
<1> QED
  BY <1>5, <1>9, <1>10 DEF n, g

LEMMA FlattenedIs ==
  ASSUME NEW C, NEW pieces \in Seq(Seq(C))
  PROVE  /\ FlattenSeq(pieces) \in Seq(C)
         /\ \E at : /\ Begins(at, pieces) /\ Len(FlattenSeq(pieces)) = at[Len(pieces)]
                    /\ \A i \in 1..Len(pieces) : \A m \in 1..Len(pieces[i]) :
                         FlattenSeq(pieces)[at[i - 1] + m] = pieces[i][m]
<1> DEFINE n == Len(pieces)  g == Flat(pieces)
           at == [i \in 0..n |-> IF i = 0 THEN 0 ELSE Len(g[i])]
<1>1. n \in Nat /\ DOMAIN pieces = 1..n /\ \A i \in 1..n : pieces[i] \in Seq(C)
  OBVIOUS
<1>2. /\ \A i \in 1..n : g[i] \in Seq(C)
      /\ 1 \in 1..n => g[1] = pieces[1]
      /\ \A i \in 2..n : g[i] = g[i - 1] \o pieces[i]
  BY FlatIs
<1>3. FlattenSeq(pieces) = IF n = 0 THEN pieces ELSE g[n]
  BY Zenon DEF FlattenSeq, Flat
<1> HIDE DEF n, g
<1>4. at \in [0..n -> Nat] /\ at[0] = 0 /\ \A i \in 1..n : at[i] = Len(g[i])
  <2>1. \A i \in 1..n : Len(g[i]) \in Nat
    BY <1>2, LenProperties
  <2> QED
    BY <1>1, <2>1
<1> HIDE DEF at
<1>5. ASSUME NEW i \in 1..n
      PROVE  /\ at[i] = at[i - 1] + Len(pieces[i]) /\ Len(pieces[i]) \in Nat
             /\ \A m \in 1..Len(pieces[i]) : g[i][at[i - 1] + m] = pieces[i][m]
             /\ i > 1 => \A k \in 1..at[i - 1] : g[i][k] = g[i - 1][k]
  <2>0. pieces[i] \in Seq(C) /\ Len(pieces[i]) \in Nat
    BY <1>1, LenProperties
  <2>1. CASE i = 1
    BY <1>2, <1>4, <2>0, <2>1
  <2>2. CASE i # 1
    <3>1. i - 1 \in 1..n /\ i \in 2..n
      BY <1>1, <2>2
    <3>2. g[i - 1] \in Seq(C) /\ g[i] = g[i - 1] \o pieces[i]
      BY <1>2, <3>1
    <3>3. /\ Len(g[i]) = Len(g[i - 1]) + Len(pieces[i]) /\ Len(g[i - 1]) \in Nat
          /\ \A k \in 1..(Len(g[i - 1]) + Len(pieces[i])) :
               g[i][k] = IF k <= Len(g[i - 1]) THEN g[i - 1][k] ELSE pieces[i][k - Len(g[i - 1])]
      <4>1. /\ Len(g[i - 1] \o pieces[i]) = Len(g[i - 1]) + Len(pieces[i])
            /\ \A k \in 1..(Len(g[i - 1]) + Len(pieces[i])) :
                 (g[i - 1] \o pieces[i])[k]
                   = IF k <= Len(g[i - 1]) THEN g[i - 1][k] ELSE pieces[i][k - Len(g[i - 1])]
        BY <2>0, <3>2, ConcatProperties, Zenon
      <4>2. Len(g[i - 1]) \in Nat
        BY <3>2, LenProperties
      <4> QED
        BY <3>2, <4>1, <4>2, Zenon
    <3>4. at[i] = Len(g[i]) /\ at[i - 1] = Len(g[i - 1])
      BY <1>4, <3>1
    <3> DEFINE a == at[i - 1]  l == Len(pieces[i])
    <3>5. a \in Nat /\ l \in Nat
      BY <2>0, <3>3, <3>4
    <3>6. \A k \in 1..(a + l) : g[i][k] = IF k <= a THEN g[i - 1][k] ELSE pieces[i][k - a]
      BY <3>3, <3>4
    <3> HIDE DEF a, l
    <3>7. ASSUME NEW m \in 1..l
          PROVE  g[i][a + m] = pieces[i][m]
      <4>1. a + m \in 1..(a + l) /\ ~(a + m <= a) /\ (a + m) - a = m
        BY <3>5
      <4> QED
        BY <3>6, <4>1
    <3>8. \A k \in 1..a : g[i][k] = g[i - 1][k]
      BY <3>5, <3>6
    <3> QED
      BY <2>0, <3>3, <3>4, <3>7, <3>8 DEF a, l
  <2> QED
    BY <2>1, <2>2
<1>6. Begins(at, pieces)
  BY <1>4, <1>5 DEF Begins, n
<1> DEFINE T == {k \in Nat : k + 1 \in 1..n =>
                   \A i \in 1..(k + 1) : \A m \in 1..Len(pieces[i]) :
                     g[k + 1][at[i - 1] + m] = pieces[i][m] /\ at[i - 1] + m <= at[k + 1]}
<1>7. 0 \in T
  <2>1. ASSUME 1 \in 1..n, NEW m \in 1..Len(pieces[1])
        PROVE  g[1][at[0] + m] = pieces[1][m] /\ at[0] + m <= at[1]
    <3>1. 1 - 1 = 0 /\ at[0] = 0
      BY <1>4
    <3>2. at[1] = at[0] + Len(pieces[1]) /\ Len(pieces[1]) \in Nat
      BY <1>5, <2>1, <3>1
    <3>3. g[1][at[0] + m] = pieces[1][m]
      BY <1>5, <2>1, <3>1
    <3> QED
      BY <3>1, <3>2, <3>3
  <2> QED
    BY <2>1
<1>8. ASSUME NEW k \in T
      PROVE  k + 1 \in T
  <2>1. k \in Nat /\ k + 1 \in Nat /\ ((k + 1) + 1) - 1 = k + 1 /\ (k + 1) + 1 > 1
    OBVIOUS
  <2> DEFINE j == (k + 1) + 1
  <2>2. ASSUME j \in 1..n, NEW i \in 1..j, NEW m \in 1..Len(pieces[i])
        PROVE  g[j][at[i - 1] + m] = pieces[i][m] /\ at[i - 1] + m <= at[j]
    <3>1. k + 1 \in 1..n /\ j - 1 = k + 1 /\ i \in 1..n
      BY <1>1, <2>1, <2>2
    <3>2. /\ at[j] = at[k + 1] + Len(pieces[j]) /\ Len(pieces[j]) \in Nat /\ at[k + 1] \in Nat
          /\ i - 1 \in 0..n /\ at[i - 1] \in Nat /\ Len(pieces[i]) \in Nat
      <4>1. i - 1 \in 0..n /\ k + 1 \in 0..n
        BY <1>1, <3>1
      <4> QED
        BY <1>4, <1>5, <2>2, <3>1, <4>1
    <3>3. CASE i = j
      <4>1. g[j][at[j - 1] + m] = pieces[j][m]
        BY <1>5, <2>2, <3>3
      <4> QED
        BY <3>1, <3>2, <3>3, <4>1
    <3>4. CASE i # j
      <4> DEFINE b == at[i - 1]  a == at[k + 1]  e == at[j]  p == b + m
                 l == Len(pieces[i])  q == Len(pieces[j])
      <4>1. i \in 1..(k + 1)
        BY <2>1, <3>4
      <4>2. g[k + 1][p] = pieces[i][m] /\ p <= a
        BY <3>1, <4>1
      <4>3. \A x \in 1..a : g[j][x] = g[k + 1][x]
        BY <1>5, <2>1, <2>2, <3>1
      <4>4. e = a + q /\ a \in Nat /\ b \in Nat /\ l \in Nat /\ q \in Nat /\ m \in 1..l
        BY <2>2, <3>2, Zenon
      <4> HIDE DEF j, a, b, e, l, q
      <4>5. p \in 1..a /\ p <= e
        BY <4>2, <4>4
      <4> HIDE DEF p
      <4>6. g[j][p] = pieces[i][m]
        BY <4>2, <4>3, <4>5, Zenon
      <4> QED
        BY <4>5, <4>6, Zenon DEF p, b, e
    <3> QED
      BY <3>3, <3>4
  <2> QED
    BY <2>1, <2>2
<1>9. T = Nat
  <2>1. T \subseteq Nat
    OBVIOUS
  <2> HIDE DEF T
  <2> QED
    BY <1>7, <1>8, <2>1, Ind!Induction
<1>10. CASE n = 0
  <2>1. pieces = <<>> /\ FlattenSeq(pieces) = <<>> /\ at[n] = 0
    BY <1>3, <1>4, <1>10 DEF n
  <2>2. FlattenSeq(pieces) \in Seq(C) /\ Len(FlattenSeq(pieces)) = at[n]
    BY <2>1, EmptySeq
  <2>3. \A i \in 1..n : FALSE
    BY <1>10
  <2>4. \A i \in 1..n : \A m \in 1..Len(pieces[i]) : FlattenSeq(pieces)[at[i - 1] + m] = pieces[i][m]
    BY <2>3, Zenon
  <2> HIDE DEF at
  <2> QED
    BY <1>6, <2>2, <2>4, Zenon DEF n
<1>11. CASE n # 0
  <2>1. n \in 1..n /\ n - 1 \in Nat /\ (n - 1) + 1 = n
    BY <1>1, <1>11
  <2>2. \A i \in 1..n : \A m \in 1..Len(pieces[i]) : g[n][at[i - 1] + m] = pieces[i][m]
    BY <1>9, <2>1
  <2>3. FlattenSeq(pieces) = g[n] /\ Len(g[n]) = at[n] /\ g[n] \in Seq(C)
    BY <1>2, <1>3, <1>4, <1>11, <2>1
  <2>4. \A i \in 1..n : \A m \in 1..Len(pieces[i]) : FlattenSeq(pieces)[at[i - 1] + m] = pieces[i][m]
    BY <2>2, <2>3, Zenon
  <2>5. FlattenSeq(pieces) \in Seq(C) /\ Len(FlattenSeq(pieces)) = at[n]
    BY <2>3
  <2> QED
    BY <1>6, <2>4, <2>5, Zenon DEF n
<1> QED
  BY <1>10, <1>11

\* Places that do not go back step by step do not at all.
LEMMA Grows ==
  ASSUME NEW n \in Nat, NEW at \in [0..n -> Nat], \A i \in 1..n : at[i - 1] <= at[i]
  PROVE  /\ \A i, j \in 0..n : i <= j => at[i] <= at[j]
         /\ \A k \in Nat : at[0] < k /\ k <= at[n] => \E i \in 1..n : at[i - 1] < k /\ k <= at[i]
<1> DEFINE T == {j \in Nat : j \in 0..n =>
                   /\ \A i \in 0..j : at[i] <= at[j]
                   /\ \A k \in Nat : at[0] < k /\ k <= at[j] => \E i \in 1..n : at[i - 1] < k /\ k <= at[i]}
<1>1. 0 \in T
  <2>1. 0 \in 0..n /\ at[0] \in Nat
    OBVIOUS
  <2>2. \A i \in 0..0 : i = 0
    OBVIOUS
  <2> QED
    BY <2>1, <2>2
<1>2. ASSUME NEW j \in T
      PROVE  j + 1 \in T
  <2>1. j \in Nat /\ j + 1 \in Nat /\ (j + 1) - 1 = j
    OBVIOUS
  <2>2. CASE j + 1 \in 0..n
    <3>1. j \in 0..n /\ j + 1 \in 1..n
      BY <2>1, <2>2
    <3>2. at[j] <= at[j + 1] /\ at[j] \in Nat /\ at[j + 1] \in Nat
      BY <2>1, <2>2, <3>1
    <3>3. ASSUME NEW i \in 0..(j + 1)
          PROVE  at[i] <= at[j + 1]
      <4>1. CASE i = j + 1
        BY <3>2, <4>1
      <4>2. CASE i # j + 1
        <5>1. i \in 0..j /\ i \in 0..n
          BY <2>1, <3>1, <4>2
        <5>2. at[i] <= at[j] /\ at[i] \in Nat
          BY <3>1, <5>1
        <5> QED
          BY <3>2, <5>2
      <4> QED
        BY <4>1, <4>2
    <3>4. ASSUME NEW k \in Nat, at[0] < k, k <= at[j + 1]
          PROVE  \E i \in 1..n : at[i - 1] < k /\ k <= at[i]
      <4>1. CASE k <= at[j]
        BY <3>1, <3>4, <4>1
      <4>2. CASE ~(k <= at[j])
        <5>1. at[j] < k
          BY <3>2, <4>2
        <5> QED
          BY <2>1, <3>1, <3>4, <5>1
      <4> QED
        BY <4>1, <4>2
    <3> QED
      BY <2>1, <3>3, <3>4
  <2> QED
    BY <2>1, <2>2
<1>3. T = Nat
  <2>1. T \subseteq Nat
    OBVIOUS
  <2> HIDE DEF T
  <2> QED
    BY <1>1, <1>2, <2>1, Ind!Induction
<1>4. ASSUME NEW j \in 0..n
      PROVE  /\ \A i \in 0..j : at[i] <= at[j]
             /\ \A k \in Nat : at[0] < k /\ k <= at[j] => \E i \in 1..n : at[i - 1] < k /\ k <= at[i]
  <2>1. j \in Nat
    OBVIOUS
  <2>2. j \in T
    BY <1>3, <2>1, Zenon
  <2> QED
    BY <2>2
<1> HIDE DEF T
<1>5. n \in 0..n /\ \A i, j \in 0..n : i <= j => i \in 0..j
  OBVIOUS
<1> QED
  BY <1>4, <1>5

FileValues == Fields \cup {NoField, NoMetric} \cup SavedGpus \cup Metrics \cup BOOLEAN
Line == {"SortBy", "DisplayField", "Pdev", "Monitor", "ShownInfo"} \X FileValues

SavedOptions(order) ==
  [sort : Fields \cup {NoField}, fields : SUBSET Fields, gpus : [ToSet(order) -> GpuChoices]]

\* "none" takes a line, too.
LineCount(S) == IF S = {} THEN 1 ELSE Cardinality(S)
LineValue(S, none, i) == IF S = {} THEN none ELSE Ascending(S)[i]

LEMMA SetLines ==
  ASSUME NEW S \in SUBSET Nat, IsFiniteSet(S), NEW none, NEW V, S \subseteq V, none \in V
  PROVE  /\ LineCount(S) \in Nat \ {0}
         /\ \A i \in 1..LineCount(S) : LineValue(S, none, i) \in V
<1>1. Cardinality(S) \in Nat /\ (Cardinality(S) = 0 <=> S = {})
  BY FS_CardinalityType, FS_EmptySet
<1>2. CASE S = {}
  BY <1>2 DEF LineCount, LineValue
<1>3. CASE S # {}
  <2>1. \A i \in 1..Cardinality(S) : Ascending(S)[i] \in S
    BY AscendingIs
  <2> QED
    BY <1>1, <1>3, <2>1 DEF LineCount, LineValue
<1> QED
  BY <1>2, <1>3

LEMMA DrawIsFinite ==
  ASSUME NEW c \in GpuChoices
  PROVE  /\ c.draw \in SUBSET Metrics /\ c.draw \in SUBSET Nat /\ IsFiniteSet(c.draw)
         /\ Cardinality(c.draw) \in Nat /\ Cardinality(c.draw) <= MaxLines
         /\ c.monitor \in BOOLEAN
<1>1. c.draw \in ToDraw /\ c.monitor \in BOOLEAN
  BY DEF GpuChoices
<1>2. c.draw \in SUBSET Metrics /\ Cardinality(c.draw) <= MaxLines
  BY <1>1 DEF ToDraw
<1>3. IsFiniteSet(c.draw)
  BY <1>2, MetricsAssumption, FS_Subset
<1> QED
  BY <1>1, <1>2, <1>3, MetricsAssumption, FS_CardinalityType

LEMMA DeviceLinesAre ==
  ASSUME NEW g \in SavedGpus, NEW c \in GpuChoices
  PROVE  /\ DeviceLines(g, c) \in Seq(Line)
         /\ Len(DeviceLines(g, c)) = 2 + LineCount(c.draw)
         /\ DeviceLines(g, c)[1] = <<"Pdev", g>>
         /\ DeviceLines(g, c)[2] = <<"Monitor", c.monitor>>
         /\ \A i \in 1..LineCount(c.draw) :
              DeviceLines(g, c)[2 + i] = <<"ShownInfo", LineValue(c.draw, NoMetric, i)>>
<1> DEFINE s == <<<<"Pdev", g>>, <<"Monitor", c.monitor>>>>
           t == [i \in 1..LineCount(c.draw) |-> <<"ShownInfo", LineValue(c.draw, NoMetric, i)>>]
<1>1. /\ c.draw \in SUBSET Nat /\ IsFiniteSet(c.draw) /\ c.draw \subseteq FileValues
      /\ NoMetric \in FileValues /\ c.monitor \in FileValues /\ g \in FileValues
  BY DrawIsFinite DEF FileValues
<1>2. /\ LineCount(c.draw) \in Nat \ {0}
      /\ \A i \in 1..LineCount(c.draw) : LineValue(c.draw, NoMetric, i) \in FileValues
  BY <1>1, SetLines
<1>3. /\ <<"Pdev", g>> \in Line /\ <<"Monitor", c.monitor>> \in Line
      /\ \A i \in 1..LineCount(c.draw) : <<"ShownInfo", LineValue(c.draw, NoMetric, i)>> \in Line
  BY <1>1, <1>2 DEF Line
<1> DEFINE n == LineCount(c.draw)
<1>4. DeviceLines(g, c) = s \o t
  <2>1. CASE c.draw = {}
    <3>1. t = <<<<"ShownInfo", NoMetric>>>>
      BY <2>1 DEF LineCount, LineValue
    <3> HIDE DEF t
    <3> QED
      BY <2>1, <3>1, Zenon DEF DeviceLines
  <2>2. CASE c.draw # {}
    <3>1. t = [i \in 1..Cardinality(c.draw) |-> <<"ShownInfo", Ascending(c.draw)[i]>>]
      BY <2>2, Zenon DEF LineCount, LineValue
    <3> HIDE DEF t
    <3> QED
      BY <2>2, <3>1, Zenon DEF DeviceLines
  <2> HIDE DEF s, t
  <2> QED
    BY <2>1, <2>2, Zenon
<1>5. s \in Seq(Line) /\ Len(s) = 2
  BY <1>3
<1>6. t \in Seq(Line) /\ Len(t) = n /\ \A i \in 1..n : t[i] = <<"ShownInfo", LineValue(c.draw, NoMetric, i)>>
  <2>1. t \in [1..n -> Line] /\ \A i \in 1..n : t[i] = <<"ShownInfo", LineValue(c.draw, NoMetric, i)>>
    BY <1>3
  <2>2. n \in Nat
    BY <1>2
  <2> HIDE DEF n, t
  <2> QED
    BY <2>1, <2>2
<1>7. s[1] = <<"Pdev", g>> /\ s[2] = <<"Monitor", c.monitor>>
  OBVIOUS
<1> HIDE DEF s, t
<1>8. /\ s \o t \in Seq(Line) /\ Len(s \o t) = 2 + n
      /\ \A i \in 1..(2 + n) : (s \o t)[i] = IF i <= 2 THEN s[i] ELSE t[i - 2]
  <2>1. /\ s \o t \in Seq(Line) /\ Len(s \o t) = Len(s) + Len(t)
        /\ \A i \in 1..(Len(s) + Len(t)) : (s \o t)[i] = IF i <= Len(s) THEN s[i] ELSE t[i - Len(s)]
    BY <1>5, <1>6, ConcatProperties
  <2> HIDE DEF n
  <2> QED
    BY <1>5, <1>6, <2>1, Zenon
<1>9. n \in Nat \ {0}
  BY <1>2
<1> HIDE DEF n
<1>10. (s \o t)[1] = s[1] /\ (s \o t)[2] = s[2] /\ \A i \in 1..n : (s \o t)[2 + i] = t[i]
  <2>1. 1 \in 1..(2 + n) /\ 2 \in 1..(2 + n) /\ 1 <= 2 /\ 2 <= 2
    BY <1>9
  <2>2. ASSUME NEW i \in 1..n
        PROVE  (s \o t)[2 + i] = t[i]
    <3>1. 2 + i \in 1..(2 + n) /\ ~(2 + i <= 2) /\ (2 + i) - 2 = i
      BY <1>9
    <3> QED
      BY <1>8, <3>1
  <2>3. (s \o t)[1] = s[1] /\ (s \o t)[2] = s[2]
    BY <1>8, <2>1
  <2> QED
    BY <2>2, <2>3
<1> QED
  BY <1>4, <1>6, <1>7, <1>8, <1>10 DEF n

\* The devices of the file, one after the other; they begin after the fields.
Pieces(order, o) == [i \in 1..Len(order) |-> DeviceLines(order[i], o.gpus[order[i]])]

\* Where they end.
Ends(at, order, o) ==
  /\ at \in [0..Len(order) -> Nat] /\ at[0] = 1 + LineCount(o.fields)
  /\ \A i \in 1..Len(order) : at[i] = at[i - 1] + Len(Pieces(order, o)[i])

IsFile(L, at, order, o) ==
  /\ L \in Seq(Line) /\ Len(L) = at[Len(order)] /\ Ends(at, order, o)
  /\ L[1] = <<"SortBy", o.sort>>
  /\ \A i \in 1..LineCount(o.fields) :
       L[1 + i] = <<"DisplayField", LineValue(o.fields, NoField, i)>>
  /\ \A i \in 1..Len(order) : \A m \in 1..Len(Pieces(order, o)[i]) :
       L[at[i - 1] + m] = Pieces(order, o)[i][m]

LEMMA FieldsFinite ==
  ASSUME NEW S \in SUBSET Fields
  PROVE  S \in SUBSET Nat /\ IsFiniteSet(S) /\ Cardinality(S) \in Nat
<1>1. IsFiniteSet(Fields) /\ Fields \in SUBSET Nat
  BY FieldsAssumption, FS_Interval DEF Fields
<1> QED
  BY <1>1, FS_Subset, FS_CardinalityType

LEMMA LinesAre ==
  ASSUME NEW order \in Seq(SavedGpus), NEW o \in SavedOptions(order)
  PROVE  \E at : IsFile(Lines(order, o), at, order, o)
<1> DEFINE F == LineCount(o.fields)
           s == <<<<"SortBy", o.sort>>>>
           t == [i \in 1..F |-> <<"DisplayField", LineValue(o.fields, NoField, i)>>]
           pieces == Pieces(order, o)
           u == FlattenSeq(pieces)
           n == Len(order)
<1>0. n \in Nat /\ \A i \in 1..n : order[i] \in SavedGpus /\ order[i] \in ToSet(order)
  BY DEF ToSet
<1>1. /\ o.sort \in FileValues /\ o.fields \in SUBSET Fields /\ o.fields \subseteq FileValues
      /\ NoField \in FileValues /\ o.gpus \in [ToSet(order) -> GpuChoices]
  BY DEF SavedOptions, FileValues
<1>2. /\ F \in Nat \ {0}
      /\ \A i \in 1..F : LineValue(o.fields, NoField, i) \in FileValues
  BY <1>1, FieldsFinite, SetLines
<1>3. /\ <<"SortBy", o.sort>> \in Line
      /\ \A i \in 1..F : <<"DisplayField", LineValue(o.fields, NoField, i)>> \in Line
  BY <1>1, <1>2 DEF Line
<1>4. pieces \in Seq(Seq(Line)) /\ Len(pieces) = n
  <2>1. \A i \in 1..n : DeviceLines(order[i], o.gpus[order[i]]) \in Seq(Line)
    BY <1>0, <1>1, DeviceLinesAre
  <2> QED
    BY <1>0, <2>1 DEF Pieces
<1>5. Lines(order, o) = (s \o t) \o u
  <2>1. CASE o.fields = {}
    <3>1. t = <<<<"DisplayField", NoField>>>>
      BY <2>1 DEF LineCount, LineValue
    <3> HIDE DEF t
    <3> QED
      BY <2>1, <3>1, Zenon DEF Lines, Pieces
  <2>2. CASE o.fields # {}
    <3>1. t = [i \in 1..Cardinality(o.fields) |-> <<"DisplayField", Ascending(o.fields)[i]>>]
      BY <2>2, Zenon DEF LineCount, LineValue
    <3> HIDE DEF t
    <3> QED
      BY <2>2, <3>1, Zenon DEF Lines, Pieces
  <2> QED
    BY <2>1, <2>2
<1> HIDE DEF F, pieces, u
<1>6. u \in Seq(Line)
  BY <1>4, FlattenedIs DEF u
<1>7. PICK at : /\ Begins(at, pieces) /\ Len(u) = at[Len(pieces)]
                /\ \A i \in 1..Len(pieces) : \A m \in 1..Len(pieces[i]) : u[at[i - 1] + m] = pieces[i][m]
  BY <1>4, FlattenedIs DEF u
<1>8. s \in Seq(Line) /\ Len(s) = 1 /\ s[1] = <<"SortBy", o.sort>>
  BY <1>3
<1>9. t \in Seq(Line) /\ Len(t) = F /\ \A i \in 1..F : t[i] = <<"DisplayField", LineValue(o.fields, NoField, i)>>
  <2>1. t \in [1..F -> Line]
    BY <1>3
  <2> QED
    BY <1>2, <2>1
<1> HIDE DEF s, t
<1>10. /\ s \o t \in Seq(Line) /\ Len(s \o t) = 1 + F
       /\ (s \o t)[1] = s[1] /\ \A i \in 1..F : (s \o t)[1 + i] = t[i]
  <2>1. /\ s \o t \in Seq(Line) /\ Len(s \o t) = Len(s) + Len(t)
        /\ \A i \in 1..(Len(s) + Len(t)) : (s \o t)[i] = IF i <= Len(s) THEN s[i] ELSE t[i - Len(s)]
    BY <1>8, <1>9, ConcatProperties
  <2>2. \A i \in 1..(1 + F) : (s \o t)[i] = IF i <= 1 THEN s[i] ELSE t[i - 1]
    BY <1>8, <1>9, <2>1, Zenon
  <2>3. 1 \in 1..(1 + F) /\ 1 <= 1
    BY <1>2
  <2>4. ASSUME NEW i \in 1..F
        PROVE  (s \o t)[1 + i] = t[i]
    <3>1. 1 + i \in 1..(1 + F) /\ ~(1 + i <= 1) /\ (1 + i) - 1 = i
      BY <1>2
    <3> QED
      BY <2>2, <3>1
  <2> QED
    BY <1>8, <1>9, <2>1, <2>2, <2>3, <2>4
<1> DEFINE v == s \o t  b == [i \in 0..n |-> 1 + F + at[i]]
<1> HIDE DEF v
<1>11. /\ v \o u \in Seq(Line) /\ Len(v \o u) = 1 + F + Len(u)
       /\ \A k \in 1..(1 + F + Len(u)) : (v \o u)[k] = IF k <= 1 + F THEN v[k] ELSE u[k - (1 + F)]
  <2>1. /\ v \o u \in Seq(Line) /\ Len(v \o u) = Len(v) + Len(u)
        /\ \A i \in 1..(Len(v) + Len(u)) : (v \o u)[i] = IF i <= Len(v) THEN v[i] ELSE u[i - Len(v)]
    BY <1>6, <1>10, ConcatProperties DEF v
  <2>2. Len(v) = 1 + F
    BY <1>10 DEF v
  <2> QED
    BY <2>1, <2>2, Zenon
<1>12. at \in [0..n -> Nat] /\ at[0] = 0 /\ \A i \in 1..n : at[i] = at[i - 1] + Len(pieces[i])
  BY <1>4, <1>7, Zenon DEF Begins
<1>13. Ends(b, order, o)
  <2>1. ASSUME NEW i \in 1..n
        PROVE  b[i] = b[i - 1] + Len(pieces[i])
    <3>1. i \in 0..n /\ i - 1 \in 0..n
      BY <1>0
    <3>2. at[i] \in Nat /\ at[i - 1] \in Nat /\ at[i] = at[i - 1] + Len(pieces[i])
      BY <1>12, <3>1
    <3>3. Len(pieces[i]) \in Nat
      BY <1>4
    <3> QED
      BY <1>2, <3>1, <3>2, <3>3
  <2>2. b \in [0..n -> Nat] /\ b[0] = 1 + F
    BY <1>0, <1>2, <1>12
  <2> HIDE DEF b
  <2> QED
    BY <2>1, <2>2 DEF Ends, F, pieces
<1>14. Len(u) \in Nat /\ Len(u) = at[n]
  BY <1>4, <1>6, <1>7, LenProperties
<1>15. ASSUME NEW i \in 1..n, NEW m \in 1..Len(pieces[i])
       PROVE  (v \o u)[b[i - 1] + m] = pieces[i][m]
  <2>1. u[at[i - 1] + m] = pieces[i][m]
    BY <1>4, <1>7
  <2>2. /\ i - 1 \in 0..n /\ i \in 0..n /\ n \in 0..n /\ i <= n /\ b[i - 1] = 1 + F + at[i - 1]
        /\ m \in Nat \ {0} /\ m <= Len(pieces[i])
    BY <1>0
  <2>3. at[i - 1] \in Nat /\ at[i] \in Nat /\ Len(pieces[i]) \in Nat /\ at[i] = at[i - 1] + Len(pieces[i])
    <3>1. Len(pieces[i]) \in Nat
      BY <1>4
    <3> QED
      BY <1>12, <2>2, <3>1
  <2>4. at[i] <= at[n]
    <3>1. ASSUME NEW j \in 1..n
          PROVE  at[j - 1] <= at[j]
      <4>1. at[j] = at[j - 1] + Len(pieces[j])
        BY <1>12
      <4>2. j - 1 \in 0..n /\ at[j - 1] \in Nat
        BY <1>0, <1>12
      <4>3. Len(pieces[j]) \in Nat
        BY <1>4
      <4> QED
        BY <4>1, <4>2, <4>3
    <3> HIDE DEF b
    <3> QED
      BY <1>0, <1>12, <2>2, <3>1, Grows
  <2> DEFINE x == at[i - 1] + m
  <2>5. x \in 1..Len(u)
    <3> DEFINE a == at[i - 1]  e == at[n]  l == Len(pieces[i])
    <3>1. /\ a \in Nat /\ l \in Nat /\ a + l <= e /\ m \in Nat \ {0} /\ m <= l
          /\ Len(u) = e /\ e \in Nat
      BY <1>14, <2>2, <2>3, <2>4
    <3> HIDE DEF a, e, l
    <3>2. a + m \in 1..e
      BY <3>1
    <3> QED
      BY <3>1, <3>2, Zenon DEF a
  <2>6. 1 + F + x \in 1..(1 + F + Len(u)) /\ ~(1 + F + x <= 1 + F) /\ (1 + F + x) - (1 + F) = x
    BY <1>2, <1>14, <2>5
  <2>7. b[i - 1] + m = 1 + F + x
    BY <1>2, <2>2, <2>3
  <2> HIDE DEF b, x
  <2>8. (v \o u)[1 + F + x] = u[x]
    BY <1>11, <2>6
  <2> QED
    BY <2>1, <2>7, <2>8 DEF x
<1>16. /\ (v \o u)[1] = <<"SortBy", o.sort>>
       /\ \A i \in 1..F : (v \o u)[1 + i] = <<"DisplayField", LineValue(o.fields, NoField, i)>>
  <2>1. \A k \in 1..(1 + F) : (v \o u)[k] = v[k]
    BY <1>2, <1>11, <1>14
  <2>2. 1 \in 1..(1 + F) /\ \A i \in 1..F : 1 + i \in 1..(1 + F)
    BY <1>2
  <2> QED
    BY <1>8, <1>9, <1>10, <2>1, <2>2, Zenon DEF v
<1>17. Len(v \o u) = b[n]
  BY <1>0, <1>11, <1>14
<1> HIDE DEF b
<1>18. Lines(order, o) = v \o u
  BY <1>5, Zenon DEF v
<1>19. IsFile(v \o u, b, order, o)
  BY <1>11, <1>13, <1>15, <1>16, <1>17, Zenon DEF IsFile, F, pieces, n
<1> QED
  BY <1>18, <1>19, Zenon

-----------------------------------------------------------------------------
(* Reading them.                                                            *)

Choice == [draw : SUBSET Metrics, told : BOOLEAN, monitor : BOOLEAN]
ReadStates(D) ==
  [sort : Fields, fields : SUBSET Fields, told : BOOLEAN, selected : SUBSET D, gpus : [D -> Choice]]

\* A device of which m lines have been read.
IsPart(choice, c, m) ==
  /\ choice.draw \subseteq c.draw
  /\ \A i \in 1..Cardinality(c.draw) : Ascending(c.draw)[i] \in choice.draw <=> i <= m - 2
  /\ m > 2 => choice.told = TRUE
  /\ choice.told = TRUE /\ c.draw # {} => choice.draw # {}
  /\ m >= 2 => choice.monitor = c.monitor
  /\ c.monitor = TRUE => choice.monitor = TRUE

LEMMA ReadKinds ==
  ASSUME NEW x, NEW v
  PROVE  /\ Read(x, <<"SortBy", v>>) = IF v \in Fields THEN [x EXCEPT !.sort = v] ELSE x
         /\ Read(x, <<"DisplayField", v>>)
              = IF v \in Fields THEN [x EXCEPT !.fields = @ \cup {v}, !.told = TRUE] ELSE x
         /\ Read(x, <<"Pdev", v>>) = [x EXCEPT !.selected = {v} \cap DOMAIN x.gpus]
         /\ Read(x, <<"Monitor", v>>)
              = [x EXCEPT !.gpus = [g \in DOMAIN x.gpus |->
                   IF g \in x.selected THEN [x.gpus[g] EXCEPT !.monitor = v] ELSE x.gpus[g]]]
         /\ Read(x, <<"ShownInfo", v>>)
              = [x EXCEPT !.gpus = [g \in DOMAIN x.gpus |->
                   IF g \in x.selected THEN Shown(x.gpus[g], v) ELSE x.gpus[g]]]
<1>1. \A kind : <<kind, v>>[1] = kind /\ <<kind, v>>[2] = v
  OBVIOUS
<1> QED
  BY <1>1, Zenon DEF Read

\* One more metric.
LEMMA ShownIs ==
  ASSUME NEW c \in GpuChoices, NEW choice \in Choice, NEW i \in 1..LineCount(c.draw),
         IsPart(choice, c, i + 1)
  PROVE  /\ Shown(choice, LineValue(c.draw, NoMetric, i)) \in Choice
         /\ IsPart(Shown(choice, LineValue(c.draw, NoMetric, i)), c, i + 2)
<1> DEFINE v == LineValue(c.draw, NoMetric, i)
           S == IF v \in Metrics THEN AddDraw(v, choice.draw) ELSE choice.draw
           y == Shown(choice, v)
           n == Cardinality(c.draw)
<1>1. /\ c.draw \in SUBSET Metrics /\ c.draw \in SUBSET Nat /\ IsFiniteSet(c.draw)
      /\ n \in Nat /\ n <= MaxLines /\ MaxLines \in Nat /\ MaxLines > 1
  BY DrawIsFinite, LinesAssumption, SavedAssumption
<1>2. /\ choice.draw \subseteq c.draw /\ choice.draw \in SUBSET Metrics
      /\ choice.told \in BOOLEAN /\ choice.monitor \in BOOLEAN
      /\ choice = [draw |-> choice.draw, told |-> choice.told, monitor |-> choice.monitor]
  BY DEF IsPart, Choice
<1>3. IsFiniteSet(choice.draw) /\ Cardinality(choice.draw) \in Nat
  BY <1>1, <1>2, FS_Subset, FS_CardinalityType
<1>4. i \in Nat \ {0} /\ i + 1 >= 2 /\ (i + 1) - 2 = i - 1 /\ (i + 2) - 2 = i
      /\ (i > 1 => i + 1 > 2) /\ i + 2 > 2 /\ i + 2 >= 2
  BY <1>1, SetLines DEF LineCount
<1>5. /\ \A j \in 1..n : Ascending(c.draw)[j] \in choice.draw <=> j <= i - 1
      /\ i > 1 => choice.told = TRUE
      /\ choice.monitor = c.monitor
  BY <1>4 DEF IsPart
<1>6. /\ S \in SUBSET Metrics /\ S \subseteq c.draw
      /\ \A j \in 1..n : Ascending(c.draw)[j] \in S <=> j <= i
      /\ i = 1 => Cardinality(S) < MaxLines
      /\ c.draw # {} => S # {}
  <2>1. CASE c.draw = {}
    <3>1. v = NoMetric /\ v \notin Metrics /\ S = choice.draw /\ choice.draw = {} /\ n = 0
      BY <1>2, <2>1, DefaultsAssumption, FS_EmptySet DEF LineValue
    <3>2. Cardinality(S) = 0
      BY <3>1, FS_EmptySet
    <3>3. \A j \in 1..n : FALSE
      BY <3>1
    <3> HIDE DEF S, n
    <3> QED
      BY <1>1, <2>1, <3>1, <3>2, <3>3
  <2>2. CASE c.draw # {}
    <3> DEFINE a == Ascending(c.draw)
    <3>1. v = a[i] /\ i \in 1..n
      BY <2>2 DEF LineCount, LineValue
    <3>2. /\ \A j \in 1..n : a[j] \in c.draw
          /\ \A j, k \in 1..n : j < k => a[j] < a[k]
          /\ \A m \in c.draw : \E j \in 1..n : a[j] = m
      BY <1>1, AscendingIs
    <3> HIDE DEF a, n, v
    <3>3. v \in c.draw /\ v \in Metrics /\ v \notin choice.draw
      <4>1. ~(i <= i - 1)
        BY <1>4
      <4> QED
        BY <1>1, <1>5, <3>1, <3>2, <4>1 DEF a
    <3>4. Cardinality(choice.draw) < n
      <4>1. /\ Cardinality(choice.draw) <= Cardinality(c.draw)
            /\ Cardinality(c.draw) = Cardinality(choice.draw) => c.draw = choice.draw
        BY <1>1, <1>2, FS_Subset
      <4>2. c.draw # choice.draw
        BY <3>3
      <4> QED
        BY <1>1, <1>3, <4>1, <4>2 DEF n
    <3>5. S = choice.draw \cup {v}
      <4>1. Cardinality(choice.draw) < MaxLines
        BY <1>1, <1>3, <3>4
      <4> QED
        BY <3>3, <4>1 DEF AddDraw
    <3>6. \A j \in 1..n : a[j] = v <=> j = i
      <4>1. ASSUME NEW j \in 1..n, a[j] = v
            PROVE  j = i
        <5>1. a[j] \in Nat /\ a[i] \in Nat /\ j \in Nat /\ i \in Nat
          BY <1>1, <3>1, <3>2
        <5>2. ~(j < i) /\ ~(i < j)
          BY <3>1, <3>2, <4>1, <5>1
        <5> QED
          BY <5>1, <5>2
      <4> QED
        BY <3>1, <4>1
    <3>7. \A j \in 1..n : a[j] \in S <=> j <= i
      <4> SUFFICES ASSUME NEW j \in 1..n
                   PROVE  a[j] \in S <=> j <= i
        OBVIOUS
      <4>1. a[j] \in choice.draw <=> j <= i - 1
        BY <1>5 DEF a
      <4>2. a[j] = v <=> j = i
        BY <3>6
      <4>3. j <= i <=> (j <= i - 1 \/ j = i)
        BY <1>1, <1>4
      <4> HIDE DEF S
      <4> QED
        BY <3>5, <4>1, <4>2, <4>3
    <3>8. i = 1 => Cardinality(S) < MaxLines
      <4> SUFFICES ASSUME i = 1
                   PROVE  Cardinality(S) < MaxLines
        OBVIOUS
      <4>1. \A m \in choice.draw : FALSE
        <5>1. ASSUME NEW m \in choice.draw
              PROVE  FALSE
          <6>1. PICK j \in 1..n : a[j] = m
            BY <1>2, <3>2
          <6>2. j <= 0
            BY <1>5, <6>1 DEF a
          <6> QED
            BY <6>2
        <5> QED
          BY <5>1
      <4>2. S = {v}
        BY <3>5, <4>1
      <4>3. Cardinality(S) = 1
        BY <4>2, FS_Singleton
      <4> HIDE DEF S
      <4> QED
        BY <1>1, <4>3
    <3> HIDE DEF S
    <3>9. S \subseteq c.draw /\ S # {}
      BY <1>2, <3>3, <3>5
    <3> QED
      BY <1>1, <3>7, <3>8, <3>9 DEF a
  <2> QED
    BY <2>1, <2>2
<1>7. y = [choice EXCEPT !.draw = S, !.told = choice.told \/ Cardinality(S) < MaxLines]
  BY Zenon DEF Shown
<1> HIDE DEF S, n, v
<1>8. choice.told \/ Cardinality(S) < MaxLines
  <2>1. CASE i = 1
    BY <1>6, <2>1
  <2>2. CASE i # 1
    <3>1. choice.told = TRUE
      BY <1>4, <1>5, <2>2
    <3> QED
      BY <3>1, Zenon
  <2> QED
    BY <2>1, <2>2, Zenon
<1>9. y = [draw |-> S, told |-> TRUE, monitor |-> choice.monitor]
  <2>1. (choice.told \/ Cardinality(S) < MaxLines) = TRUE
    BY <1>8, Zenon
  <2> HIDE DEF y
  <2>2. y = [choice EXCEPT !.draw = S, !.told = TRUE]
    BY <1>7, <2>1, Zenon
  <2> QED
    BY <1>2, <2>2
<1> HIDE DEF y
<1>10. y \in Choice
  BY <1>2, <1>6, <1>9 DEF Choice
<1>11. y.draw = S /\ y.told = TRUE /\ y.monitor = c.monitor
  BY <1>5, <1>9
<1>12. c.monitor = TRUE => y.monitor = TRUE
  BY <1>11
<1>13. IsPart(y, c, i + 2)
  BY <1>4, <1>6, <1>11, <1>12 DEF IsPart, n
<1> QED
  BY <1>10, <1>13 DEF y, v

\* What is read besides the devices.
SameHead(y, x) == y.sort = x.sort /\ y.fields = x.fields /\ y.told = x.told

\* The m-th line of a device changes that device at most.
DeviceRead(y, x, D, g, c, m) ==
  /\ y \in ReadStates(D) /\ SameHead(y, x) /\ y.selected = {g} \cap D
  /\ \A h \in D : h # g => y.gpus[h] = x.gpus[h]
  /\ g \in D => IsPart(y.gpus[g], c, m)

LEMMA DeviceReadIs ==
  ASSUME NEW D \in SUBSET SavedGpus, NEW x \in ReadStates(D), NEW g \in SavedGpus,
         NEW c \in GpuChoices, NEW m \in 1..Len(DeviceLines(g, c)),
         m > 1 => x.selected = {g} \cap D,
         g \in D => IsPart(x.gpus[g], c, m - 1)
  PROVE  DeviceRead(Read(x, DeviceLines(g, c)[m]), x, D, g, c, m)
<1> DEFINE y == Read(x, DeviceLines(g, c)[m])  n == LineCount(c.draw)
<1>1. /\ x.sort \in Fields /\ x.fields \in SUBSET Fields /\ x.told \in BOOLEAN
      /\ x.selected \in SUBSET D /\ x.gpus \in [D -> Choice] /\ DOMAIN x.gpus = D
      /\ x = [sort |-> x.sort, fields |-> x.fields, told |-> x.told, selected |-> x.selected,
              gpus |-> x.gpus]
  BY DEF ReadStates
<1>2. /\ Len(DeviceLines(g, c)) = 2 + n /\ n \in Nat \ {0}
      /\ DeviceLines(g, c)[1] = <<"Pdev", g>>
      /\ DeviceLines(g, c)[2] = <<"Monitor", c.monitor>>
      /\ \A i \in 1..n : DeviceLines(g, c)[2 + i] = <<"ShownInfo", LineValue(c.draw, NoMetric, i)>>
  <2>1. n \in Nat \ {0}
    <3>1. NoMetric \in c.draw \cup {NoMetric} /\ c.draw \subseteq c.draw \cup {NoMetric}
      OBVIOUS
    <3> QED
      BY <3>1, DrawIsFinite, SetLines, Zenon
  <2> HIDE DEF n
  <2> QED
    BY <2>1, DeviceLinesAre DEF n
<1> HIDE DEF n
<1>3. m \in Nat /\ m >= 1 /\ m <= 2 + n
  BY <1>2
<1>4. CASE m = 1
  <2>1. y = [x EXCEPT !.selected = {g} \cap D]
    <3>1. Read(x, <<"Pdev", g>>) = [x EXCEPT !.selected = {g} \cap DOMAIN x.gpus]
      BY ReadKinds, Zenon
    <3> QED
      BY <1>1, <1>2, <1>4, <3>1, Zenon
  <2> HIDE DEF y
  <2>2. y = [sort |-> x.sort, fields |-> x.fields, told |-> x.told, selected |-> {g} \cap D,
             gpus |-> x.gpus]
    BY <1>1, <2>1
  <2>3. y \in ReadStates(D)
    BY <1>1, <2>2 DEF ReadStates
  <2>4. g \in D => IsPart(x.gpus[g], c, 1)
    <3> SUFFICES ASSUME g \in D
                 PROVE  IsPart(x.gpus[g], c, 1)
      OBVIOUS
    <3>1. m - 1 = 0
      BY <1>4
    <3>2. IsPart(x.gpus[g], c, 0)
      BY <3>1
    <3>3. Cardinality(c.draw) \in Nat
      BY DrawIsFinite
    <3>4. \A i \in 1..Cardinality(c.draw) : (i <= 0 - 2 <=> FALSE) /\ (i <= 1 - 2 <=> FALSE)
      BY <3>3
    <3>5. ~(1 > 2) /\ ~(1 >= 2)
      OBVIOUS
    <3> QED
      BY <3>2, <3>4, <3>5, Zenon DEF IsPart
  <2>5. SameHead(y, x) /\ y.selected = {g} \cap D /\ y.gpus = x.gpus
    BY <2>2 DEF SameHead
  <2> QED
    BY <1>4, <2>3, <2>4, <2>5 DEF DeviceRead, y
<1>5. ASSUME m > 1, NEW u,
             g \in D => u \in Choice /\ IsPart(u, c, m),
             y = [x EXCEPT !.gpus = [h \in DOMAIN x.gpus |-> IF h \in x.selected THEN u ELSE x.gpus[h]]]
      PROVE  DeviceRead(y, x, D, g, c, m)
  <2> HIDE DEF y
  <2> DEFINE gpus == [h \in D |-> IF h \in x.selected THEN u ELSE x.gpus[h]]
  <2>1. x.selected = {g} \cap D
    BY <1>5
  <2>2. gpus \in [D -> Choice] /\ (g \in D => gpus[g] = u) /\ \A h \in D : h # g => gpus[h] = x.gpus[h]
    <3>1. \A h \in D : x.gpus[h] \in Choice /\ (h \in x.selected <=> h = g)
      BY <1>1, <2>1
    <3>2. g \in D => u \in Choice
      BY <1>5
    <3> QED
      BY <3>1, <3>2
  <2>3. y = [x EXCEPT !.gpus = gpus]
    BY <1>1, <1>5, Zenon
  <2> HIDE DEF gpus
  <2>4. y = [sort |-> x.sort, fields |-> x.fields, told |-> x.told, selected |-> x.selected,
             gpus |-> gpus]
    BY <1>1, <2>3
  <2>5. y \in ReadStates(D)
    BY <1>1, <2>2, <2>4 DEF ReadStates
  <2>6. SameHead(y, x) /\ y.selected = {g} \cap D /\ y.gpus = gpus
    BY <2>1, <2>4 DEF SameHead
  <2> QED
    BY <1>5, <2>2, <2>5, <2>6 DEF DeviceRead
<1>6. CASE m = 2
  <2> DEFINE u == [x.gpus[g] EXCEPT !.monitor = c.monitor]
  <2>1. y = [x EXCEPT !.gpus = [h \in DOMAIN x.gpus |->
               IF h \in x.selected THEN [x.gpus[h] EXCEPT !.monitor = c.monitor] ELSE x.gpus[h]]]
    <3>1. Read(x, <<"Monitor", c.monitor>>)
            = [x EXCEPT !.gpus = [h \in DOMAIN x.gpus |->
                 IF h \in x.selected THEN [x.gpus[h] EXCEPT !.monitor = c.monitor] ELSE x.gpus[h]]]
      BY ReadKinds, Zenon
    <3> QED
      BY <1>2, <1>6, <3>1, Zenon
  <2>2. \A h \in x.selected : h = g
    BY <1>6
  <2>3. y = [x EXCEPT !.gpus = [h \in DOMAIN x.gpus |-> IF h \in x.selected THEN u ELSE x.gpus[h]]]
    BY <2>1, <2>2, Zenon
  <2>4. g \in D => u \in Choice /\ IsPart(u, c, m)
    <3> SUFFICES ASSUME g \in D
                 PROVE  u \in Choice /\ IsPart(u, c, 2)
      BY <1>6
    <3> DEFINE w == x.gpus[g]
    <3>1. w \in Choice /\ c.monitor \in BOOLEAN
      BY <1>1, DrawIsFinite
    <3>2. IsPart(w, c, 1)
      <4>1. m - 1 = 1
        BY <1>6
      <4> QED
        BY <4>1
    <3> HIDE DEF w
    <3>3. u = [draw |-> w.draw, told |-> w.told, monitor |-> c.monitor]
      <4>1. w = [draw |-> w.draw, told |-> w.told, monitor |-> w.monitor]
        BY <3>1 DEF Choice
      <4>2. u = [w EXCEPT !.monitor = c.monitor]
        BY Zenon DEF w
      <4> HIDE DEF u
      <4> QED
        BY <4>1, <4>2
    <3> HIDE DEF u
    <3>4. u \in Choice /\ u.draw = w.draw /\ u.told = w.told /\ u.monitor = c.monitor
      BY <3>1, <3>3 DEF Choice
    <3>5. Cardinality(c.draw) \in Nat
      BY DrawIsFinite
    <3>6. \A i \in 1..Cardinality(c.draw) : (i <= 1 - 2 <=> FALSE) /\ (i <= 2 - 2 <=> FALSE)
      BY <3>5
    <3>7. ~(2 > 2)
      OBVIOUS
    <3> QED
      BY <3>2, <3>4, <3>6, <3>7, Zenon DEF IsPart
  <2>5. m > 1
    BY <1>6
  <2> HIDE DEF u, y
  <2> QED
    BY <1>5, <2>3, <2>4, <2>5 DEF y
<1>7. CASE m > 2
  <2> DEFINE i == m - 2  v == LineValue(c.draw, NoMetric, i)  u == Shown(x.gpus[g], v)
  <2>1. i \in 1..n /\ m = 2 + i /\ m - 1 = i + 1 /\ m = i + 2 /\ m > 1
    BY <1>2, <1>3, <1>7
  <2>2. DeviceLines(g, c)[m] = <<"ShownInfo", v>>
    BY <1>2, <2>1
  <2>3. y = [x EXCEPT !.gpus = [h \in DOMAIN x.gpus |->
               IF h \in x.selected THEN Shown(x.gpus[h], v) ELSE x.gpus[h]]]
    <3>1. Read(x, <<"ShownInfo", v>>)
            = [x EXCEPT !.gpus = [h \in DOMAIN x.gpus |->
                 IF h \in x.selected THEN Shown(x.gpus[h], v) ELSE x.gpus[h]]]
      BY ReadKinds, Zenon
    <3> QED
      BY <2>2, <3>1, Zenon
  <2>4. \A h \in x.selected : h = g
    BY <2>1
  <2>5. y = [x EXCEPT !.gpus = [h \in DOMAIN x.gpus |-> IF h \in x.selected THEN u ELSE x.gpus[h]]]
    BY <2>3, <2>4, Zenon
  <2>6. g \in D => u \in Choice /\ IsPart(u, c, m)
    <3> SUFFICES ASSUME g \in D
                 PROVE  u \in Choice /\ IsPart(u, c, i + 2)
      BY <2>1
    <3>1. x.gpus[g] \in Choice
      BY <1>1
    <3>2. IsPart(x.gpus[g], c, i + 1)
      BY <2>1
    <3> HIDE DEF i
    <3> QED
      BY <2>1, <3>1, <3>2, ShownIs, Zenon DEF n
  <2> HIDE DEF u, y, v, i
  <2> QED
    BY <1>5, <2>1, <2>5, <2>6 DEF y
<1> QED
  BY <1>3, <1>4, <1>6, <1>7

\* How many of the n lines that follow line a are among the first k.
Taken(k, a, n) == IF k <= a THEN 0 ELSE IF k - a <= n THEN k - a ELSE n

OneMore(k, n, at, size, i) ==
  /\ Taken(k + 1, at[i - 1], size[i]) = (k + 1) - at[i - 1]
  /\ Taken(k, at[i - 1], size[i]) = k - at[i - 1]
  /\ (k + 1) - at[i - 1] \in 1..size[i]
  /\ \A j \in 1..n : j # i =>
       /\ Taken(k + 1, at[j - 1], size[j]) = Taken(k, at[j - 1], size[j])
       /\ ~(at[j - 1] < k + 1 /\ k + 1 <= at[j])

LEMMA TakenIs ==
  ASSUME NEW n \in Nat, NEW at \in [0..n -> Nat], NEW size \in [1..n -> Nat],
         \A j \in 1..n : at[j] = at[j - 1] + size[j],
         NEW k \in Nat, NEW i \in 1..n, at[i - 1] < k + 1, k + 1 <= at[i]
  PROVE  OneMore(k, n, at, size, i)
<1>1. \A j \in 1..n : j - 1 \in 0..n /\ j \in 0..n /\ at[j - 1] \in Nat /\ at[j] \in Nat /\ size[j] \in Nat
  OBVIOUS
<1>2. \A j, l \in 0..n : j <= l => at[j] <= at[l]
  <2>1. \A j \in 1..n : at[j - 1] <= at[j]
    BY <1>1
  <2> QED
    BY <2>1, Grows
<1>3. /\ at[i - 1] \in Nat /\ size[i] \in Nat /\ at[i] = at[i - 1] + size[i]
      /\ at[i - 1] <= k /\ k + 1 <= at[i - 1] + size[i]
  BY <1>1
<1>4. ASSUME NEW j \in 1..n, j # i
      PROVE  /\ Taken(k + 1, at[j - 1], size[j]) = Taken(k, at[j - 1], size[j])
             /\ ~(at[j - 1] < k + 1 /\ k + 1 <= at[j])
  <2> DEFINE a == at[j - 1]  l == size[j]  e == at[j]
  <2>1. a \in Nat /\ l \in Nat /\ e = a + l /\ e \in Nat
    BY <1>1
  <2> HIDE DEF a, l, e
  <2>2. CASE j < i
    <3>1. j <= i - 1 /\ j \in 0..n /\ i - 1 \in 0..n
      BY <2>2
    <3>2. e <= at[i - 1]
      BY <1>2, <3>1 DEF e
    <3>3. a + l <= k
      BY <1>3, <2>1, <3>2
    <3>4. Taken(k + 1, a, l) = Taken(k, a, l)
      BY <2>1, <3>3 DEF Taken
    <3>5. ~(a < k + 1 /\ k + 1 <= e)
      BY <2>1, <3>3
    <3> QED
      BY <3>4, <3>5, Zenon DEF a, l, e
  <2>3. CASE i < j
    <3>1. i <= j - 1 /\ i \in 0..n /\ j - 1 \in 0..n
      BY <2>3
    <3>2. at[i] <= a
      BY <1>2, <3>1 DEF a
    <3>3. k + 1 <= a
      BY <1>3, <2>1, <3>2
    <3>4. Taken(k + 1, a, l) = Taken(k, a, l)
      BY <2>1, <3>3 DEF Taken
    <3>5. ~(a < k + 1 /\ k + 1 <= e)
      BY <2>1, <3>3
    <3> QED
      BY <3>4, <3>5, Zenon DEF a, l, e
  <2> QED
    BY <1>4, <2>2, <2>3
<1>5. /\ Taken(k + 1, at[i - 1], size[i]) = (k + 1) - at[i - 1]
      /\ Taken(k, at[i - 1], size[i]) = k - at[i - 1]
      /\ (k + 1) - at[i - 1] \in 1..size[i]
  <2> DEFINE a == at[i - 1]  l == size[i]
  <2>1. a \in Nat /\ l \in Nat /\ a <= k /\ k + 1 <= a + l
    BY <1>3
  <2> HIDE DEF a, l
  <2>2. Taken(k + 1, a, l) = (k + 1) - a
    BY <2>1 DEF Taken
  <2>3. Taken(k, a, l) = k - a
    BY <2>1 DEF Taken
  <2>4. (k + 1) - a \in 1..l
    BY <2>1
  <2> QED
    BY <2>2, <2>3, <2>4 DEF a, l
<1> QED
  BY <1>4, <1>5, Zenon DEF OneMore

LinesRead(order, o, at, k, i) == Taken(k, at[i - 1], Len(Pieces(order, o)[i]))

\* What the first k lines of the file leave.
SoFar(x, k, order, o, at, D) ==
  /\ x \in ReadStates(D)
  /\ x.sort = IF k > 0 /\ o.sort \in Fields THEN o.sort ELSE CpuPercent
  /\ x.fields \subseteq o.fields
  /\ \A i \in 1..Cardinality(o.fields) : i < k => Ascending(o.fields)[i] \in x.fields
  /\ k > 1 /\ o.fields # {} => x.told = TRUE
  /\ x.told = TRUE => k > 1 /\ x.fields # {}
  /\ x.told = FALSE => x.fields = {}
  /\ \A i \in 1..Len(order) : order[i] \in D =>
       IsPart(x.gpus[order[i]], o.gpus[order[i]], LinesRead(order, o, at, k, i))
  /\ \A d \in D \ ToSet(order) : x.gpus[d].monitor = TRUE /\ x.gpus[d].told = FALSE
  /\ \A i \in 1..Len(order) : at[i - 1] < k /\ k <= at[i] => x.selected = {order[i]} \cap D

IsSaved(order, o, L, at) ==
  /\ order \in Seq(SavedGpus) /\ o \in SavedOptions(order)
  /\ \A i, j \in 1..Len(order) : i # j => order[i] # order[j]
  /\ IsFile(L, at, order, o)

LEMMA PlacesAre ==
  ASSUME NEW o, NEW order, NEW L, NEW at, IsSaved(order, o, L, at)
  PROVE  /\ Len(order) \in Nat /\ at \in [0..Len(order) -> Nat]
         /\ at[0] = 1 + LineCount(o.fields) /\ LineCount(o.fields) \in Nat \ {0}
         /\ [i \in 1..Len(order) |-> Len(Pieces(order, o)[i])] \in [1..Len(order) -> Nat]
         /\ \A i \in 1..Len(order) :
              /\ order[i] \in SavedGpus /\ o.gpus[order[i]] \in GpuChoices
              /\ Pieces(order, o)[i] = DeviceLines(order[i], o.gpus[order[i]])
              /\ Len(Pieces(order, o)[i]) \in Nat
              /\ at[i] = at[i - 1] + Len(Pieces(order, o)[i])
              /\ at[0] <= at[i - 1]
         /\ \A k \in Nat : at[0] < k /\ k <= at[Len(order)] =>
              \E i \in 1..Len(order) : at[i - 1] < k /\ k <= at[i]
<1> DEFINE n == Len(order)
<1>1. /\ o \in SavedOptions(order) /\ order \in Seq(SavedGpus) /\ Ends(at, order, o)
  BY DEF IsSaved, IsFile
<1>2. n \in Nat /\ \A i \in 1..n : order[i] \in SavedGpus /\ order[i] \in ToSet(order)
  BY <1>1 DEF ToSet
<1>3. o.gpus \in [ToSet(order) -> GpuChoices] /\ o.fields \in SUBSET Fields
  BY <1>1 DEF SavedOptions
<1>4. LineCount(o.fields) \in Nat \ {0}
  <2>1. o.fields \subseteq o.fields \cup {NoField} /\ NoField \in o.fields \cup {NoField}
    OBVIOUS
  <2> QED
    BY <1>3, <2>1, FieldsFinite, SetLines, Zenon
<1>5. ASSUME NEW i \in 1..n
      PROVE  /\ o.gpus[order[i]] \in GpuChoices
             /\ Pieces(order, o)[i] = DeviceLines(order[i], o.gpus[order[i]])
             /\ Len(Pieces(order, o)[i]) \in Nat
  <2>1. o.gpus[order[i]] \in GpuChoices /\ order[i] \in SavedGpus
    BY <1>2, <1>3
  <2>2. Pieces(order, o)[i] = DeviceLines(order[i], o.gpus[order[i]])
    BY Zenon DEF Pieces
  <2>3. DeviceLines(order[i], o.gpus[order[i]]) \in Seq(Line)
    BY <2>1, DeviceLinesAre
  <2> QED
    BY <2>1, <2>2, <2>3, LenProperties
<1> HIDE DEF n
<1>6. at \in [0..n -> Nat] /\ at[0] = 1 + LineCount(o.fields)
      /\ \A i \in 1..n : at[i] = at[i - 1] + Len(Pieces(order, o)[i])
  BY <1>1, Zenon DEF Ends, n
<1>7. ASSUME NEW i \in 1..n
      PROVE  at[i - 1] <= at[i] /\ i - 1 \in 0..n /\ 0 \in 0..n /\ 0 <= i - 1
  <2>1. i - 1 \in 0..n /\ 0 \in 0..n /\ 0 <= i - 1
    BY <1>2
  <2>2. at[i - 1] \in Nat /\ at[i] = at[i - 1] + Len(Pieces(order, o)[i])
    BY <1>6, <2>1
  <2> QED
    BY <1>5, <2>1, <2>2
<1>8. /\ \A i, j \in 0..n : i <= j => at[i] <= at[j]
      /\ \A k \in Nat : at[0] < k /\ k <= at[n] => \E i \in 1..n : at[i - 1] < k /\ k <= at[i]
  BY <1>2, <1>6, <1>7, Grows
<1>9. \A i \in 1..n : at[0] <= at[i - 1]
  BY <1>7, <1>8
<1> QED
  BY <1>2, <1>4, <1>5, <1>6, <1>8, <1>9 DEF n

\* The line of the order, or a field.
LEMMA HeadStep ==
  ASSUME NEW o, NEW order, NEW L, NEW at, IsSaved(order, o, L, at),
         NEW D \in SUBSET SavedGpus, NEW k \in Nat, k < at[0],
         NEW x, SoFar(x, k, order, o, at, D)
  PROVE  SoFar(Read(x, L[k + 1]), k + 1, order, o, at, D)
<1> DEFINE y == Read(x, L[k + 1])  n == Len(order)
<1>1. /\ n \in Nat /\ at \in [0..n -> Nat]
      /\ at[0] = 1 + LineCount(o.fields) /\ LineCount(o.fields) \in Nat \ {0}
      /\ \A i \in 1..n : Len(Pieces(order, o)[i]) \in Nat /\ at[0] <= at[i - 1] /\ at[i - 1] \in Nat
  <2>1. /\ n \in Nat /\ at \in [0..n -> Nat]
        /\ at[0] = 1 + LineCount(o.fields) /\ LineCount(o.fields) \in Nat \ {0}
        /\ \A i \in 1..n : Len(Pieces(order, o)[i]) \in Nat /\ at[0] <= at[i - 1]
    BY PlacesAre
  <2>2. \A i \in 1..n : i - 1 \in 0..n
    BY <2>1
  <2> HIDE DEF n
  <2>3. \A i \in 1..n : at[i - 1] \in Nat
    BY <2>1, <2>2
  <2> QED
    BY <2>1, <2>3
<1>2. /\ x.sort \in Fields /\ x.fields \in SUBSET Fields /\ x.told \in BOOLEAN
      /\ x.selected \in SUBSET D /\ x.gpus \in [D -> Choice]
      /\ x = [sort |-> x.sort, fields |-> x.fields, told |-> x.told, selected |-> x.selected,
              gpus |-> x.gpus]
  BY DEF SoFar, ReadStates
<1>3. /\ o.fields \in SUBSET Fields /\ o.sort \in Fields \cup {NoField}
  BY DEF IsSaved, SavedOptions
<1>4. /\ L[1] = <<"SortBy", o.sort>>
      /\ \A i \in 1..LineCount(o.fields) : L[1 + i] = <<"DisplayField", LineValue(o.fields, NoField, i)>>
  BY DEF IsSaved, IsFile
<1> HIDE DEF n
<1>5. \A i \in 1..n : /\ LinesRead(order, o, at, k, i) = 0 /\ LinesRead(order, o, at, k + 1, i) = 0
                      /\ ~(at[i - 1] < k + 1)
  <2> SUFFICES ASSUME NEW i \in 1..n
               PROVE  /\ LinesRead(order, o, at, k, i) = 0 /\ LinesRead(order, o, at, k + 1, i) = 0
                      /\ ~(at[i - 1] < k + 1)
    OBVIOUS
  <2>1. at[0] <= at[i - 1] /\ at[i - 1] \in Nat
    BY <1>1, Zenon
  <2>0. at[0] \in Nat
    <3>1. 0 \in 0..n
      BY <1>1
    <3> QED
      BY <1>1, <3>1
  <2>2. k <= at[i - 1] /\ k + 1 <= at[i - 1] /\ ~(at[i - 1] < k + 1)
    BY <2>0, <2>1
  <2> QED
    BY <2>2 DEF LinesRead, Taken
<1>6. \A i \in 1..n : order[i] \in D => IsPart(x.gpus[order[i]], o.gpus[order[i]], 0)
  BY <1>5 DEF SoFar, n
<1>7. ASSUME y \in ReadStates(D), y.gpus = x.gpus,
             y.sort = IF o.sort \in Fields THEN o.sort ELSE CpuPercent,
             y.fields \subseteq o.fields,
             \A i \in 1..Cardinality(o.fields) : i < k + 1 => Ascending(o.fields)[i] \in y.fields,
             k + 1 > 1 /\ o.fields # {} => y.told = TRUE,
             y.told = TRUE => k + 1 > 1 /\ y.fields # {},
             y.told = FALSE => y.fields = {}
      PROVE  SoFar(y, k + 1, order, o, at, D)
  <2> HIDE DEF y
  <2>1. \A i \in 1..n : order[i] \in D =>
          IsPart(y.gpus[order[i]], o.gpus[order[i]], LinesRead(order, o, at, k + 1, i))
    BY <1>5, <1>6, <1>7
  <2>2. k + 1 > 0
    OBVIOUS
  <2>3. \A d \in D \ ToSet(order) : y.gpus[d].monitor = TRUE /\ y.gpus[d].told = FALSE
    BY <1>7, Zenon DEF SoFar
  <2> QED
    BY <1>5, <1>7, <2>1, <2>2, <2>3, Zenon DEF SoFar, n
<1>8. Cardinality(o.fields) \in Nat
  BY <1>3, FieldsFinite
<1>9. CASE k = 0
  <2>1. L[k + 1] = <<"SortBy", o.sort>>
    BY <1>4, <1>9
  <2>2. y = IF o.sort \in Fields THEN [x EXCEPT !.sort = o.sort] ELSE x
    <3>1. Read(x, <<"SortBy", o.sort>>) = IF o.sort \in Fields THEN [x EXCEPT !.sort = o.sort] ELSE x
      BY ReadKinds, Zenon
    <3> QED
      BY <2>1, <3>1, Zenon
  <2> HIDE DEF y
  <2>3. /\ ~(o.sort \in Fields) => x.sort = CpuPercent
        /\ x.fields \subseteq o.fields /\ x \in ReadStates(D)
        /\ x.told = FALSE /\ x.fields = {}
    <3>1. /\ x.told = TRUE => k > 1
          /\ x.told = FALSE => x.fields = {}
          /\ x.fields \subseteq o.fields /\ x \in ReadStates(D)
          /\ x.sort = IF k > 0 /\ o.sort \in Fields THEN o.sort ELSE CpuPercent
      BY Zenon DEF SoFar
    <3>2. ~(k > 1) /\ ~(k > 0)
      BY <1>9
    <3>3. x.told = FALSE
      BY <1>2, <3>1, <3>2, Zenon
    <3> QED
      BY <3>1, <3>2, <3>3, Zenon
  <2>4. /\ y.sort = IF o.sort \in Fields THEN o.sort ELSE CpuPercent
        /\ y.fields = x.fields /\ y.gpus = x.gpus /\ y \in ReadStates(D) /\ y.told = x.told
    <3>1. CASE o.sort \in Fields
      <4>1. y = [x EXCEPT !.sort = o.sort]
        BY <2>2, <3>1, Zenon
      <4>2. y = [sort |-> o.sort, fields |-> x.fields, told |-> x.told, selected |-> x.selected,
                 gpus |-> x.gpus]
        BY <1>2, <4>1
      <4>3. y \in ReadStates(D)
        BY <1>2, <3>1, <4>2 DEF ReadStates
      <4> QED
        BY <3>1, <4>2, <4>3
    <3>2. CASE o.sort \notin Fields
      <4>1. y = x
        BY <2>2, <3>2, Zenon
      <4> QED
        BY <2>3, <3>2, <4>1
    <3> QED
      BY <3>1, <3>2
  <2>5. \A i \in 1..Cardinality(o.fields) : ~(i < k + 1)
    BY <1>8, <1>9
  <2>6. ~(k + 1 > 1) /\ y.fields \subseteq o.fields
    BY <1>9, <2>3, <2>4
  <2>7. y.told = FALSE /\ y.told # TRUE /\ y.fields = {}
    BY <2>3, <2>4
  <2>8. SoFar(y, k + 1, order, o, at, D)
    BY <1>7, <2>4, <2>5, <2>6, <2>7, Zenon
  <2> QED
    BY <2>8 DEF y
<1>10. CASE k > 0
  <2> DEFINE v == LineValue(o.fields, NoField, k)
  <2>1. k \in 1..LineCount(o.fields) /\ k + 1 = 1 + k /\ k + 1 > 1
    BY <1>1, <1>10
  <2>2. y = IF v \in Fields THEN [x EXCEPT !.fields = x.fields \cup {v}, !.told = TRUE] ELSE x
    <3>1. Read(x, <<"DisplayField", v>>)
            = IF v \in Fields THEN [x EXCEPT !.fields = x.fields \cup {v}, !.told = TRUE] ELSE x
      BY ReadKinds, Zenon
    <3>2. L[k + 1] = <<"DisplayField", v>>
      BY <1>4, <2>1
    <3> QED
      BY <3>1, <3>2, Zenon
  <2>3. /\ x.sort = IF o.sort \in Fields THEN o.sort ELSE CpuPercent
        /\ x.fields \subseteq o.fields
        /\ \A i \in 1..Cardinality(o.fields) : i < k => Ascending(o.fields)[i] \in x.fields
        /\ x \in ReadStates(D)
        /\ x.told = TRUE => x.fields # {}
        /\ x.told = FALSE => x.fields = {}
    BY <1>10 DEF SoFar
  <2>4. CASE o.fields = {}
    <3>1. v \notin Fields
      BY <2>4, FieldsAssumption DEF LineValue
    <3>2. y = x
      BY <2>2, <3>1, Zenon
    <3>3. \A i \in 1..Cardinality(o.fields) : FALSE
      <4>1. Cardinality(o.fields) = 0
        BY <2>4, FS_EmptySet
      <4> QED
        BY <4>1
    <3> HIDE DEF y
    <3>4. SoFar(y, k + 1, order, o, at, D)
      BY <1>7, <2>1, <2>3, <2>4, <3>2, <3>3, Zenon
    <3> QED
      BY <3>4 DEF y
  <2>5. CASE o.fields # {}
    <3>1. v = Ascending(o.fields)[k] /\ k \in 1..Cardinality(o.fields)
      BY <2>1, <2>5 DEF LineCount, LineValue
    <3>2. v \in o.fields /\ v \in Fields
      BY <1>3, <3>1, FieldsFinite, AscendingIs
    <3> HIDE DEF v
    <3>3. y = [x EXCEPT !.fields = x.fields \cup {v}, !.told = TRUE]
      BY <2>2, <3>2, Zenon
    <3> HIDE DEF y
    <3>4. y = [sort |-> x.sort, fields |-> x.fields \cup {v}, told |-> TRUE,
               selected |-> x.selected, gpus |-> x.gpus]
      BY <1>2, <3>3
    <3>5. y \in ReadStates(D)
      BY <1>2, <3>2, <3>4 DEF ReadStates
    <3>6. /\ y.gpus = x.gpus /\ y.sort = x.sort /\ y.fields = x.fields \cup {v} /\ y.told = TRUE
      BY <3>4
    <3>7. \A i \in 1..Cardinality(o.fields) : i < k + 1 => Ascending(o.fields)[i] \in y.fields
      <4> SUFFICES ASSUME NEW i \in 1..Cardinality(o.fields), i < k + 1
                   PROVE  Ascending(o.fields)[i] \in y.fields
        OBVIOUS
      <4>1. i < k \/ i = k
        BY <1>8
      <4> QED
        BY <2>3, <3>1, <3>6, <4>1
    <3>8. y.fields \subseteq o.fields /\ y.fields # {} /\ y.told # FALSE
      BY <2>3, <3>2, <3>6
    <3>9. SoFar(y, k + 1, order, o, at, D)
      BY <1>7, <2>1, <2>3, <3>5, <3>6, <3>7, <3>8, Zenon
    <3> QED
      BY <3>9 DEF y
  <2> QED
    BY <2>4, <2>5
<1> QED
  BY <1>9, <1>10

\* A line of a device.
LEMMA DeviceStep ==
  ASSUME NEW o, NEW order, NEW L, NEW at, IsSaved(order, o, L, at),
         NEW D \in SUBSET SavedGpus, NEW k \in Nat, at[0] <= k, k + 1 <= Len(L),
         NEW x, SoFar(x, k, order, o, at, D)
  PROVE  SoFar(Read(x, L[k + 1]), k + 1, order, o, at, D)
<1> DEFINE y == Read(x, L[k + 1])  n == Len(order)
           size == [j \in 1..n |-> Len(Pieces(order, o)[j])]
<1>1. /\ n \in Nat /\ at \in [0..n -> Nat] /\ size \in [1..n -> Nat]
      /\ at[0] = 1 + LineCount(o.fields) /\ LineCount(o.fields) \in Nat \ {0}
  BY PlacesAre
<1>2. \A j \in 1..n : /\ order[j] \in SavedGpus /\ o.gpus[order[j]] \in GpuChoices
                      /\ Pieces(order, o)[j] = DeviceLines(order[j], o.gpus[order[j]])
                      /\ at[j] = at[j - 1] + Len(Pieces(order, o)[j])
  BY PlacesAre
<1>3. \A j \in 1..n : size[j] = Len(Pieces(order, o)[j])
  OBVIOUS
<1>4. k + 1 <= at[n] /\ k + 1 \in Nat /\ at[0] < k + 1
  <2>1. Len(L) = at[n]
    BY DEF IsSaved, IsFile
  <2>2. 0 \in 0..n
    BY <1>1
  <2>3. at[0] \in Nat
    BY <1>1, <2>2
  <2> QED
    BY <2>1, <2>3
<1>5. PICK i \in 1..n : at[i - 1] < k + 1 /\ k + 1 <= at[i]
  BY <1>4, PlacesAre
<1> HIDE DEF n, size
<1> DEFINE m == (k + 1) - at[i - 1]  g == order[i]  c == o.gpus[g]
<1>6. /\ Taken(k + 1, at[i - 1], size[i]) = m
      /\ Taken(k, at[i - 1], size[i]) = k - at[i - 1]
      /\ m \in 1..size[i]
      /\ \A j \in 1..n : j # i =>
           /\ Taken(k + 1, at[j - 1], size[j]) = Taken(k, at[j - 1], size[j])
           /\ ~(at[j - 1] < k + 1 /\ k + 1 <= at[j])
  <2>1. \A j \in 1..n : at[j] = at[j - 1] + size[j]
    BY <1>2, <1>3
  <2>2. k + 1 <= at[i] /\ at[i - 1] < k + 1 /\ i \in 1..n
    BY <1>5
  <2> HIDE DEF m
  <2>3. OneMore(k, n, at, size, i)
    BY <1>1, <2>1, <2>2, TakenIs
  <2> QED
    BY <2>3, Zenon DEF OneMore, m
<1>7. at[i - 1] \in Nat /\ at[i] \in Nat /\ k - at[i - 1] = m - 1 /\ at[i - 1] + m = k + 1
  <2>1. i - 1 \in 0..n /\ i \in 0..n
    BY <1>1
  <2>2. at[i - 1] \in Nat /\ at[i] \in Nat
    BY <1>1, <2>1
  <2> QED
    BY <2>2
<1>8. g \in SavedGpus /\ c \in GpuChoices /\ Pieces(order, o)[i] = DeviceLines(g, c)
      /\ size[i] = Len(DeviceLines(g, c))
  BY <1>2, <1>3
<1>9. L[k + 1] = DeviceLines(g, c)[m]
  <2>1. m \in 1..Len(Pieces(order, o)[i])
    BY <1>3, <1>6
  <2>2. L[at[i - 1] + m] = Pieces(order, o)[i][m]
    BY <2>1 DEF IsSaved, IsFile, n
  <2> QED
    BY <1>7, <1>8, <2>2
<1>10. /\ x \in ReadStates(D)
       /\ x.sort = IF k > 0 /\ o.sort \in Fields THEN o.sort ELSE CpuPercent
       /\ x.fields \subseteq o.fields
       /\ \A j \in 1..Cardinality(o.fields) : j < k => Ascending(o.fields)[j] \in x.fields
       /\ k > 1 /\ o.fields # {} => x.told = TRUE
       /\ x.told = TRUE => x.fields # {}
       /\ x.told = FALSE => x.fields = {}
       /\ \A d \in D \ ToSet(order) : x.gpus[d].monitor = TRUE /\ x.gpus[d].told = FALSE
  BY Zenon DEF SoFar
<1>11. /\ \A j \in 1..n : order[j] \in D =>
            IsPart(x.gpus[order[j]], o.gpus[order[j]], Taken(k, at[j - 1], size[j]))
       /\ \A j \in 1..n : at[j - 1] < k /\ k <= at[j] => x.selected = {order[j]} \cap D
  <2>1. \A j \in 1..n : order[j] \in D =>
            IsPart(x.gpus[order[j]], o.gpus[order[j]], LinesRead(order, o, at, k, j))
    BY Zenon DEF SoFar, n
  <2>2. \A j \in 1..n : LinesRead(order, o, at, k, j) = Taken(k, at[j - 1], size[j])
    BY <1>3 DEF LinesRead
  <2>3. \A j \in 1..n : at[j - 1] < k /\ k <= at[j] => x.selected = {order[j]} \cap D
    BY Zenon DEF SoFar, n
  <2> QED
    BY <2>1, <2>2, <2>3
<1>12. m > 1 => x.selected = {g} \cap D
  <2> SUFFICES ASSUME m > 1
               PROVE  x.selected = {g} \cap D
    OBVIOUS
  <2>1. at[i - 1] < k /\ k <= at[i]
    BY <1>5, <1>7
  <2> QED
    BY <1>11, <2>1
<1>13. g \in D => IsPart(x.gpus[g], c, m - 1)
  BY <1>6, <1>7, <1>11
<1>14. \A j \in 1..n : j # i => order[j] # g
  BY DEF IsSaved, n
<1>15. g \in ToSet(order)
  BY DEF n, IsSaved, ToSet
<1> HIDE DEF m, g, c
<1>16. DeviceRead(y, x, D, g, c, m)
  <2>1. m \in 1..Len(DeviceLines(g, c))
    BY <1>6, <1>8
  <2>2. DeviceRead(Read(x, DeviceLines(g, c)[m]), x, D, g, c, m)
    BY <1>8, <1>10, <1>12, <1>13, <2>1, DeviceReadIs
  <2> QED
    BY <1>9, <2>2
<1> HIDE DEF y
<1>17. /\ y \in ReadStates(D) /\ y.sort = x.sort /\ y.fields = x.fields /\ y.told = x.told
       /\ y.selected = {g} \cap D
       /\ \A d \in D : d # g => y.gpus[d] = x.gpus[d]
       /\ g \in D => IsPart(y.gpus[g], c, m)
  BY <1>16, Zenon DEF DeviceRead, SameHead
<1>18. k > 1 /\ k + 1 > 1 /\ k > 0 /\ k + 1 > 0
       /\ \A j \in 1..Cardinality(o.fields) : j < k
  <2>1. at[0] >= 2 /\ at[0] \in Nat
    BY <1>1
  <2>2. k >= 2
    BY <2>1
  <2>3. ASSUME NEW j \in 1..Cardinality(o.fields)
        PROVE  j < k
    <3>1. o.fields \in SUBSET Fields
      BY DEF IsSaved, SavedOptions
    <3>2. Cardinality(o.fields) \in Nat
      BY <3>1, FieldsFinite
    <3>3. Cardinality(o.fields) <= LineCount(o.fields)
      <4>1. o.fields = {} => Cardinality(o.fields) = 0
        BY FS_EmptySet
      <4> QED
        BY <3>2, <4>1 DEF LineCount
    <3> QED
      BY <1>1, <2>1, <3>2, <3>3
  <2> QED
    BY <2>2, <2>3
<1>19. /\ y.sort = IF k + 1 > 0 /\ o.sort \in Fields THEN o.sort ELSE CpuPercent
       /\ y.fields \subseteq o.fields
       /\ \A j \in 1..Cardinality(o.fields) : j < k + 1 => Ascending(o.fields)[j] \in y.fields
       /\ k + 1 > 1 /\ o.fields # {} => y.told = TRUE
       /\ y.told = TRUE => k + 1 > 1 /\ y.fields # {}
       /\ y.told = FALSE => y.fields = {}
  BY <1>10, <1>17, <1>18, Zenon
<1>20. \A j \in 1..n : order[j] \in D =>
         IsPart(y.gpus[order[j]], o.gpus[order[j]], LinesRead(order, o, at, k + 1, j))
  <2> SUFFICES ASSUME NEW j \in 1..n, order[j] \in D
               PROVE  IsPart(y.gpus[order[j]], o.gpus[order[j]], LinesRead(order, o, at, k + 1, j))
    OBVIOUS
  <2>1. LinesRead(order, o, at, k + 1, j) = Taken(k + 1, at[j - 1], size[j])
    BY <1>3 DEF LinesRead
  <2>2. CASE j = i
    BY <1>6, <1>17, <2>1, <2>2, Zenon DEF g, c
  <2>3. CASE j # i
    <3>1. y.gpus[order[j]] = x.gpus[order[j]]
      BY <1>14, <1>17, <2>3, Zenon
    <3>2. Taken(k + 1, at[j - 1], size[j]) = Taken(k, at[j - 1], size[j])
      BY <1>6, <2>3, Zenon
    <3>3. IsPart(x.gpus[order[j]], o.gpus[order[j]], Taken(k, at[j - 1], size[j]))
      BY <1>11, Zenon
    <3> QED
      BY <2>1, <3>1, <3>2, <3>3, Zenon
  <2> QED
    BY <2>2, <2>3
<1>21. \A j \in 1..n : at[j - 1] < k + 1 /\ k + 1 <= at[j] => y.selected = {order[j]} \cap D
  BY <1>6, <1>17, Zenon DEF g
<1>22. \A d \in D \ ToSet(order) : y.gpus[d].monitor = TRUE /\ y.gpus[d].told = FALSE
  BY <1>10, <1>15, <1>17, Zenon
<1>23. SoFar(y, k + 1, order, o, at, D)
  BY <1>17, <1>19, <1>20, <1>21, <1>22, Zenon DEF SoFar, n
<1> QED
  BY <1>23 DEF y

\* Nothing has been read.
LEMMA FirstIs ==
  ASSUME NEW o, NEW order, NEW L, NEW at, IsSaved(order, o, L, at),
         NEW now \in Seq(SavedGpus)
  PROVE  SoFar(Unread(now), 0, order, o, at, ToSet(now))
<1> DEFINE D == ToSet(now)  x == Unread(now)  none == [draw |-> {}, told |-> FALSE, monitor |-> TRUE]
<1>1. /\ x = [sort |-> CpuPercent, fields |-> {}, told |-> FALSE, selected |-> {},
              gpus |-> [d \in D |-> none]]
  BY DEF Unread
<1>2. none \in Choice /\ CpuPercent \in Fields
  BY DefaultsAssumption DEF Choice
<1> HIDE DEF x, D
<1>3. /\ x \in ReadStates(D) /\ x.sort = CpuPercent /\ x.fields = {}
      /\ x.told = FALSE /\ x.told # TRUE /\ \A d \in D : x.gpus[d] = none
  BY <1>1, <1>2 DEF ReadStates
<1>4. \A i \in 1..Len(order) : at[i - 1] \in Nat /\ Cardinality(o.gpus[order[i]].draw) \in Nat
  <2>1. \A i \in 1..Len(order) : i - 1 \in 0..Len(order) /\ o.gpus[order[i]] \in GpuChoices
    BY PlacesAre
  <2>2. at \in [0..Len(order) -> Nat]
    BY PlacesAre
  <2>3. \A i \in 1..Len(order) : at[i - 1] \in Nat
    BY <2>1, <2>2
  <2> QED
    BY <2>1, <2>3, DrawIsFinite
<1>5. ASSUME NEW i \in 1..Len(order), order[i] \in D
      PROVE  IsPart(x.gpus[order[i]], o.gpus[order[i]], LinesRead(order, o, at, 0, i))
  <2> DEFINE c == o.gpus[order[i]]
  <2>1. LinesRead(order, o, at, 0, i) = 0
    BY <1>4 DEF LinesRead, Taken
  <2>2. \A j \in 1..Cardinality(c.draw) : ~(j <= 0 - 2)
    BY <1>4
  <2>3. IsPart(none, c, 0)
    BY <2>2 DEF IsPart
  <2> QED
    BY <1>3, <1>5, <2>1, <2>3, Zenon
<1>6. \A i \in 1..Len(order) : ~(at[i - 1] < 0)
  BY <1>4
<1>7. \A j \in 1..Cardinality(o.fields) : ~(j < 0)
  <2>1. o.fields \in SUBSET Fields
    BY DEF IsSaved, SavedOptions
  <2>2. Cardinality(o.fields) \in Nat
    BY <2>1, FieldsFinite
  <2> QED
    BY <2>2
<1>8. \A d \in D : x.gpus[d].monitor = TRUE /\ x.gpus[d].told = FALSE
  BY <1>3
<1>9. ~(0 > 0) /\ ~(0 > 1)
  OBVIOUS
<1>10. x.fields \subseteq o.fields
  BY <1>3
<1>11. SoFar(x, 0, order, o, at, D)
  BY <1>3, <1>5, <1>6, <1>7, <1>8, <1>9, <1>10, Zenon DEF SoFar
<1> QED
  BY <1>11 DEF x, D

\* The loop over the lines, wherever the file ends.
LEMMA ReadIs ==
  ASSUME NEW o, NEW order, NEW L, NEW at, IsSaved(order, o, L, at),
         NEW now \in Seq(SavedGpus), NEW k \in 0..Len(L)
  PROVE  SoFar(FoldLeft(Read, Unread(now), SubSeq(L, 1, k)), k, order, o, at, ToSet(now))
<1> DEFINE n == Len(L)  D == ToSet(now)  start == Unread(now)
<1>1. L \in Seq(Line) /\ n \in Nat
  <2>1. L \in Seq(Line)
    BY DEF IsSaved, IsFile
  <2> QED
    BY <2>1, LenProperties
<1>2. D \in SUBSET SavedGpus
  BY DEF ToSet
<1>3. SoFar(start, 0, order, o, at, D)
  BY FirstIs
<1> HIDE DEF start, D, n
<1>4. PICK f : /\ f[0] = start
               /\ \A j \in 1..n : f[j] = Read(f[j - 1], L[j])
               /\ \A j \in 0..n : f[j] = ReadLoop!Fold(start, SubSeq(L, 1, j))
  BY <1>1, ReadLoop!Prefixes DEF n
<1> DEFINE T == {j \in Nat : j <= n => SoFar(f[j], j, order, o, at, D)}
<1>5. 0 \in T
  BY <1>3, <1>4
<1>6. ASSUME NEW j \in T
      PROVE  j + 1 \in T
  <2>1. j \in Nat /\ j + 1 \in Nat /\ (j + 1) - 1 = j
    OBVIOUS
  <2>2. CASE j + 1 <= n
    <3>1. j + 1 \in 1..n /\ j <= n
      BY <1>1, <2>1, <2>2
    <3>2. SoFar(f[j], j, order, o, at, D)
      BY <3>1
    <3>3. f[j + 1] = Read(f[j], L[j + 1])
      BY <1>4, <2>1, <3>1
    <3>4. at[0] \in Nat
      <4>1. at \in [0..Len(order) -> Nat] /\ Len(order) \in Nat
        BY PlacesAre
      <4>2. 0 \in 0..Len(order)
        BY <4>1
      <4> QED
        BY <4>1, <4>2
    <3>5. CASE j < at[0]
      BY <1>2, <2>1, <3>2, <3>3, <3>5, HeadStep
    <3>6. CASE at[0] <= j
      <4>1. SoFar(Read(f[j], L[j + 1]), j + 1, order, o, at, D)
        BY <1>2, <2>1, <2>2, <3>2, <3>6, DeviceStep DEF n
      <4> QED
        BY <3>3, <4>1
    <3> QED
      BY <2>1, <3>4, <3>5, <3>6
  <2> QED
    BY <2>1, <2>2
<1>7. T = Nat
  <2>1. T \subseteq Nat
    OBVIOUS
  <2> HIDE DEF T
  <2> QED
    BY <1>5, <1>6, <2>1, Ind!Induction
<1>8. k \in 0..n /\ k \in Nat /\ k <= n
  BY <1>1 DEF n
<1>9. SoFar(f[k], k, order, o, at, D)
  <2>1. k \in T
    BY <1>7, <1>8, Zenon
  <2> QED
    BY <1>8, <2>1
<1>10. f[k] = FoldLeft(Read, start, SubSeq(L, 1, k))
  <2>1. f[k] = ReadLoop!Fold(start, SubSeq(L, 1, k))
    BY <1>4, <1>8
  <2>2. FoldLeft(Read, start, SubSeq(L, 1, k)) = ReadLoop!Fold(start, SubSeq(L, 1, k))
    BY Zenon DEF FoldLeft, MapThenFoldSet, Max, ReadLoop!Fold
  <2> QED
    BY <2>1, <2>2
<1> QED
  BY <1>9, <1>10, Zenon DEF start, D

\* The devices of a start, each of them once.
IsOrder(s) ==
  /\ s \in Seq(SavedGpus) /\ Len(s) > 0
  /\ \A i, j \in 1..Len(s) : i # j => s[i] # s[j]

\* Options that may be saved with these devices.
Savable(o, order) == o \in SavedOptions(order) /\ SortIsShown(o.sort, o.fields)

\* DeviceComesBack, ColumnsComeBack and RestartKeepsOptions of what was read.
DeviceKept(read, now, g, choice, before, complete) ==
  /\ \/ choice.draw \subseteq before.draw /\ (choice.draw = {} => before.draw = {})
     \/ ~complete /\ choice.draw = DefaultDraw
  /\ before.monitor => choice.monitor
  /\ complete => /\ choice.draw = before.draw
                 /\ choice.monitor # before.monitor =>
                      g = Head(now) /\ \A d \in ToSet(now) \ {g} : ~read.gpus[d].monitor

ColumnsKept(read, before, complete) ==
  \/ /\ read.fields # {} /\ read.fields \subseteq before.fields
     /\ complete => read.fields = before.fields
     /\ read.sort = IF before.sort \in read.fields THEN before.sort ELSE DefaultSort(read.fields)
  \/ /\ ~complete \/ before.fields = {}
     /\ read.fields = DefaultFields /\ read.sort = NoField

Kept(read, now, gpus, before, complete) ==
  LET known == gpus \cap ToSet(now) IN
  /\ \A g \in known : DeviceKept(read, now, g, read.gpus[g], before.gpus[g], complete)
  /\ \A g \in ToSet(now) \ known : read.gpus[g] = [draw |-> DefaultDraw, monitor |-> TRUE]
  /\ \E g \in ToSet(now) : read.gpus[g].monitor
  /\ ColumnsKept(read, before, complete)

\* The lines of a device in a file that goes on to its end.
LEMMA WholePart ==
  ASSUME NEW c \in GpuChoices, NEW choice \in Choice, IsPart(choice, c, 2 + LineCount(c.draw))
  PROVE  choice.draw = c.draw /\ choice.told = TRUE /\ choice.monitor = c.monitor
<1> DEFINE n == Cardinality(c.draw)  m == LineCount(c.draw)
<1>1. /\ c.draw \in SUBSET Nat /\ IsFiniteSet(c.draw) /\ n \in Nat
  BY DrawIsFinite
<1>2. m \in Nat \ {0}
  <2>1. NoMetric \in c.draw \cup {NoMetric} /\ c.draw \subseteq c.draw \cup {NoMetric}
    OBVIOUS
  <2> QED
    BY <1>1, <2>1, SetLines, Zenon
<1>3. c.draw # {} => n <= m
  BY <1>1 DEF LineCount
<1> HIDE DEF m, n
<1>4. /\ 2 + m > 2 /\ 2 + m >= 2 /\ (2 + m) - 2 = m
  BY <1>2
<1>5. /\ choice.draw \subseteq c.draw /\ choice.told = TRUE /\ choice.monitor = c.monitor
      /\ \A j \in 1..n : Ascending(c.draw)[j] \in choice.draw <=> j <= m
  BY <1>4, Zenon DEF IsPart, m, n
<1>6. c.draw \subseteq choice.draw
  <2> SUFFICES ASSUME NEW v \in c.draw
               PROVE  v \in choice.draw
    OBVIOUS
  <2>1. PICK j \in 1..n : Ascending(c.draw)[j] = v
    BY <1>1, AscendingIs DEF n
  <2>2. j <= m
    BY <1>1, <1>2, <1>3
  <2> QED
    BY <1>5, <2>1, <2>2, Zenon
<1> QED
  BY <1>5, <1>6, Zenon

\* A start takes what was told, and defaults elsewhere.
LEMMA LoadedIs ==
  ASSUME NEW order, IsOrder(order), NEW o, Savable(o, order),
         NEW now, IsOrder(now), NEW k \in 0..Len(Lines(order, o))
  PROVE  Kept(Loaded(SubSeq(Lines(order, o), 1, k), now), now, ToSet(order), o, k = Len(Lines(order, o)))
<1> DEFINE L == Lines(order, o)
           D == ToSet(now)
           x == FoldLeft(Read, Unread(now), SubSeq(L, 1, k))
           y == Loaded(SubSeq(L, 1, k), now)
           n == Len(order)
           complete == k = Len(L)
           known == ToSet(order) \cap D
           watched == {g \in D : x.gpus[g].monitor}
<1>1. /\ order \in Seq(SavedGpus) /\ o \in SavedOptions(order) /\ SortIsShown(o.sort, o.fields)
      /\ now \in Seq(SavedGpus) /\ Len(now) > 0
  BY DEF IsOrder, Savable
<1>0. Head(now) \in D
  <2>1. 1 \in DOMAIN now /\ Head(now) = now[1]
    BY <1>1
  <2> QED
    BY <2>1 DEF ToSet
<1>2. PICK at : IsFile(L, at, order, o)
  BY <1>1, LinesAre
<1>3. IsSaved(order, o, L, at)
  BY <1>1, <1>2, Zenon DEF IsSaved, IsOrder
<1>4. SoFar(x, k, order, o, at, D)
  BY <1>1, <1>3, ReadIs
<1>5. /\ o.fields \in SUBSET Fields /\ o.fields \in SUBSET Nat /\ IsFiniteSet(o.fields)
      /\ Cardinality(o.fields) \in Nat /\ o.sort \in Fields \cup {NoField}
  BY <1>1, FieldsFinite DEF SavedOptions
<1>6. /\ n \in Nat /\ at \in [0..n -> Nat] /\ at[0] = 1 + LineCount(o.fields)
      /\ LineCount(o.fields) \in Nat \ {0} /\ Len(L) = at[n]
  <2>1. /\ n \in Nat /\ at \in [0..n -> Nat] /\ at[0] = 1 + LineCount(o.fields)
        /\ LineCount(o.fields) \in Nat \ {0}
    BY <1>3, PlacesAre
  <2>2. Len(L) = at[n]
    BY <1>2, Zenon DEF IsFile
  <2> QED
    BY <2>1, <2>2, Zenon
<1>7. \A i \in 1..n : /\ o.gpus[order[i]] \in GpuChoices
                      /\ Pieces(order, o)[i] = DeviceLines(order[i], o.gpus[order[i]])
                      /\ Len(Pieces(order, o)[i]) \in Nat
                      /\ at[i] = at[i - 1] + Len(Pieces(order, o)[i])
  BY <1>3, PlacesAre
<1>8. y = Finished(x, now)
  BY Zenon DEF Loaded
<1> HIDE DEF L, x, y, D, n
<1>9. /\ x.fields \in SUBSET Fields /\ x.told \in BOOLEAN /\ DOMAIN x.gpus = D
      /\ \A g \in D : x.gpus[g] \in Choice
  BY <1>4 DEF SoFar, ReadStates
<1>10. /\ x.sort = IF k > 0 /\ o.sort \in Fields THEN o.sort ELSE CpuPercent
       /\ x.fields \subseteq o.fields
       /\ \A j \in 1..Cardinality(o.fields) : j < k => Ascending(o.fields)[j] \in x.fields
       /\ k > 1 /\ o.fields # {} => x.told = TRUE
       /\ x.told = TRUE => k > 1 /\ x.fields # {}
       /\ x.told = FALSE => x.fields = {}
       /\ \A i \in 1..n : order[i] \in D =>
            IsPart(x.gpus[order[i]], o.gpus[order[i]], LinesRead(order, o, at, k, i))
       /\ \A d \in D \ ToSet(order) : x.gpus[d].monitor = TRUE /\ x.gpus[d].told = FALSE
  BY <1>4, Zenon DEF SoFar, n
<1>11. /\ y.sort = IF x.sort \in x.fields THEN x.sort ELSE DefaultSort(x.fields)
       /\ y.fields = IF x.told THEN x.fields ELSE DefaultFields
       /\ \A g \in D : y.gpus[g] =
            [draw |-> IF x.gpus[g].told THEN x.gpus[g].draw ELSE DefaultDraw,
             monitor |-> (x.gpus[g].monitor \/ (watched = {} /\ g = Head(now)))]
  BY <1>8, <1>9 DEF Finished
<1>20. \A g \in D :
         /\ y.gpus[g].draw = IF x.gpus[g].told THEN x.gpus[g].draw ELSE DefaultDraw
         /\ y.gpus[g].monitor = (x.gpus[g].monitor \/ (watched = {} /\ g = Head(now)))
  <2> SUFFICES ASSUME NEW g \in D
               PROVE  /\ y.gpus[g].draw = IF x.gpus[g].told THEN x.gpus[g].draw ELSE DefaultDraw
                      /\ y.gpus[g].monitor = (x.gpus[g].monitor \/ (watched = {} /\ g = Head(now)))
    OBVIOUS
  <2> DEFINE w == (x.gpus[g].monitor \/ (watched = {} /\ g = Head(now)))
             d == IF x.gpus[g].told THEN x.gpus[g].draw ELSE DefaultDraw
  <2>1. y.gpus[g] = [draw |-> d, monitor |-> w]
    BY <1>11, Zenon
  <2> HIDE DEF w, d, watched
  <2>2. y.gpus[g].draw = d /\ y.gpus[g].monitor = w
    BY <2>1
  <2> QED
    BY <2>2, Zenon DEF w, d
<1>12. ASSUME NEW g \in known
       PROVE  /\ x.gpus[g].draw \subseteq o.gpus[g].draw
              /\ x.gpus[g].told = TRUE /\ o.gpus[g].draw # {} => x.gpus[g].draw # {}
              /\ o.gpus[g].monitor = TRUE => x.gpus[g].monitor = TRUE
              /\ x.gpus[g].told \in BOOLEAN /\ x.gpus[g].monitor \in BOOLEAN
              /\ o.gpus[g].monitor \in BOOLEAN
              /\ complete => /\ x.gpus[g].draw = o.gpus[g].draw /\ x.gpus[g].told = TRUE
                             /\ x.gpus[g].monitor = o.gpus[g].monitor
  <2>1. g \in D
    OBVIOUS
  <2>2. PICK i \in 1..n : order[i] = g
    BY <1>1 DEF ToSet, n
  <2>3. IsPart(x.gpus[g], o.gpus[g], LinesRead(order, o, at, k, i))
    BY <1>10, <2>1, <2>2
  <2>4. x.gpus[g] \in Choice /\ o.gpus[g] \in GpuChoices
    BY <1>7, <1>9, <2>1, <2>2
  <2>5. complete => LinesRead(order, o, at, k, i) = 2 + LineCount(o.gpus[g].draw)
    <3> SUFFICES ASSUME complete
                 PROVE  LinesRead(order, o, at, k, i) = 2 + LineCount(o.gpus[g].draw)
      OBVIOUS
    <3> DEFINE a == at[i - 1]  l == Len(Pieces(order, o)[i])
    <3>1. l = 2 + LineCount(o.gpus[g].draw)
      <4>1. g \in SavedGpus
        BY <1>1, <2>2 DEF n
      <4>2. Len(DeviceLines(g, o.gpus[g])) = 2 + LineCount(o.gpus[g].draw)
        BY <2>4, <4>1, DeviceLinesAre
      <4> QED
        BY <1>7, <2>2, <4>2
    <3>2. i - 1 \in 0..n /\ i \in 0..n /\ n \in 0..n /\ i <= n
      BY <1>6
    <3>3. a \in Nat /\ at[i] \in Nat /\ l \in Nat /\ at[i] = a + l /\ at[n] \in Nat
      BY <1>6, <1>7, <3>2
    <3>4. at[i] <= at[n]
      <4>1. ASSUME NEW j \in 1..n
            PROVE  at[j - 1] <= at[j]
        <5>1. at[j] = at[j - 1] + Len(Pieces(order, o)[j]) /\ Len(Pieces(order, o)[j]) \in Nat
          BY <1>7
        <5>2. j - 1 \in 0..n /\ at[j - 1] \in Nat
          BY <1>6
        <5> QED
          BY <5>1, <5>2
      <4>2. \A j, m \in 0..n : j <= m => at[j] <= at[m]
        BY <1>6, <4>1, Grows
      <4> QED
        BY <3>2, <4>2
    <3>5. k = at[n]
      BY <1>6
    <3> HIDE DEF a, l
    <3>6. Taken(k, a, l) = l
      BY <3>3, <3>4, <3>5 DEF Taken
    <3>7. LinesRead(order, o, at, k, i) = Taken(k, a, l)
      BY Zenon DEF LinesRead, a, l
    <3> QED
      BY <3>1, <3>6, <3>7
  <2>6. complete => IsPart(x.gpus[g], o.gpus[g], 2 + LineCount(o.gpus[g].draw))
    BY <2>3, <2>5
  <2>7. /\ x.gpus[g].draw \subseteq o.gpus[g].draw
        /\ x.gpus[g].told = TRUE /\ o.gpus[g].draw # {} => x.gpus[g].draw # {}
        /\ o.gpus[g].monitor = TRUE => x.gpus[g].monitor = TRUE
    BY <2>3, Zenon DEF IsPart
  <2>8. x.gpus[g].told \in BOOLEAN /\ x.gpus[g].monitor \in BOOLEAN /\ o.gpus[g].monitor \in BOOLEAN
    BY <2>4, DrawIsFinite DEF Choice
  <2> QED
    BY <2>4, <2>6, <2>7, <2>8, WholePart, Zenon
<1>13. ASSUME NEW g \in known
       PROVE  DeviceKept(y, now, g, y.gpus[g], o.gpus[g], complete)
  <2> DEFINE c == o.gpus[g]  u == x.gpus[g]  v == y.gpus[g]
  <2>1. g \in D
    OBVIOUS
  <2>2. /\ v.draw = IF u.told THEN u.draw ELSE DefaultDraw
        /\ v.monitor = (u.monitor \/ (watched = {} /\ g = Head(now)))
        /\ v.monitor \in BOOLEAN
    BY <1>20, <2>1, Zenon
  <2>3. /\ u.draw \subseteq c.draw
        /\ u.told = TRUE /\ c.draw # {} => u.draw # {}
        /\ c.monitor = TRUE => u.monitor = TRUE
        /\ u.told \in BOOLEAN /\ u.monitor \in BOOLEAN /\ c.monitor \in BOOLEAN
        /\ complete => u.draw = c.draw /\ u.told = TRUE /\ u.monitor = c.monitor
    BY <1>12
  <2>4. watched = {} => \A d \in D \ {Head(now)} : ~y.gpus[d].monitor
    <3> SUFFICES ASSUME watched = {}, NEW d \in D \ {Head(now)}
                 PROVE  ~y.gpus[d].monitor
      OBVIOUS
    <3>1. ~x.gpus[d].monitor
      OBVIOUS
    <3> HIDE DEF watched
    <3>2. y.gpus[d].monitor = (x.gpus[d].monitor \/ (watched = {} /\ d = Head(now)))
      BY <1>20, Zenon
    <3> QED
      BY <3>1, <3>2, Zenon
  <2> HIDE DEF watched, complete, known, u, v, c
  <2>5. \/ v.draw \subseteq c.draw /\ (v.draw = {} => c.draw = {})
        \/ ~complete /\ v.draw = DefaultDraw
    <3>1. CASE u.told = TRUE
      BY <2>2, <2>3, <3>1, Zenon
    <3>2. CASE u.told = FALSE
      BY <2>2, <2>3, <3>2, Zenon
    <3> QED
      BY <2>3, <3>1, <3>2, Zenon
  <2>6. c.monitor => v.monitor
    BY <2>2, <2>3, Zenon
  <2>7. ASSUME complete
        PROVE  /\ v.draw = c.draw
               /\ v.monitor # c.monitor => watched = {} /\ g = Head(now)
    <3>1. v.draw = c.draw
      BY <2>2, <2>3, <2>7, Zenon
    <3>2. CASE watched = {} /\ g = Head(now)
      BY <3>1, <3>2, Zenon
    <3>3. CASE ~(watched = {} /\ g = Head(now))
      <4>1. v.monitor = u.monitor
        BY <2>2, <2>3, <3>3, Zenon
      <4> QED
        BY <2>3, <2>7, <3>1, <4>1, Zenon
    <3> QED
      BY <3>2, <3>3, Zenon
  <2>8. complete => /\ v.draw = c.draw
                    /\ v.monitor # c.monitor =>
                         g = Head(now) /\ \A d \in D \ {g} : ~y.gpus[d].monitor
    BY <2>4, <2>7, Zenon
  <2>9. DeviceKept(y, now, g, v, c, complete)
    BY <2>5, <2>6, <2>8, Zenon DEF DeviceKept, D
  <2> QED
    BY <2>9 DEF v, c
<1>14. ASSUME NEW g \in D \ known
       PROVE  y.gpus[g] = [draw |-> DefaultDraw, monitor |-> TRUE]
  <2>1. g \in D \ ToSet(order) /\ g \in D
    OBVIOUS
  <2>2. x.gpus[g].told = FALSE /\ x.gpus[g].monitor = TRUE
    BY <1>10, <2>1, Zenon
  <2> DEFINE w == (x.gpus[g].monitor \/ (watched = {} /\ g = Head(now)))
             d == IF x.gpus[g].told THEN x.gpus[g].draw ELSE DefaultDraw
  <2>3. w = TRUE /\ d = DefaultDraw
    BY <2>2, Zenon
  <2>4. y.gpus[g] = [draw |-> d, monitor |-> w]
    BY <1>11, <2>1, Zenon
  <2> HIDE DEF w, d
  <2> QED
    BY <2>3, <2>4, Zenon
<1>18. \E g \in D : y.gpus[g].monitor
  <2>1. CASE watched = {}
    <3>1. y.gpus[Head(now)].monitor
      BY <1>0, <1>20, <2>1, Zenon
    <3> QED
      BY <1>0, <3>1, Zenon
  <2>2. CASE watched # {}
    <3>1. PICK g \in D : x.gpus[g].monitor
      BY <2>2
    <3>2. y.gpus[g].monitor
      BY <1>20, <3>1, Zenon
    <3> QED
      BY <3>2, Zenon
  <2> QED
    BY <2>1, <2>2, Zenon
<1>15. ASSUME complete, o.fields # {}
       PROVE  x.fields = o.fields /\ x.told = TRUE
  <2>1. k > 1 /\ \A j \in 1..Cardinality(o.fields) : j < k
    <3>1. 0 \in 0..n /\ n \in 0..n /\ 0 <= n
      BY <1>6
    <3>2. ASSUME NEW j \in 1..n
          PROVE  at[j - 1] <= at[j]
      <4>1. at[j] = at[j - 1] + Len(Pieces(order, o)[j]) /\ Len(Pieces(order, o)[j]) \in Nat
        BY <1>7
      <4>2. j - 1 \in 0..n /\ at[j - 1] \in Nat
        BY <1>6
      <4> QED
        BY <4>1, <4>2
    <3>3. at[0] <= at[n]
      <4>1. \A j, m \in 0..n : j <= m => at[j] <= at[m]
        BY <1>6, <3>2, Grows
      <4> QED
        BY <3>1, <4>1
    <3>4. at[0] \in Nat /\ at[n] \in Nat /\ k = at[n]
      BY <1>6, <1>15, <3>1
    <3>5. LineCount(o.fields) = Cardinality(o.fields)
      BY <1>15 DEF LineCount
    <3>6. k >= 1 + Cardinality(o.fields) /\ k > 1
      BY <1>5, <1>6, <3>3, <3>4, <3>5
    <3>7. k \in Nat
      BY <3>4
    <3> QED
      BY <1>5, <3>6, <3>7
  <2>2. x.fields = o.fields
    <3>1. ASSUME NEW v \in o.fields
          PROVE  v \in x.fields
      <4>1. PICK j \in 1..Cardinality(o.fields) : Ascending(o.fields)[j] = v
        BY <1>5, AscendingIs
      <4> QED
        BY <1>10, <2>1, <4>1, Zenon
    <3> QED
      BY <1>10, <3>1, Zenon
  <2>3. x.told = TRUE
    BY <1>10, <1>15, <2>1, Zenon
  <2> QED
    BY <2>2, <2>3
<1>16. ColumnsKept(y, o, complete)
  <2>1. CASE x.told = FALSE
    <3>1. x.fields = {} /\ ~(x.sort \in {})
      BY <1>10, <2>1, Zenon
    <3>2. DefaultSort({}) = NoField
      BY Zenon DEF DefaultSort
    <3>3. y.fields = DefaultFields /\ y.sort = NoField
      BY <1>11, <2>1, <3>1, <3>2, Zenon
    <3>4. ~complete \/ o.fields = {}
      BY <1>15, <2>1, Zenon
    <3> QED
      BY <3>3, <3>4, Zenon DEF ColumnsKept
  <2>2. CASE x.told = TRUE
    <3>1. y.fields = x.fields /\ x.fields # {} /\ k > 1
      BY <1>10, <1>11, <2>2, Zenon
    <3>2. x.sort = IF o.sort \in Fields THEN o.sort ELSE CpuPercent
      <4>1. k > 0
        <5>1. k \in Nat
          <6>1. n \in 0..n /\ Len(L) \in Nat
            BY <1>6
          <6> QED
            BY <6>1 DEF L
        <5> QED
          BY <3>1, <5>1
      <4> QED
        BY <1>10, <4>1, Zenon
    <3>3. o.fields # {} /\ x.fields \subseteq o.fields
      BY <1>10, <3>1
    <3>4. complete => x.fields = o.fields
      BY <1>15, <3>3, Zenon
    <3>5. y.sort = IF o.sort \in x.fields THEN o.sort ELSE DefaultSort(x.fields)
      <4>1. CASE o.sort \in Fields
        BY <1>11, <3>2, <4>1, Zenon
      <4>2. CASE o.sort \notin Fields
        <5>1. o.sort = NoField /\ o.sort \notin o.fields
          BY <1>5, <4>2
        <5>2. x.sort = CpuPercent
          BY <3>2, <4>2, Zenon
        <5>3. DefaultSort(o.fields) = NoField
          BY <1>1, <5>1, Zenon DEF SortIsShown
        <5>4. CpuPercent \notin o.fields
          <6> SUFFICES ASSUME CpuPercent \in o.fields
                       PROVE  FALSE
            OBVIOUS
          <6> DEFINE liked == {j \in DOMAIN SortPreference : SortPreference[j] \in o.fields}
          <6>1. liked # {}
            BY SavedAssumption
          <6>2. liked \in SUBSET Nat
            BY PreferenceAssumption
          <6>3. DefaultSort(o.fields) = SortPreference[Min(liked)]
            BY <6>1, Zenon DEF DefaultSort
          <6>4. Min(liked) \in liked
            BY <6>1, <6>2, LeastExists
          <6>5. SortPreference[Min(liked)] \in o.fields
            BY <6>4, Zenon
          <6>6. NoField \notin o.fields
            BY <1>5, FieldsAssumption
          <6> QED
            BY <5>3, <6>3, <6>5, <6>6, Zenon
        <5> QED
          BY <1>11, <3>3, <5>1, <5>2, <5>4, Zenon
      <4> QED
        BY <4>1, <4>2
    <3> HIDE DEF complete
    <3> QED
      BY <3>1, <3>3, <3>4, <3>5, Zenon DEF ColumnsKept
  <2> QED
    BY <1>9, <2>1, <2>2
<1> HIDE DEF complete
<1>17. Kept(y, now, ToSet(order), o, complete)
  BY <1>13, <1>14, <1>16, <1>18, Zenon DEF Kept, D
<1> QED
  BY <1>17, Zenon DEF y, L, complete

-----------------------------------------------------------------------------
(* The file and the next start.                                             *)

\* The file is the beginning of what these options were saved as.
IsSaveOf(order, k) ==
  /\ IsOrder(order) /\ Savable(saved.options, order) /\ saved.gpus = ToSet(order)
  /\ k \in 0..Len(Lines(order, saved.options))
  /\ file = SubSeq(Lines(order, saved.options), 1, k)
  /\ whole = (k = Len(Lines(order, saved.options)))

FileInv ==
  /\ IsOrder(found)
  /\ ~restarted => Savable(options, found)
  /\ saved.gpus # {} => \E order, k : IsSaveOf(order, k)
  /\ restarted => saved.gpus # {} /\ options = Loaded(file, found)

LEMMA SomeOrder ==
  ASSUME NEW S, S \subseteq SavedGpus, S # {}, NEW s \in SetToSeqs(S)
  PROVE  IsOrder(s)
<1> DEFINE n == Cardinality(S)
<1>1. s \in [1..n -> S] /\ \A i, j \in 1..n : i # j => s[i] # s[j]
  BY DEF SetToSeqs
<1>2. n \in Nat /\ n # 0
  <2>1. IsFiniteSet(S)
    BY SavedAssumption, FS_Subset, Zenon
  <2> QED
    BY <2>1, FS_CardinalityType, FS_EmptySet
<1> HIDE DEF n
<1>3. s \in Seq(SavedGpus) /\ Len(s) = n /\ Len(s) > 0
  BY <1>1, <1>2
<1> QED
  BY <1>1, <1>3 DEF IsOrder

LEMMA FileStart == FileInit => FileInv
<1> SUFFICES ASSUME FileInit
             PROVE  FileInv
  OBVIOUS
<1>1. IsOrder(found)
  <2>1. PICK S \in (SUBSET SavedGpus) \ {{}} : found \in SetToSeqs(S)
    BY DEF FileInit
  <2>2. S \subseteq SavedGpus /\ S # {}
    <3>1. S \in SUBSET SavedGpus /\ S \notin {{}}
      BY <2>1, Zenon
    <3> QED
      BY <3>1, Zenon
  <2> QED
    BY <2>1, <2>2, SomeOrder, Zenon
<1>2. PICK columns \in SUBSET Fields : \E by \in columns \cup {DefaultSort(columns)} :
         /\ SortIsShown(by, columns)
         /\ options \in {[sort |-> by, fields |-> columns, gpus |-> gpus] :
              gpus \in {c \in [ToSet(found) -> GpuChoices] : \E g \in ToSet(found) : c[g].monitor}}
  BY Zenon DEF FileInit
<1>3. PICK by \in columns \cup {DefaultSort(columns)} :
         /\ SortIsShown(by, columns)
         /\ options \in {[sort |-> by, fields |-> columns, gpus |-> gpus] :
              gpus \in {c \in [ToSet(found) -> GpuChoices] : \E g \in ToSet(found) : c[g].monitor}}
  BY <1>2
<1>4. PICK gpus \in [ToSet(found) -> GpuChoices] : options = [sort |-> by, fields |-> columns, gpus |-> gpus]
  BY <1>3
<1>5. by \in Fields \cup {NoField}
  BY <1>3 DEF SortIsShown
<1>6. Savable(options, found)
  BY <1>3, <1>4, <1>5 DEF Savable, SavedOptions
<1>7. saved.gpus = {} /\ ~restarted
  BY DEF FileInit
<1> QED
  BY <1>1, <1>6, <1>7, Zenon DEF FileInv

LEMMA SaveKeeps == FileInv /\ SaveFile => FileInv'
<1> SUFFICES ASSUME FileInv, SaveFile
             PROVE  FileInv'
  OBVIOUS
<1> DEFINE L == Lines(found, options)
<1>1. IsOrder(found) /\ Savable(options, found) /\ found' = found /\ options' = options /\ ~restarted'
  BY Zenon DEF FileInv, SaveFile
<1>2. saved' = [gpus |-> ToSet(found), options |-> options]
  BY Zenon DEF SaveFile
<1>3. PICK k \in 0..Len(L) : file' = SubSeq(L, 1, k) /\ whole' = (k = Len(L))
  BY Zenon DEF SaveFile
<1>4. saved'.gpus = ToSet(found) /\ saved'.options = options
  BY <1>2
<1>5. IsSaveOf(found, k)'
  BY <1>1, <1>3, <1>4, Zenon DEF IsSaveOf
<1> QED
  BY <1>1, <1>5, Zenon DEF FileInv

LEMMA RestartKeeps == FileInv /\ Restart => FileInv'
<1> SUFFICES ASSUME FileInv, Restart
             PROVE  FileInv'
  OBVIOUS
<1>1. /\ saved.gpus # {} /\ saved' = saved /\ file' = file /\ whole' = whole /\ restarted' = TRUE
  BY Zenon DEF Restart
<1>2. PICK S \in (SUBSET SavedGpus) \ {{}} : \E s \in SetToSeqs(S) : found' = s /\ options' = Loaded(file, s)
  BY Zenon DEF Restart
<1>3. PICK s \in SetToSeqs(S) : found' = s /\ options' = Loaded(file, s)
  BY <1>2
<1>4. IsOrder(s)
  <2>1. S \in SUBSET SavedGpus /\ S \notin {{}}
    BY <1>2, Zenon
  <2>2. S \subseteq SavedGpus /\ S # {}
    BY <2>1, Zenon
  <2> QED
    BY <1>3, <2>2, SomeOrder, Zenon
<1>5. PICK order, k : IsSaveOf(order, k)
  BY <1>1, Zenon DEF FileInv
<1>6. IsSaveOf(order, k)'
  BY <1>1, <1>5, Zenon DEF IsSaveOf
<1> QED
  BY <1>1, <1>3, <1>4, <1>6, Zenon DEF FileInv

LEMMA FileAlways == FileSpec => []FileInv
<1>1. FileInv /\ [FileNext]_fileVars => FileInv'
  <2>1. CASE UNCHANGED fileVars
    <3>1. UNCHANGED <<found, options, file, saved, whole, restarted>>
      BY <2>1 DEF fileVars
    <3> QED
      BY <3>1 DEF FileInv, IsSaveOf
  <2> QED
    BY <2>1, SaveKeeps, RestartKeeps, Zenon DEF FileNext
<1> QED
  BY <1>1, FileStart, PTL DEF FileSpec

LEMMA FileInvImplies == FileInv => RestartKeepsOptions
<1> SUFFICES ASSUME FileInv, restarted
             PROVE  Kept(options, found, saved.gpus, saved.options, whole)
  BY Zenon DEF Kept, DeviceKept, ColumnsKept, RestartKeepsOptions, DeviceComesBack, ColumnsComeBack
<1>1. PICK order, k : IsSaveOf(order, k)
  BY Zenon DEF FileInv
<1>2. /\ IsOrder(order) /\ Savable(saved.options, order) /\ saved.gpus = ToSet(order)
      /\ k \in 0..Len(Lines(order, saved.options))
      /\ file = SubSeq(Lines(order, saved.options), 1, k)
      /\ whole = (k = Len(Lines(order, saved.options)))
  BY <1>1, Zenon DEF IsSaveOf
<1>3. options = Loaded(file, found) /\ IsOrder(found)
  BY Zenon DEF FileInv
<1>4. Kept(Loaded(SubSeq(Lines(order, saved.options), 1, k), found), found, ToSet(order), saved.options,
           k = Len(Lines(order, saved.options)))
  BY <1>2, <1>3, LoadedIs
<1> QED
  BY <1>2, <1>3, <1>4, Zenon

\* After any start that follows a save, however early the file ended and
\* whatever devices are there now.  A device of the file is monitored if it was,
\* and draws what was saved, a part of it, or, if the file says nothing of that,
\* the default; of a whole file it draws what was saved, and is monitored as
\* saved unless it is the first device and no other one is.  Other devices have
\* the defaults.  The columns are those saved, or a part of them if the file
\* ends early, sorted by the saved order if its column is there; if no
\* column was read, or none saved, the default ones with nothing to sort by.
THEOREM OptionsComeBack == FileSpec => []RestartKeepsOptions
BY FileAlways, FileInvImplies, PTL

-----------------------------------------------------------------------------
(* Moving an element.                                                       *)

LEMMA RemovedAt ==
  ASSUME NEW S, NEW s \in Seq(S), NEW i \in 1..Len(s)
  PROVE  /\ RemoveAt(s, i) \in Seq(S) /\ Len(RemoveAt(s, i)) = Len(s) - 1
         /\ \A x \in 1..(Len(s) - 1) : RemoveAt(s, i)[x] = IF x < i THEN s[x] ELSE s[x + 1]
<1> DEFINE a == SubSeq(s, 1, i - 1)  b == SubSeq(s, i + 1, Len(s))
<1>1. \A x \in 1..Len(s) : s[x] \in S
  OBVIOUS
<1>2. a \in Seq(S) /\ Len(a) = i - 1 /\ \A x \in 1..(i - 1) : a[x] = s[x]
  BY <1>1, SubSeqProperties
<1>3. b \in Seq(S) /\ Len(b) = Len(s) - i /\ \A x \in 1..(Len(s) - i) : b[x] = s[i + x]
  BY <1>1, SubSeqProperties
<1>4. RemoveAt(s, i) = a \o b
  BY DEF RemoveAt
<1> HIDE DEF a, b
<1>5. /\ a \o b \in Seq(S) /\ Len(a \o b) = Len(a) + Len(b)
      /\ \A x \in 1..(Len(a) + Len(b)) : (a \o b)[x] = IF x <= Len(a) THEN a[x] ELSE b[x - Len(a)]
  BY <1>2, <1>3, ConcatProperties
<1> QED
  BY <1>2, <1>3, <1>4, <1>5

IsInserted(t, s, i, e) ==
  /\ Len(t) = Len(s) + 1
  /\ \A x \in 1..(Len(s) + 1) : t[x] = IF x < i THEN s[x] ELSE IF x = i THEN e ELSE s[x - 1]

LEMMA InsertedAt ==
  ASSUME NEW S, NEW s \in Seq(S), NEW i \in 1..(Len(s) + 1), NEW e \in S
  PROVE  InsertAt(s, i, e) \in Seq(S) /\ IsInserted(InsertAt(s, i, e), s, i, e)
<1> DEFINE a == SubSeq(s, 1, i - 1)  b == SubSeq(s, i, Len(s))  c == <<e>>
<1>1. \A x \in 1..Len(s) : s[x] \in S
  OBVIOUS
<1>2. a \in Seq(S) /\ Len(a) = i - 1 /\ \A x \in 1..(i - 1) : a[x] = s[x]
  BY <1>1, SubSeqProperties
<1>3. b \in Seq(S) /\ Len(b) = Len(s) - i + 1 /\ \A x \in 1..(Len(s) - i + 1) : b[x] = s[i + x - 1]
  BY <1>1, SubSeqProperties
<1>4. c \in Seq(S) /\ Len(c) = 1 /\ c[1] = e
  OBVIOUS
<1>5. InsertAt(s, i, e) = (a \o c) \o b
  BY DEF InsertAt
<1> HIDE DEF a, b, c
<1>6. /\ a \o c \in Seq(S) /\ Len(a \o c) = i
      /\ \A x \in 1..i : (a \o c)[x] = IF x < i THEN s[x] ELSE e
  <2>1. /\ a \o c \in Seq(S) /\ Len(a \o c) = Len(a) + Len(c)
        /\ \A x \in 1..(Len(a) + Len(c)) : (a \o c)[x] = IF x <= Len(a) THEN a[x] ELSE c[x - Len(a)]
    BY <1>2, <1>4, ConcatProperties
  <2> QED
    BY <1>2, <1>4, <2>1
<1> DEFINE d == a \o c
<1>7. d \in Seq(S) /\ Len(d) = i /\ \A x \in 1..i : d[x] = IF x < i THEN s[x] ELSE e
  BY <1>6
<1>8. InsertAt(s, i, e) = d \o b
  BY <1>5
<1> HIDE DEF d
<1>9. /\ d \o b \in Seq(S) /\ Len(d \o b) = Len(d) + Len(b)
      /\ \A x \in 1..(Len(d) + Len(b)) : (d \o b)[x] = IF x <= Len(d) THEN d[x] ELSE b[x - Len(d)]
  BY <1>3, <1>7, ConcatProperties
<1> QED
  BY <1>3, <1>7, <1>8, <1>9 DEF IsInserted

IsMoved(t, s, i, j) ==
  /\ Len(t) = Len(s)
  /\ \A x \in 1..Len(s) : t[x] = IF x = j THEN s[i]
                                 ELSE IF i <= x /\ x < j THEN s[x + 1]
                                 ELSE IF j < x /\ x <= i THEN s[x - 1] ELSE s[x]

LEMMA MovedTo ==
  ASSUME NEW S, NEW s \in Seq(S), NEW i \in 1..Len(s), NEW j \in 1..Len(s)
  PROVE  Moved(s, i, j) \in Seq(S) /\ IsMoved(Moved(s, i, j), s, i, j)
<1> DEFINE r == RemoveAt(s, i)
<1>1. /\ r \in Seq(S) /\ Len(r) = Len(s) - 1
      /\ \A x \in 1..(Len(s) - 1) : r[x] = IF x < i THEN s[x] ELSE s[x + 1]
  BY RemovedAt
<1> DEFINE e == s[i]
<1>2. e \in S
  OBVIOUS
<1> HIDE DEF r, e
<1>3. InsertAt(r, j, e) \in Seq(S) /\ IsInserted(InsertAt(r, j, e), r, j, e)
  <2>1. j \in 1..(Len(r) + 1)
    BY <1>1
  <2> QED
    BY <1>1, <1>2, <2>1, InsertedAt, Zenon
<1>4. Moved(s, i, j) = InsertAt(r, j, e)
  BY DEF Moved, r, e
<1> QED
  BY <1>1, <1>3, <1>4, SMTT(40) DEF e, IsInserted, IsMoved

\* Every element that is moved or passed is still there.
LEMMA NothingLost ==
  ASSUME NEW s, NEW t, NEW n \in Nat, Len(s) = n, NEW i \in 1..n, NEW j \in 1..n, IsMoved(t, s, i, j),
         NEW x \in 1..n
  PROVE  \E y \in 1..n : t[y] = s[x]
<1>1. CASE x = i
  BY <1>1 DEF IsMoved
<1>2. CASE i < x /\ x <= j
  <2>1. x - 1 \in 1..n /\ t[x - 1] = s[x]
    BY <1>2 DEF IsMoved
  <2> QED
    BY <2>1
<1>3. CASE j <= x /\ x < i
  <2>1. x + 1 \in 1..n /\ t[x + 1] = s[x]
    BY <1>3 DEF IsMoved
  <2> QED
    BY <2>1
<1>4. CASE (x < i /\ x < j) \/ (x > i /\ x > j)
  BY <1>4 DEF IsMoved
<1> QED
  BY <1>1, <1>2, <1>3, <1>4

LEMMA Appended ==
  ASSUME NEW S, NEW s \in Seq(S), NEW e \in S
  PROVE  /\ Append(s, e) \in Seq(S) /\ Len(Append(s, e)) = Len(s) + 1
         /\ \A i \in 1..Len(s) : Append(s, e)[i] = s[i]
         /\ Append(s, e)[Len(s) + 1] = e
  OBVIOUS

-----------------------------------------------------------------------------
(* The loops of interface_check_and_fix_monitored_gpus.                     *)

\* What every state of the loops has: the options of all devices, typed lists.
Wanted(o) == ~o.doNotMonitor

LoopState(st) ==
  /\ st = [mon |-> st.mon, non |-> st.non, opts |-> st.opts, idx |-> st.idx, count |-> st.count]
  /\ st.mon \in Seq(Devices) /\ st.non \in Seq(Devices) /\ st.opts \in Seq(Options)
  /\ \A d \in Devices : \E i \in 1..Len(st.opts) : st.opts[i].linkedGpu = d

\* The options of a list of devices from a place on.
Linked(opts, at, s) == \A i \in 1..Len(s) : opts[at + i].linkedGpu = s[i]

\* After k devices of the list of monitored ones: those that stay, those that
\* are still to come, those that were not monitored or have left.
Leaving(st, k, mon) ==
  /\ LoopState(st)
  /\ st.idx = Len(st.mon) + 1
  /\ Len(st.opts) = Len(st.mon) + (Len(mon) - k) + Len(st.non)
  /\ Linked(st.opts, 0, st.mon)
  /\ \A i \in 1..Len(st.mon) : Wanted(st.opts[i])
  /\ \A i \in 1..(Len(mon) - k) : st.opts[Len(st.mon) + i].linkedGpu = mon[k + i]
  /\ Linked(st.opts, Len(st.mon) + (Len(mon) - k), st.non)

LEMMA LeaveIs ==
  ASSUME NEW st, LoopState(st), NEW d
  PROVE  /\ Wanted(st.opts[st.idx]) =>
              Leave(st, d) = [mon |-> Append(st.mon, d), non |-> st.non, opts |-> st.opts,
                              idx |-> st.idx + 1, count |-> st.count]
         /\ ~Wanted(st.opts[st.idx]) =>
              Leave(st, d) = [mon |-> st.mon, non |-> Append(st.non, d),
                              opts |-> Moved(st.opts, st.idx, Len(st.opts)),
                              idx |-> st.idx, count |-> st.count]
<1> DEFINE mon == st.mon  non == st.non  opts == st.opts  idx == st.idx  count == st.count
<1>1. st = [mon |-> mon, non |-> non, opts |-> opts, idx |-> idx, count |-> count]
  BY DEF LoopState
<1>2. CASE Wanted(opts[idx])
  BY <1>1, <1>2 DEF Leave, Wanted
<1>3. CASE ~Wanted(opts[idx])
  BY <1>1, <1>3 DEF Leave, Wanted
<1> QED
  BY <1>2, <1>3

\* Where the places of the three parts are after the move.
LEMMA Places ==
  ASSUME NEW m \in Nat, NEW r \in Nat, NEW l \in Nat, NEW n \in Nat, n = m + (r + 1) + l
  PROVE  /\ m + 1 \in 1..n /\ n \in 1..n /\ (m + r) + (l + 1) = n
         /\ \A i \in 1..r : /\ m + i \in (m + 1)..(n - 1) /\ i + 1 \in 1..(r + 1)
                           /\ (m + i) + 1 = m + (i + 1)
         /\ \A i \in 1..l : /\ (m + r) + i \in (m + 1)..(n - 1)
                           /\ ((m + r) + i) + 1 = (m + (r + 1)) + i
         /\ \A i \in 1..(l + 1) : i = l + 1 \/ i \in 1..l
OBVIOUS

LEMMA LeaveStep ==
  ASSUME NEW mon \in Seq(Devices), NEW k \in 1..Len(mon), NEW st, Leaving(st, k - 1, mon)
  PROVE  Leaving(Leave(st, mon[k]), k, mon) /\ Len(Leave(st, mon[k]).opts) = Len(st.opts)
<1> DEFINE d == mon[k]  m == Len(st.mon)  r == Len(mon) - k  l == Len(st.non)  opts == st.opts
           new == Leave(st, d)
<1>1. /\ k \in Nat \ {0} /\ d \in Devices /\ m \in Nat /\ r \in Nat /\ l \in Nat
      /\ Len(mon) - (k - 1) = r + 1 /\ (k - 1) + 1 = k
  <2>1. st.mon \in Seq(Devices) /\ st.non \in Seq(Devices)
    BY DEF Leaving, LoopState
  <2>2. Len(mon) \in Nat /\ m \in Nat /\ l \in Nat
    BY <2>1, LenProperties
  <2>3. d \in Devices
    BY ElementOfSeq
  <2> QED
    BY <2>2, <2>3
<1>2. /\ st.mon \in Seq(Devices) /\ st.non \in Seq(Devices) /\ opts \in Seq(Options)
      /\ \A e \in Devices : \E i \in 1..Len(opts) : opts[i].linkedGpu = e
  BY DEF Leaving, LoopState
<1>3. /\ st.idx = m + 1 /\ Len(opts) = m + (r + 1) + l
      /\ \A i \in 1..m : opts[i].linkedGpu = st.mon[i]
      /\ \A i \in 1..(r + 1) : opts[m + i].linkedGpu = mon[k - 1 + i]
      /\ \A i \in 1..l : opts[m + (r + 1) + i].linkedGpu = st.non[i]
  <2>1. /\ st.idx = m + 1 /\ Len(opts) = m + (r + 1) + l
        /\ \A i \in 1..m : opts[0 + i].linkedGpu = st.mon[i]
        /\ \A i \in 1..(r + 1) : opts[m + i].linkedGpu = mon[(k - 1) + i]
        /\ \A i \in 1..l : opts[(m + (r + 1)) + i].linkedGpu = st.non[i]
    <3> HIDE DEF r
    <3> QED
      BY <1>1 DEF Leaving, Linked
  <2>2. \A i \in 1..m : 0 + i = i
    BY <1>1
  <2> QED
    BY <2>1, <2>2
<1>4. \A i \in 1..m : Wanted(opts[i])
  BY DEF Leaving
<1>5. CASE Wanted(opts[st.idx])
  <2>1. new = [mon |-> Append(st.mon, d), non |-> st.non, opts |-> opts,
               idx |-> st.idx + 1, count |-> st.count]
    BY <1>5, LeaveIs DEF Leaving
  <2>2. /\ new.mon = Append(st.mon, d) /\ new.non = st.non /\ new.opts = opts
        /\ new.idx = m + 2
        /\ new = [mon |-> new.mon, non |-> new.non, opts |-> new.opts,
                  idx |-> new.idx, count |-> new.count]
    BY <1>1, <1>3, <2>1, SMTT(40)
  <2> HIDE DEF new, m, r, l, opts, d
  <2>3. /\ new.mon \in Seq(Devices) /\ Len(new.mon) = m + 1
        /\ \A i \in 1..m : new.mon[i] = st.mon[i]
        /\ new.mon[m + 1] = d
    BY <1>1, <1>2, <2>2, Appended, SMTT(40) DEF m
  <2>4. opts[m + 1].linkedGpu = d
    <3>1. 1 \in 1..(r + 1)
      BY <1>1
    <3> QED
      BY <1>1, <1>3, <3>1 DEF d
  <2>5. Linked(new.opts, 0, new.mon)
    <3> SUFFICES ASSUME NEW i \in 1..(m + 1)
                 PROVE  opts[0 + i].linkedGpu = new.mon[i]
      BY <2>2, <2>3 DEF Linked
    <3>1. CASE i = m + 1
      BY <1>1, <2>3, <2>4, <3>1
    <3>2. CASE i \in 1..m
      <4>1. 0 + i = i
        BY <3>2
      <4> QED
        BY <1>3, <2>3, <3>2, <4>1
    <3> QED
      BY <1>1, <3>1, <3>2
  <2>6. \A i \in 1..(m + 1) : Wanted(new.opts[i])
    BY <1>1, <1>3, <1>4, <1>5, <2>2, SMTT(40)
  <2>7. \A i \in 1..r : new.opts[(m + 1) + i].linkedGpu = mon[k + i]
    <3> SUFFICES ASSUME NEW i \in 1..r
                 PROVE  opts[(m + 1) + i].linkedGpu = mon[k + i]
      BY <2>2
    <3>1. i + 1 \in 1..(r + 1) /\ m + (i + 1) = (m + 1) + i /\ k - 1 + (i + 1) = k + i
      BY <1>1
    <3> QED
      BY <1>3, <3>1
  <2>8. Linked(new.opts, (m + 1) + r, new.non)
    <3>1. m + (r + 1) = (m + 1) + r /\ Len(new.non) = l
      BY <1>1, <2>2 DEF l
    <3> QED
      BY <1>3, <2>2, <3>1, Zenon DEF Linked
  <2>9. LoopState(new)
    BY <1>2, <2>2, <2>3 DEF LoopState
  <2>10. new.idx = Len(new.mon) + 1 /\ Len(new.opts) = Len(new.mon) + r + Len(new.non)
    <3>1. Len(new.non) = l
      BY <2>2 DEF l
    <3> QED
      BY <1>1, <1>3, <2>2, <2>3, <3>1, SMTT(40)
  <2> QED
    BY <2>2, <2>3, <2>5, <2>6, <2>7, <2>8, <2>9, <2>10 DEF Leaving, new, r, l, opts, d
<1>6. CASE ~Wanted(opts[st.idx])
  <2> DEFINE n == Len(opts)  moved == Moved(opts, m + 1, n)
  <2>1. new = [mon |-> st.mon, non |-> Append(st.non, d), opts |-> Moved(opts, st.idx, n),
               idx |-> st.idx, count |-> st.count]
    BY <1>6, LeaveIs DEF Leaving
  <2>2. /\ new.mon = st.mon /\ new.non = Append(st.non, d) /\ new.opts = moved
        /\ new.idx = m + 1
        /\ new = [mon |-> new.mon, non |-> new.non, opts |-> new.opts,
                  idx |-> new.idx, count |-> new.count]
    BY <1>3, <2>1
  <2> HIDE DEF new, m, r, l, opts, d
  <2>3. /\ new.non \in Seq(Devices) /\ Len(new.non) = l + 1
        /\ \A i \in 1..l : new.non[i] = st.non[i]
        /\ new.non[l + 1] = d
    BY <1>1, <1>2, <2>2, Appended DEF l
  <2>9. n \in Nat /\ n = m + (r + 1) + l
    BY <1>1, <1>3
  <2> HIDE DEF n
  <2>4. m + 1 \in 1..n /\ n \in 1..n /\ (m + r) + (l + 1) = n
    BY <1>1, <2>9, Places
  <2>5. moved \in Seq(Options) /\ IsMoved(moved, opts, m + 1, n)
    BY <1>2, <2>4, MovedTo DEF n
  <2> HIDE DEF moved
  <2>6. /\ Len(moved) = n /\ Len(opts) = n /\ moved[n] = opts[m + 1]
        /\ \A x \in 1..m : moved[x] = opts[x]
        /\ \A x \in (m + 1)..(n - 1) : moved[x] = opts[x + 1]
    BY <1>1, <2>4, <2>5, <2>9 DEF IsMoved, n
  <2>7. \A e \in Devices : \E i \in 1..n : moved[i].linkedGpu = e
    <3> SUFFICES ASSUME NEW e \in Devices
                 PROVE  \E i \in 1..n : moved[i].linkedGpu = e
      OBVIOUS
    <3>1. PICK x \in 1..n : opts[x].linkedGpu = e
      BY <1>2, <2>6
    <3>2. \E y \in 1..n : moved[y] = opts[x]
      <4>1. n \in Nat /\ Len(opts) = n /\ m + 1 \in 1..n /\ n \in 1..n
        BY <2>4, <2>6, <2>9
      <4> QED
        BY <2>5, <4>1, NothingLost, ZenonT(60)
    <3> QED
      BY <3>1, <3>2
  <2>8. opts[m + 1].linkedGpu = d
    <3>1. 1 \in 1..(r + 1)
      BY <1>1
    <3> QED
      BY <1>1, <1>3, <3>1 DEF d
  <2>10. Linked(new.opts, 0, new.mon) /\ \A i \in 1..m : Wanted(new.opts[i])
    <3>1. Len(new.mon) = m
      BY <2>2 DEF m
    <3>2. \A i \in 1..m : moved[0 + i].linkedGpu = new.mon[i]
      BY <1>1, <1>3, <2>2, <2>6, SMTT(40)
    <3>3. \A i \in 1..m : Wanted(moved[i])
      BY <1>4, <2>6
    <3> QED
      BY <2>2, <3>1, <3>2, <3>3 DEF Linked
  <2>11. \A i \in 1..r : new.opts[m + i].linkedGpu = mon[k + i]
    <3> SUFFICES ASSUME NEW i \in 1..r
                 PROVE  moved[m + i].linkedGpu = mon[k + i]
      BY <2>2
    <3>1. /\ m + i \in (m + 1)..(n - 1) /\ i + 1 \in 1..(r + 1)
          /\ (m + i) + 1 = m + (i + 1)
      BY <1>1, <2>9, Places
    <3>2. k - 1 + (i + 1) = k + i
      BY <1>1
    <3> QED
      BY <1>3, <2>6, <3>1, <3>2, SMTT(40)
  <2>12. Linked(new.opts, m + r, new.non)
    <3> SUFFICES ASSUME NEW i \in 1..(l + 1)
                 PROVE  moved[(m + r) + i].linkedGpu = new.non[i]
      BY <2>2, <2>3 DEF Linked
    <3>1. CASE i = l + 1
      BY <2>3, <2>4, <2>6, <2>8, <3>1
    <3>2. CASE i \in 1..l
      <4>1. (m + r) + i \in (m + 1)..(n - 1) /\ ((m + r) + i) + 1 = m + (r + 1) + i
        BY <1>1, <2>9, <3>2, Places
      <4> QED
        BY <1>3, <2>3, <2>6, <3>2, <4>1
    <3>3. i = l + 1 \/ i \in 1..l
      BY <1>1
    <3> QED
      BY <3>1, <3>2, <3>3
  <2>13. LoopState(new)
    BY <1>2, <2>2, <2>3, <2>5, <2>6, <2>7 DEF LoopState
  <2>14. new.idx = Len(new.mon) + 1 /\ Len(new.opts) = Len(new.mon) + r + Len(new.non)
    <3>1. Len(new.mon) = m /\ Len(new.non) = l + 1 /\ Len(new.opts) = n
      BY <2>2, <2>3, <2>6 DEF m
    <3> QED
      BY <1>1, <2>2, <2>4, <3>1
  <2> QED
    BY <2>2, <2>6, <2>10, <2>11, <2>12, <2>13, <2>14 DEF Leaving, new, r, l, opts, d, m
<1> QED
  BY <1>5, <1>6

\* After k devices of the list of those not monitored: the monitored ones, the
\* others, those that are still to come.
Returning(st, k, rest) ==
  /\ LoopState(st)
  /\ st.count = Len(st.mon) /\ st.idx = Len(st.mon) + Len(st.non) + 1
  /\ Len(st.opts) = Len(st.mon) + Len(st.non) + (Len(rest) - k)
  /\ Linked(st.opts, 0, st.mon)
  /\ \A i \in 1..Len(st.mon) : Wanted(st.opts[i])
  /\ Linked(st.opts, Len(st.mon), st.non)
  /\ \A i \in 1..Len(st.non) : ~Wanted(st.opts[Len(st.mon) + i])
  /\ \A i \in 1..(Len(rest) - k) : st.opts[Len(st.mon) + Len(st.non) + i].linkedGpu = rest[k + i]

LEMMA ReturnIs ==
  ASSUME NEW st, LoopState(st), NEW d
  PROVE  /\ Wanted(st.opts[st.idx]) =>
              Return(st, d) = [mon |-> Append(st.mon, d), non |-> st.non,
                               opts |-> Moved(st.opts, st.idx, st.count + 1),
                               idx |-> st.idx + 1, count |-> st.count + 1]
         /\ ~Wanted(st.opts[st.idx]) =>
              Return(st, d) = [mon |-> st.mon, non |-> Append(st.non, d), opts |-> st.opts,
                               idx |-> st.idx + 1, count |-> st.count]
<1> DEFINE mon == st.mon  non == st.non  opts == st.opts  idx == st.idx  count == st.count
<1>1. st = [mon |-> mon, non |-> non, opts |-> opts, idx |-> idx, count |-> count]
  BY DEF LoopState
<1>2. CASE Wanted(opts[idx])
  BY <1>1, <1>2 DEF Return, Wanted
<1>3. CASE ~Wanted(opts[idx])
  BY <1>1, <1>3 DEF Return, Wanted
<1> QED
  BY <1>2, <1>3

LEMMA ReturnPlaces ==
  ASSUME NEW m \in Nat, NEW r \in Nat, NEW l \in Nat, NEW n \in Nat, n = m + l + (r + 1)
  PROVE  /\ m + 1 \in 1..n /\ m + l + 1 \in 1..n
         /\ \A i \in 1..m : i \in 1..n /\ i < m + 1 /\ i < m + l + 1 /\ 0 + i = i
         /\ \A i \in 1..l : /\ (m + 1) + i \in 1..n /\ (m + 1) + i > m + 1
                            /\ (m + 1) + i <= m + l + 1 /\ (m + 1) + i - 1 = m + i
         /\ \A i \in 1..r : /\ (m + 1) + l + i \in 1..n /\ (m + 1) + l + i > m + l + 1
                            /\ (m + 1) + l + i = m + l + (i + 1) /\ i + 1 \in 1..(r + 1)
                            /\ m + (l + 1) + i = m + l + (i + 1)
         /\ \A i \in 1..(l + 1) : i = l + 1 \/ i \in 1..l
         /\ \A i \in 1..(m + 1) : i = m + 1 \/ i \in 1..m
         /\ (m + 1) + l + r = n /\ m + (l + 1) + r = n
         /\ (m + 1) + l + 1 = (m + l + 1) + 1 /\ m + (l + 1) + 1 = (m + l + 1) + 1
         /\ 1 \in 1..(r + 1) /\ m + (l + 1) = m + l + 1 /\ 0 + (m + 1) = m + 1
OBVIOUS

LEMMA ReturnStep ==
  ASSUME NEW rest \in Seq(Devices), NEW k \in 1..Len(rest), NEW st, Returning(st, k - 1, rest)
  PROVE  Returning(Return(st, rest[k]), k, rest) /\ Len(Return(st, rest[k]).opts) = Len(st.opts)
<1> DEFINE d == rest[k]  m == Len(st.mon)  l == Len(st.non)  r == Len(rest) - k
           opts == st.opts  n == Len(opts)  new == Return(st, d)
<1>1. /\ k \in Nat \ {0} /\ d \in Devices /\ m \in Nat /\ r \in Nat /\ l \in Nat /\ n \in Nat
      /\ Len(rest) - (k - 1) = r + 1 /\ (k - 1) + 1 = k
  <2>1. st.mon \in Seq(Devices) /\ st.non \in Seq(Devices) /\ opts \in Seq(Options)
    BY DEF Returning, LoopState
  <2>2. Len(rest) \in Nat /\ m \in Nat /\ l \in Nat /\ n \in Nat
    BY <2>1, LenProperties
  <2>3. d \in Devices
    BY ElementOfSeq
  <2> QED
    BY <2>2, <2>3
<1>2. /\ st.mon \in Seq(Devices) /\ st.non \in Seq(Devices) /\ opts \in Seq(Options)
      /\ \A e \in Devices : \E i \in 1..n : opts[i].linkedGpu = e
  BY DEF Returning, LoopState
<1>3. /\ st.count = m /\ st.idx = m + l + 1 /\ n = m + l + (r + 1)
      /\ \A i \in 1..m : opts[0 + i].linkedGpu = st.mon[i]
      /\ \A i \in 1..l : opts[m + i].linkedGpu = st.non[i]
      /\ \A i \in 1..(r + 1) : opts[m + l + i].linkedGpu = rest[(k - 1) + i]
  <2> HIDE DEF r
  <2> QED
    BY <1>1 DEF Returning, Linked
<1>4. /\ \A i \in 1..m : Wanted(opts[i])
      /\ \A i \in 1..l : ~Wanted(opts[m + i])
  BY DEF Returning
<1>5. /\ \A i \in 1..m : opts[i].linkedGpu = st.mon[i]
      /\ opts[m + l + 1].linkedGpu = d
      /\ \A i \in 1..r : opts[m + l + (i + 1)].linkedGpu = rest[k + i]
  <2>1. \A i \in 1..m : 0 + i = i
    BY <1>1
  <2>2. /\ 1 \in 1..(r + 1)
        /\ \A i \in 1..r : i + 1 \in 1..(r + 1) /\ (k - 1) + (i + 1) = k + i
    BY <1>1
  <2> HIDE DEF opts, m, r, l, d
  <2>3. opts[m + l + 1].linkedGpu = rest[(k - 1) + 1]
    BY <1>3, <2>2
  <2>4. ASSUME NEW i \in 1..r
        PROVE  opts[m + l + (i + 1)].linkedGpu = rest[k + i]
    BY <1>3, <2>2
  <2> QED
    BY <1>1, <1>3, <2>1, <2>3, <2>4 DEF d
<1>6. CASE Wanted(opts[st.idx])
  <2> DEFINE moved == Moved(opts, m + l + 1, m + 1)
  <2>1. new = [mon |-> Append(st.mon, d), non |-> st.non,
               opts |-> Moved(opts, st.idx, st.count + 1),
               idx |-> st.idx + 1, count |-> st.count + 1]
    BY <1>6, ReturnIs DEF Returning
  <2>2. /\ new.mon = Append(st.mon, d) /\ new.non = st.non /\ new.opts = moved
        /\ new.idx = (m + l + 1) + 1 /\ new.count = m + 1
        /\ new = [mon |-> new.mon, non |-> new.non, opts |-> new.opts,
                  idx |-> new.idx, count |-> new.count]
    BY <1>3, <2>1
  <2> HIDE DEF new, m, r, l, opts, d, n
  <2>3. /\ new.mon \in Seq(Devices) /\ Len(new.mon) = m + 1
        /\ \A i \in 1..m : new.mon[i] = st.mon[i]
        /\ new.mon[m + 1] = d
    <3>1. new.mon = Append(st.mon, d) /\ st.mon \in Seq(Devices) /\ d \in Devices
      BY <1>1, <1>2, <2>2
    <3> QED
      BY <3>1, Appended DEF m
  <2>4. m + 1 \in 1..n /\ m + l + 1 \in 1..n
    BY <1>1, <1>3, ReturnPlaces
  <2>5. moved \in Seq(Options) /\ IsMoved(moved, opts, m + l + 1, m + 1)
    BY <1>2, <2>4, MovedTo DEF n
  <2> HIDE DEF moved
  <2>6. /\ Len(moved) = n /\ Len(opts) = n /\ moved[m + 1] = opts[m + l + 1]
        /\ \A i \in 1..m : moved[i] = opts[i]
        /\ \A i \in 1..l : moved[(m + 1) + i] = opts[m + i]
        /\ \A i \in 1..r : moved[(m + 1) + l + i] = opts[m + l + (i + 1)]
    <3>1. /\ Len(moved) = n /\ Len(opts) = n
          /\ \A x \in 1..n : moved[x] = IF x = m + 1 THEN opts[m + l + 1]
                                        ELSE IF m + l + 1 <= x /\ x < m + 1 THEN opts[x + 1]
                                        ELSE IF m + 1 < x /\ x <= m + l + 1 THEN opts[x - 1]
                                        ELSE opts[x]
      BY <2>5 DEF IsMoved, n
    <3>2. /\ \A i \in 1..m : i \in 1..n /\ i < m + 1 /\ i < m + l + 1
          /\ \A i \in 1..l : /\ (m + 1) + i \in 1..n /\ (m + 1) + i > m + 1
                             /\ (m + 1) + i <= m + l + 1 /\ (m + 1) + i - 1 = m + i
          /\ \A i \in 1..r : /\ (m + 1) + l + i \in 1..n /\ (m + 1) + l + i > m + l + 1
                             /\ (m + 1) + l + i = m + l + (i + 1)
      BY <1>1, <1>3, ReturnPlaces
    <3>3. ASSUME NEW i \in 1..m
          PROVE  moved[i] = opts[i]
      BY <1>1, <3>1, <3>2
    <3>4. ASSUME NEW i \in 1..l
          PROVE  moved[(m + 1) + i] = opts[m + i]
      BY <1>1, <3>1, <3>2, SMTT(40)
    <3>5. ASSUME NEW i \in 1..r
          PROVE  moved[(m + 1) + l + i] = opts[m + l + (i + 1)]
      BY <1>1, <3>1, <3>2
    <3> QED
      BY <2>4, <3>1, <3>3, <3>4, <3>5
  <2>7. \A e \in Devices : \E i \in 1..n : moved[i].linkedGpu = e
    <3> SUFFICES ASSUME NEW e \in Devices
                 PROVE  \E i \in 1..n : moved[i].linkedGpu = e
      OBVIOUS
    <3>1. PICK x \in 1..n : opts[x].linkedGpu = e
      BY <1>2
    <3>2. \E y \in 1..n : moved[y] = opts[x]
      <4>1. n \in Nat /\ Len(opts) = n /\ m + 1 \in 1..n /\ m + l + 1 \in 1..n
        BY <1>1, <2>4, <2>6
      <4> QED
        BY <2>5, <4>1, NothingLost
    <3> QED
      BY <3>1, <3>2
  <2>8. /\ Linked(new.opts, 0, new.mon) /\ \A i \in 1..(m + 1) : Wanted(new.opts[i])
    <3>1. ASSUME NEW i \in 1..(m + 1)
          PROVE  moved[0 + i].linkedGpu = new.mon[i] /\ Wanted(moved[i])
      <4>1. CASE i = m + 1
        <5>1. 0 + i = m + 1
          BY <1>1, <4>1
        <5> QED
          BY <1>3, <1>5, <1>6, <2>3, <2>6, <4>1, <5>1
      <4>2. CASE i \in 1..m
        <5>1. 0 + i = i
          BY <4>2
        <5> QED
          BY <1>4, <1>5, <2>3, <2>6, <4>2, <5>1
      <4> QED
        BY <1>1, <4>1, <4>2
    <3> QED
      BY <2>2, <2>3, <3>1 DEF Linked
  <2>9. /\ Linked(new.opts, m + 1, new.non) /\ \A i \in 1..l : ~Wanted(new.opts[(m + 1) + i])
    <3>1. Len(new.non) = l
      BY <2>2 DEF l
    <3>2. ASSUME NEW i \in 1..l
          PROVE  moved[(m + 1) + i].linkedGpu = st.non[i] /\ ~Wanted(moved[(m + 1) + i])
      <4>1. moved[(m + 1) + i] = opts[m + i]
        BY <2>6
      <4> QED
        BY <1>3, <1>4, <4>1
    <3> QED
      BY <2>2, <3>1, <3>2, Zenon DEF Linked
  <2>10. \A i \in 1..r : new.opts[(m + 1) + l + i].linkedGpu = rest[k + i]
    BY <1>5, <2>2, <2>6
  <2>11. LoopState(new)
    BY <1>2, <2>2, <2>3, <2>5, <2>6, <2>7 DEF LoopState
  <2>12. /\ Len(new.mon) = m + 1 /\ Len(new.non) = l /\ Len(new.opts) = n
         /\ new.idx = (m + 1) + l + 1 /\ n = (m + 1) + l + r
    <3>1. Len(new.non) = l
      BY <2>2 DEF l
    <3> QED
      BY <1>1, <1>3, <2>2, <2>3, <2>6, <3>1, ReturnPlaces
  <2>13. Returning(new, k, rest)
    BY <2>2, <2>8, <2>9, <2>10, <2>11, <2>12 DEF Returning, r
  <2> QED
    BY <2>12, <2>13 DEF new, d, n, opts
<1>7. CASE ~Wanted(opts[st.idx])
  <2>1. new = [mon |-> st.mon, non |-> Append(st.non, d), opts |-> opts,
               idx |-> st.idx + 1, count |-> st.count]
    BY <1>7, ReturnIs DEF Returning
  <2>2. /\ new.mon = st.mon /\ new.non = Append(st.non, d) /\ new.opts = opts
        /\ new.idx = (m + l + 1) + 1 /\ new.count = m
        /\ new = [mon |-> new.mon, non |-> new.non, opts |-> new.opts,
                  idx |-> new.idx, count |-> new.count]
    BY <1>3, <2>1
  <2> HIDE DEF new, m, r, l, opts, d, n
  <2>3. /\ new.non \in Seq(Devices) /\ Len(new.non) = l + 1
        /\ \A i \in 1..l : new.non[i] = st.non[i]
        /\ new.non[l + 1] = d
    <3>1. new.non = Append(st.non, d) /\ st.non \in Seq(Devices) /\ d \in Devices
      BY <1>1, <1>2, <2>2
    <3> QED
      BY <3>1, Appended DEF l
  <2>4. Len(new.mon) = m /\ Len(new.opts) = n
    BY <2>2 DEF m, n
  <2>5. Linked(new.opts, 0, new.mon) /\ \A i \in 1..m : Wanted(new.opts[i])
    BY <1>3, <1>4, <2>2, <2>4 DEF Linked
  <2>6. Linked(new.opts, m, new.non) /\ \A i \in 1..(l + 1) : ~Wanted(new.opts[m + i])
    <3>1. ASSUME NEW i \in 1..(l + 1)
          PROVE  opts[m + i].linkedGpu = new.non[i] /\ ~Wanted(opts[m + i])
      <4>1. CASE i = l + 1
        <5>1. m + i = m + l + 1
          BY <1>1, <4>1
        <5> QED
          BY <1>3, <1>5, <1>7, <2>3, <4>1, <5>1
      <4>2. CASE i \in 1..l
        BY <1>3, <1>4, <2>3, <4>2
      <4> QED
        BY <1>1, <4>1, <4>2
    <3> QED
      BY <2>2, <2>3, <3>1 DEF Linked
  <2>7. \A i \in 1..r : new.opts[m + (l + 1) + i].linkedGpu = rest[k + i]
    <3> SUFFICES ASSUME NEW i \in 1..r
                 PROVE  opts[m + (l + 1) + i].linkedGpu = rest[k + i]
      BY <2>2
    <3>1. m + (l + 1) + i = m + l + (i + 1)
      BY <1>1
    <3> QED
      BY <1>5, <3>1
  <2>8. LoopState(new)
    BY <1>2, <2>2, <2>3 DEF LoopState, n
  <2>9. new.idx = m + (l + 1) + 1 /\ n = m + (l + 1) + r
    BY <1>1, <1>3, <2>2, ReturnPlaces
  <2>10. Returning(new, k, rest)
    BY <2>2, <2>3, <2>4, <2>5, <2>6, <2>7, <2>8, <2>9 DEF Returning, r
  <2> QED
    BY <2>4, <2>10 DEF new, d, n, opts
<1> QED
  BY <1>6, <1>7

-----------------------------------------------------------------------------
(* The whole of it.                                                         *)

\* The options are those of the two lists, and every device is in one of them.
InSync(mon, non, opts) ==
  /\ mon \in Seq(Devices) /\ non \in Seq(Devices) /\ opts \in Seq(Options)
  /\ Len(opts) = Len(mon) + Len(non)
  /\ Linked(opts, 0, mon) /\ Linked(opts, Len(mon), non)
  /\ \A d \in Devices : \E i \in 1..Len(opts) : opts[i].linkedGpu = d

\* The first list has the devices that are wanted, the second the others.
Split(mon, non, opts) ==
  /\ \A i \in 1..Len(mon) : Wanted(opts[i])
  /\ \A i \in 1..Len(non) : ~Wanted(opts[Len(mon) + i])

LEMMA LeaveAll ==
  ASSUME NEW mon \in Seq(Devices), NEW st, Leaving(st, 0, mon)
  PROVE  /\ Leaving(FoldLeft(Leave, st, mon), Len(mon), mon)
         /\ Len(FoldLeft(Leave, st, mon).opts) = Len(st.opts)
<1> DEFINE n == Len(mon)
<1>1. n \in Nat /\ DOMAIN mon = 1..n
  OBVIOUS
<1>2. FoldLeft(Leave, st, mon) = LeaveLoop!Fold(st, mon)
  BY Zenon DEF FoldLeft, MapThenFoldSet, Max, LeaveLoop!Fold
<1>3. \E f : /\ f[0] = st
             /\ \A k \in 1..n : f[k] = Leave(f[k - 1], mon[k])
             /\ f[n] = LeaveLoop!Fold(st, mon)
  BY <1>1, LeaveLoop!Steps
<1>4. PICK f : /\ f[0] = st
               /\ \A k \in 1..n : f[k] = Leave(f[k - 1], mon[k])
               /\ f[n] = LeaveLoop!Fold(st, mon)
  BY <1>3, Zenon
<1> DEFINE Good(k) == Leaving(f[k], k, mon) /\ Len(f[k].opts) = Len(st.opts)
           T == {k \in Nat : k <= n => Good(k)}
<1>5. 0 \in T
  BY <1>4
<1>6. ASSUME NEW k \in T
      PROVE  k + 1 \in T
  <2>1. k \in Nat /\ k + 1 \in Nat /\ (k + 1) - 1 = k
    OBVIOUS
  <2>2. SUFFICES ASSUME k + 1 <= n
                 PROVE  Good(k + 1)
    BY <2>1
  <2>3. k + 1 \in 1..n /\ k <= n
    BY <1>1, <2>1, <2>2
  <2>4. Good(k)
    BY <2>3
  <2>5. f[k + 1] = Leave(f[k], mon[k + 1])
    BY <1>4, <2>1, <2>3
  <2>6. Leaving(f[k], (k + 1) - 1, mon)
    BY <2>1, <2>4
  <2>7. /\ Leaving(Leave(f[k], mon[k + 1]), k + 1, mon)
        /\ Len(Leave(f[k], mon[k + 1]).opts) = Len(f[k].opts)
    BY <2>3, <2>6, LeaveStep
  <2> QED
    BY <2>4, <2>5, <2>7
<1> HIDE DEF T
<1>7. T = Nat
  <2>1. T \subseteq Nat
    BY DEF T
  <2> QED
    BY <1>5, <1>6, <2>1, LeaveLoop!Induction
<1>8. Good(n)
  BY <1>1, <1>7 DEF T
<1> QED
  BY <1>2, <1>4, <1>8

LEMMA ReturnAll ==
  ASSUME NEW rest \in Seq(Devices), NEW st, Returning(st, 0, rest)
  PROVE  /\ Returning(FoldLeft(Return, st, rest), Len(rest), rest)
         /\ Len(FoldLeft(Return, st, rest).opts) = Len(st.opts)
<1> DEFINE n == Len(rest)
<1>1. n \in Nat /\ DOMAIN rest = 1..n
  OBVIOUS
<1>2. FoldLeft(Return, st, rest) = ReturnLoop!Fold(st, rest)
  BY Zenon DEF FoldLeft, MapThenFoldSet, Max, ReturnLoop!Fold
<1>3. \E f : /\ f[0] = st
             /\ \A k \in 1..n : f[k] = Return(f[k - 1], rest[k])
             /\ f[n] = ReturnLoop!Fold(st, rest)
  BY <1>1, ReturnLoop!Steps
<1>4. PICK f : /\ f[0] = st
               /\ \A k \in 1..n : f[k] = Return(f[k - 1], rest[k])
               /\ f[n] = ReturnLoop!Fold(st, rest)
  BY <1>3, Zenon
<1> DEFINE Good(k) == Returning(f[k], k, rest) /\ Len(f[k].opts) = Len(st.opts)
           T == {k \in Nat : k <= n => Good(k)}
<1>5. 0 \in T
  BY <1>4
<1>6. ASSUME NEW k \in T
      PROVE  k + 1 \in T
  <2>1. k \in Nat /\ k + 1 \in Nat /\ (k + 1) - 1 = k
    OBVIOUS
  <2>2. SUFFICES ASSUME k + 1 <= n
                 PROVE  Good(k + 1)
    BY <2>1
  <2>3. k + 1 \in 1..n /\ k <= n
    BY <1>1, <2>1, <2>2
  <2>4. Good(k)
    BY <2>3
  <2>5. f[k + 1] = Return(f[k], rest[k + 1])
    BY <1>4, <2>1, <2>3
  <2>6. Returning(f[k], (k + 1) - 1, rest)
    BY <2>1, <2>4
  <2>7. /\ Returning(Return(f[k], rest[k + 1]), k + 1, rest)
        /\ Len(Return(f[k], rest[k + 1]).opts) = Len(f[k].opts)
    BY <2>3, <2>6, ReturnStep
  <2> QED
    BY <2>4, <2>5, <2>7
<1> HIDE DEF T
<1>7. T = Nat
  <2>1. T \subseteq Nat
    BY DEF T
  <2> QED
    BY <1>5, <1>6, <2>1, ReturnLoop!Induction
<1>8. Good(n)
  BY <1>1, <1>7 DEF T
<1> QED
  BY <1>2, <1>4, <1>8

\* What CheckAndFix makes of n options.
DevicesKept(st, n) ==
  /\ InSync(st.mon, st.non, st.opts) /\ Split(st.mon, st.non, st.opts)
  /\ st.count = Len(st.mon) /\ st.mon # <<>> /\ Len(st.opts) = n

LEMMA OneKept ==
  ASSUME NEW rest \in Seq(Devices), NEW st, Returning(st, Len(rest), rest)
  PROVE  DevicesKept(KeepOne(st), Len(st.opts))
<1> DEFINE m == Len(st.mon)  l == Len(st.non)  opts == st.opts  n == Len(opts)
<1>1. /\ st.mon \in Seq(Devices) /\ st.non \in Seq(Devices) /\ opts \in Seq(Options)
      /\ st = [mon |-> st.mon, non |-> st.non, opts |-> opts, idx |-> st.idx, count |-> st.count]
      /\ \A e \in Devices : \E i \in 1..n : opts[i].linkedGpu = e
      /\ st.count = m
      /\ Linked(opts, 0, st.mon) /\ Linked(opts, m, st.non)
      /\ \A i \in 1..m : Wanted(opts[i])
      /\ \A i \in 1..l : ~Wanted(opts[m + i])
  BY DEF Returning, LoopState
<1>2. m \in Nat /\ l \in Nat /\ n \in Nat /\ n = m + l
  <2>1. Len(rest) \in Nat /\ m \in Nat /\ l \in Nat /\ n \in Nat
    BY <1>1, LenProperties
  <2>2. n = m + l + (Len(rest) - Len(rest))
    BY DEF Returning
  <2> HIDE DEF m, l, n
  <2> QED
    BY <2>1, <2>2
<1>3. CASE m > 0
  <2>1. KeepOne(st) = st
    BY <1>1, <1>3 DEF KeepOne
  <2>2. st.mon # <<>>
    BY <1>3
  <2> QED
    BY <1>1, <1>2, <2>1, <2>2, Zenon DEF DevicesKept, InSync, Split
<1>4. CASE ~(m > 0)
  <2>1. m = 0 /\ n = l /\ st.mon = <<>>
    BY <1>1, <1>2, <1>4, EmptySeq
  <2>2. n > 0
    <3>1. PICK e \in Devices : TRUE
      BY DevicesAssumption
    <3>2. PICK i \in 1..n : opts[i].linkedGpu = e
      BY <1>1
    <3> HIDE DEF m, l, n
    <3>3. n \in Nat
      BY <1>2
    <3> QED
      BY <3>2, <3>3
  <2> DEFINE first == Head(st.non)  others == Tail(st.non)
             fixed == [opts EXCEPT ![1].doNotMonitor = FALSE]
             new == KeepOne(st)
  <2>3. ~(st.count > 0)
    BY <1>1, <1>4
  <2>4. new = [mon |-> <<first>>, non |-> others, opts |-> fixed, idx |-> st.idx, count |-> 1]
    BY <1>1, <2>3 DEF KeepOne
  <2>5. new.mon = <<first>> /\ new.non = others /\ new.opts = fixed /\ new.count = 1
    BY <2>4
  <2>6. /\ st.non # <<>> /\ first = st.non[1] /\ first \in Devices /\ others \in Seq(Devices)
        /\ Len(others) = l - 1 /\ \A i \in 1..(l - 1) : others[i] = st.non[i + 1]
    <3>1. st.non # <<>>
      BY <1>2, <2>1, <2>2
    <3> QED
      BY <1>1, <1>2, <3>1, HeadTailProperties
  <2>7. /\ fixed \in Seq(Options) /\ Len(fixed) = n
        /\ \A i \in 1..n : fixed[i].linkedGpu = opts[i].linkedGpu
        /\ \A i \in 2..n : fixed[i] = opts[i]
        /\ Wanted(fixed[1])
    <3> DEFINE o == [opts[1] EXCEPT !.doNotMonitor = FALSE]
    <3>1. 1 \in 1..n /\ opts[1] \in Options
      BY <1>1, <1>2, <2>2
    <3>2. o \in Options /\ o.linkedGpu = opts[1].linkedGpu /\ ~o.doNotMonitor
      BY <3>1 DEF Options
    <3>3. fixed = [opts EXCEPT ![1] = o]
      OBVIOUS
    <3> HIDE DEF o, fixed
    <3>4. fixed \in Seq(Options) /\ Len(fixed) = n
      BY <1>1, <3>1, <3>2, <3>3, ExceptSeq
    <3>5. fixed[1] = o /\ \A i \in 2..n : fixed[i] = opts[i]
      BY <1>1, <3>1, <3>3
    <3> QED
      BY <3>2, <3>4, <3>5 DEF Wanted
  <2> HIDE DEF fixed, new, first, others
  <2>8. /\ <<first>> \in Seq(Devices) /\ Len(<<first>>) = 1 /\ <<first>>[1] = first
        /\ <<first>> # <<>>
    BY <2>6
  <2> DEFINE one == <<first>>
  <2>9. one \in Seq(Devices) /\ Len(one) = 1 /\ one[1] = first /\ one # <<>> /\ new.mon = one
    BY <2>5, <2>8
  <2> HIDE DEF one
  <2>10. \A i \in 1..l : opts[i].linkedGpu = st.non[i] /\ ~Wanted(opts[i])
    <3>1. \A i \in 1..l : opts[m + i].linkedGpu = st.non[i] /\ ~Wanted(opts[m + i])
      BY <1>1 DEF Linked
    <3>2. \A i \in 1..l : m + i = i
      BY <2>1
    <3> QED
      BY <3>1, <3>2
  <2>11. Linked(fixed, 0, one) /\ \A i \in 1..1 : Wanted(fixed[i])
    <3>1. \A i \in 1..1 : i = 1 /\ 0 + i = 1
      OBVIOUS
    <3>2. fixed[1].linkedGpu = one[1]
      <4>1. 1 \in 1..n /\ 1 \in 1..l
        BY <1>2, <2>1, <2>2
      <4> QED
        BY <2>6, <2>7, <2>9, <2>10, <4>1
    <3> QED
      BY <2>7, <2>9, <3>1, <3>2, Zenon DEF Linked
  <2>12. ASSUME NEW i \in 1..(l - 1)
         PROVE  fixed[1 + i].linkedGpu = others[i] /\ ~Wanted(fixed[1 + i])
    <3>1. 1 + i \in 2..n /\ 1 + i \in 1..l /\ 1 + i = i + 1
      BY <1>2, <2>1
    <3> QED
      BY <2>6, <2>7, <2>10, <3>1
  <2>13. Linked(fixed, 1, others) /\ \A i \in 1..(l - 1) : ~Wanted(fixed[1 + i])
    BY <2>6, <2>12, Zenon DEF Linked
  <2>14. \A e \in Devices : \E i \in 1..n : fixed[i].linkedGpu = e
    BY <1>1, <2>7
  <2>15. n = 1 + (l - 1)
    BY <1>2, <2>1
  <2>16. /\ InSync(one, others, fixed) /\ Split(one, others, fixed)
    BY <2>6, <2>7, <2>9, <2>11, <2>13, <2>14, <2>15 DEF InSync, Split
  <2> QED
    BY <2>5, <2>7, <2>9, <2>16 DEF DevicesKept, new
<1> QED
  BY <1>2, <1>3, <1>4

SecondRound(st) == [st EXCEPT !.non = <<>>, !.count = Len(st.mon)]

LEMMA SecondRoundIs ==
  ASSUME NEW st,
         st = [mon |-> st.mon, non |-> st.non, opts |-> st.opts, idx |-> st.idx, count |-> st.count]
  PROVE  SecondRound(st)
           = [mon |-> st.mon, non |-> <<>>, opts |-> st.opts, idx |-> st.idx, count |-> Len(st.mon)]
<1> DEFINE mon == st.mon  non == st.non  opts == st.opts  idx == st.idx  count == st.count
           number == Len(st.mon)
           new == [st EXCEPT !.non = <<>>]
<1>1. st = [mon |-> mon, non |-> non, opts |-> opts, idx |-> idx, count |-> count]
  OBVIOUS
<1> HIDE DEF mon, non, opts, idx, count, number
<1>2. new = [mon |-> mon, non |-> <<>>, opts |-> opts, idx |-> idx, count |-> count]
  BY <1>1
<1>3. SecondRound(st) = [new EXCEPT !.count = number]
  BY DEF SecondRound, number
<1> HIDE DEF new
<1>4. [new EXCEPT !.count = number]
        = [mon |-> mon, non |-> <<>>, opts |-> opts, idx |-> idx, count |-> number]
  BY <1>2
<1> QED
  BY <1>3, <1>4 DEF mon, opts, idx, number

LEMMA Fixed ==
  ASSUME NEW mon, NEW non, NEW opts, InSync(mon, non, opts)
  PROVE  DevicesKept(CheckAndFix(mon, non, opts), Len(opts))
<1> DEFINE st == [mon |-> <<>>, non |-> non, opts |-> opts, idx |-> 1, count |-> 0]
           left == FoldLeft(Leave, st, mon)
           start == SecondRound(left)
           back == FoldLeft(Return, start, left.non)
<1>1. CheckAndFix(mon, non, opts) = KeepOne(back)
  BY Zenon DEF CheckAndFix, SecondRound
<1>2. /\ mon \in Seq(Devices) /\ non \in Seq(Devices) /\ opts \in Seq(Options)
      /\ Len(mon) \in Nat /\ Len(non) \in Nat /\ Len(opts) = Len(mon) + Len(non)
  BY LenProperties DEF InSync
<1>3. Leaving(st, 0, mon)
  <2>1. /\ st.mon = <<>> /\ st.non = non /\ st.opts = opts /\ st.idx = 1 /\ st.count = 0
        /\ st = [mon |-> st.mon, non |-> st.non, opts |-> st.opts, idx |-> st.idx, count |-> st.count]
        /\ <<>> \in Seq(Devices) /\ Len(<<>>) = 0
    OBVIOUS
  <2> HIDE DEF st
  <2>2. LoopState(st)
    BY <1>2, <2>1 DEF LoopState, InSync
  <2>3. /\ st.idx = Len(st.mon) + 1 /\ Len(st.opts) = Len(st.mon) + (Len(mon) - 0) + Len(st.non)
        /\ 0 + (Len(mon) - 0) = Len(mon) /\ Len(mon) - 0 = Len(mon) /\ Len(st.mon) = 0
    BY <1>2, <2>1
  <2>4. Linked(st.opts, 0, st.mon) /\ \A i \in 1..Len(st.mon) : Wanted(st.opts[i])
    BY <2>3 DEF Linked
  <2>5. Linked(st.opts, 0, mon) /\ Linked(st.opts, Len(mon), st.non)
    BY <2>1 DEF InSync
  <2>6. \A i \in 1..(Len(mon) - 0) : st.opts[Len(st.mon) + i].linkedGpu = mon[0 + i]
    <3>1. \A i \in 1..Len(mon) : 0 + i = i
      OBVIOUS
    <3> QED
      BY <2>3, <2>5, <3>1 DEF Linked
  <2> QED
    BY <2>2, <2>3, <2>4, <2>5, <2>6 DEF Leaving
<1> HIDE DEF st
<1>4. Leaving(left, Len(mon), mon) /\ Len(left.opts) = Len(opts)
  <2>1. st.opts = opts
    BY DEF st
  <2> QED
    BY <1>2, <1>3, <2>1, LeaveAll
<1> HIDE DEF left
<1>5. Returning(start, 0, left.non) /\ start.opts = left.opts
  <2>1. /\ left = [mon |-> left.mon, non |-> left.non, opts |-> left.opts, idx |-> left.idx,
                   count |-> left.count]
        /\ left.mon \in Seq(Devices) /\ left.non \in Seq(Devices) /\ left.opts \in Seq(Options)
        /\ \A d \in Devices : \E i \in 1..Len(left.opts) : left.opts[i].linkedGpu = d
        /\ left.idx = Len(left.mon) + 1
        /\ Len(left.opts) = Len(left.mon) + (Len(mon) - Len(mon)) + Len(left.non)
        /\ Linked(left.opts, 0, left.mon)
        /\ \A i \in 1..Len(left.mon) : Wanted(left.opts[i])
        /\ Linked(left.opts, Len(left.mon) + (Len(mon) - Len(mon)), left.non)
    BY <1>4 DEF Leaving, LoopState
  <2>2. start = [mon |-> left.mon, non |-> <<>>, opts |-> left.opts, idx |-> left.idx,
                 count |-> Len(left.mon)]
    <3>1. left = [mon |-> left.mon, non |-> left.non, opts |-> left.opts, idx |-> left.idx,
                  count |-> left.count]
      BY <2>1
    <3> QED
      BY <3>1, SecondRoundIs
  <2>3. /\ start.mon = left.mon /\ start.non = <<>> /\ start.opts = left.opts
        /\ start.idx = left.idx /\ start.count = Len(left.mon)
        /\ start = [mon |-> start.mon, non |-> start.non, opts |-> start.opts, idx |-> start.idx,
                    count |-> start.count]
    BY <2>2
  <2> HIDE DEF start
  <2>4. <<>> \in Seq(Devices) /\ Len(<<>>) = 0
    OBVIOUS
  <2> DEFINE m == Len(left.mon)  l == Len(left.non)
  <2>5. m \in Nat /\ l \in Nat /\ Len(mon) \in Nat
    BY <1>2, <2>1, LenProperties
  <2>6. /\ left.idx = m + 1 /\ Len(left.opts) = m + (Len(mon) - Len(mon)) + l
        /\ Linked(left.opts, m + (Len(mon) - Len(mon)), left.non)
        /\ Len(start.mon) = m /\ Len(start.non) = 0
    BY <2>1, <2>3, <2>4
  <2> HIDE DEF m, l
  <2>7. /\ m + (Len(mon) - Len(mon)) = m /\ m + 1 = m + 0 + 1 /\ m + l = m + 0 + (l - 0)
        /\ m + (Len(mon) - Len(mon)) + l = m + 0 + (l - 0) /\ m + 0 = m /\ l - 0 = l
        /\ \A i \in 1..l : 0 + i = i
    BY <2>5
  <2>8. LoopState(start)
    BY <2>1, <2>3, <2>4 DEF LoopState
  <2>9. /\ Linked(start.opts, m, start.non)
        /\ \A i \in 1..Len(start.non) : ~Wanted(start.opts[m + i])
    BY <2>6 DEF Linked
  <2>10. \A i \in 1..l : start.opts[m + i].linkedGpu = left.non[i]
    BY <2>3, <2>6, <2>7 DEF Linked, l
  <2> QED
    BY <2>1, <2>3, <2>6, <2>7, <2>8, <2>9, <2>10 DEF Returning, m, l
<1>6. left.non \in Seq(Devices)
  BY <1>4 DEF Leaving, LoopState
<1> HIDE DEF start
<1>7. Returning(back, Len(left.non), left.non) /\ Len(back.opts) = Len(opts)
  BY <1>4, <1>5, <1>6, ReturnAll
<1> HIDE DEF back
<1> QED
  BY <1>1, <1>6, <1>7, OneKept

-----------------------------------------------------------------------------
(* The rings and their series.                                              *)

Series == [1..MaxLines -> Seq(Samples)]

\* A metric drawn has a series, and has it for itself.
LEMMA OwnSeries ==
  ASSUME NEW S \in ToDraw, NEW m \in S
  PROVE  /\ SeriesOf(m, S) \in 1..MaxLines
         /\ \A n \in S : SeriesOf(n, S) = SeriesOf(m, S) => n = m
<1> DEFINE Below(n) == {x \in S : x <= n}
<1>1. /\ S \subseteq Nat /\ IsFiniteSet(S) /\ Cardinality(S) \in Nat /\ Cardinality(S) <= MaxLines
  <2>1. S \subseteq Metrics /\ Cardinality(S) <= MaxLines
    BY DEF ToDraw
  <2>2. IsFiniteSet(S) /\ S \subseteq Nat
    BY <2>1, MetricsAssumption, FS_Subset
  <2> QED
    BY <2>1, <2>2, FS_CardinalityType
<1>2. ASSUME NEW n \in S
      PROVE  /\ IsFiniteSet(Below(n)) /\ Cardinality(Below(n)) \in Nat
             /\ Cardinality(Below(n)) <= Cardinality(S) /\ n \in Below(n)
  <2>1. Below(n) \subseteq S /\ n \in Below(n)
    BY <1>1
  <2>2. IsFiniteSet(Below(n)) /\ Cardinality(Below(n)) <= Cardinality(S)
    BY <1>1, <2>1, FS_Subset
  <2> QED
    BY <2>1, <2>2, FS_CardinalityType
<1>3. \A n \in S : SeriesOf(n, S) = Cardinality(Below(n))
  BY DEF SeriesOf
<1>4. ASSUME NEW n \in S, NEW p \in S, n < p, Cardinality(Below(n)) = Cardinality(Below(p))
      PROVE  FALSE
  <2>1. Below(n) \subseteq Below(p) /\ p \in Below(p) /\ p \notin Below(n)
    <3>1. \A x \in S : x \in Nat
      BY <1>1
    <3>2. n \in Nat /\ p \in Nat /\ ~(p <= n) /\ p <= p /\ \A x \in S : x <= n => x <= p
      BY <1>4, <3>1
    <3> QED
      BY <3>2
  <2>2. Below(n) = Below(p)
    BY <1>2, <1>4, <2>1, FS_Subset
  <2> QED
    BY <2>1, <2>2
<1>5. Cardinality(Below(m)) # 0
  BY <1>2, FS_EmptySet
<1>6. Cardinality(Below(m)) \in 1..MaxLines
  <2> HIDE DEF Below
  <2> QED
    BY <1>1, <1>2, <1>5, LinesAssumption
<1> HIDE DEF Below
<1>7. ASSUME NEW n \in S, SeriesOf(n, S) = SeriesOf(m, S)
      PROVE  n = m
  <2>1. n \in Nat /\ m \in Nat
    BY <1>1
  <2>2. Cardinality(Below(n)) = Cardinality(Below(m))
    BY <1>3, <1>7
  <2>3. ~(n < m) /\ ~(m < n)
    BY <1>4, <2>2
  <2> QED
    BY <2>1, <2>3
<1> QED
  BY <1>3, <1>6, <1>7

\* What is added to a series.
LEMMA Remembered ==
  ASSUME NEW q \in Seq(Samples), NEW v \in Samples
  PROVE  /\ Remember(q, v) \in Seq(Samples)
         /\ \A s \in ToSet(Remember(q, v)) : s \in ToSet(q) \/ s = v
<1>1. ASSUME NEW t \in Seq(Samples)
      PROVE  /\ Append(t, v) \in Seq(Samples)
             /\ \A s \in ToSet(Append(t, v)) : s \in ToSet(t) \/ s = v
  <2>1. /\ Append(t, v) \in Seq(Samples) /\ Len(Append(t, v)) = Len(t) + 1 /\ Len(t) \in Nat
        /\ \A i \in 1..Len(t) : Append(t, v)[i] = t[i]
        /\ Append(t, v)[Len(t) + 1] = v
    OBVIOUS
  <2>2. ASSUME NEW i \in 1..(Len(t) + 1)
        PROVE  Append(t, v)[i] = v \/ \E j \in 1..Len(t) : Append(t, v)[i] = t[j]
    <3>1. i = Len(t) + 1 \/ i \in 1..Len(t)
      BY <2>1
    <3> QED
      BY <2>1, <3>1
  <2>3. DOMAIN Append(t, v) = 1..(Len(t) + 1) /\ DOMAIN t = 1..Len(t)
    BY <2>1
  <2> QED
    BY <2>1, <2>2, <2>3, ZenonT(60) DEF ToSet
<1>2. CASE Len(q) < Depth
  BY <1>1, <1>2 DEF Remember
<1>3. CASE ~(Len(q) < Depth)
  <2>1. q # <<>>
    BY <1>3, DepthAssumption
  <2>2. /\ Tail(q) \in Seq(Samples) /\ Len(q) \in Nat /\ Len(Tail(q)) = Len(q) - 1
        /\ \A i \in 1..(Len(q) - 1) : Tail(q)[i] = q[i + 1]
    BY <2>1, HeadTailProperties
  <2>3. \A s \in ToSet(Tail(q)) : s \in ToSet(q)
    <3>1. DOMAIN Tail(q) = 1..(Len(q) - 1) /\ DOMAIN q = 1..Len(q)
      BY <2>2
    <3>2. ASSUME NEW i \in 1..(Len(q) - 1)
          PROVE  \E j \in 1..Len(q) : Tail(q)[i] = q[j]
      <4>1. i + 1 \in 1..Len(q)
        BY <2>2
      <4> QED
        BY <2>2, <4>1
    <3> QED
      BY <3>1, <3>2, Zenon DEF ToSet
  <2>4. Remember(q, v) = Append(Tail(q), v)
    BY <1>3 DEF Remember
  <2> QED
    BY <1>1, <2>2, <2>3, <2>4
<1> QED
  BY <1>2, <1>3

LEMMA EmptySeries ==
  /\ [k \in 1..MaxLines |-> <<>>] \in Series
  /\ \A k \in 1..MaxLines : ToSet([j \in 1..MaxLines |-> <<>>][k]) = {}
<1>1. <<>> \in Seq(Samples) /\ DOMAIN <<>> = {}
  OBVIOUS
<1>2. \A k \in 1..MaxLines : [j \in 1..MaxLines |-> <<>>][k] = <<>>
  OBVIOUS
<1> QED
  BY <1>1, <1>2 DEF Series, ToSet

LEMMA EmptyRings ==
  ASSUME NEW n \in Nat
  PROVE  /\ EmptyRing(n) \in Seq(Series) /\ Len(EmptyRing(n)) = n
         /\ \A i \in 1..n : \A k \in 1..MaxLines : ToSet(EmptyRing(n)[i][k]) = {}
<1> DEFINE none == [k \in 1..MaxLines |-> <<>>]
<1>1. none \in Series /\ \A k \in 1..MaxLines : ToSet(none[k]) = {}
  BY EmptySeries
<1>2. EmptyRing(n) = [i \in 1..n |-> none]
  BY DEF EmptyRing
<1> HIDE DEF none
<1> QED
  BY <1>1, <1>2

LEMMA EmptiedRing ==
  ASSUME NEW ring \in Seq(Series), NEW i \in 1..Len(ring)
  PROVE  /\ Emptied(ring, i) \in Seq(Series) /\ Len(Emptied(ring, i)) = Len(ring)
         /\ \A k \in 1..MaxLines : ToSet(Emptied(ring, i)[i][k]) = {}
         /\ \A j \in 1..Len(ring) : j # i => Emptied(ring, i)[j] = ring[j]
<1> DEFINE none == [k \in 1..MaxLines |-> <<>>]
<1>1. none \in Series /\ \A k \in 1..MaxLines : ToSet(none[k]) = {}
  BY EmptySeries
<1>2. Emptied(ring, i) = [ring EXCEPT ![i] = none]
  BY DEF Emptied
<1> HIDE DEF none
<1>3. [ring EXCEPT ![i] = none] \in Seq(Series) /\ Len([ring EXCEPT ![i] = none]) = Len(ring)
  BY <1>1, ExceptSeq
<1>4. /\ [ring EXCEPT ![i] = none][i] = none
      /\ \A j \in 1..Len(ring) : j # i => [ring EXCEPT ![i] = none][j] = ring[j]
  OBVIOUS
<1> QED
  BY <1>1, <1>2, <1>3, <1>4

-----------------------------------------------------------------------------
(* The invariant.                                                           *)

Synced ==
  /\ InSync(monitored, nonMonitored, gpu_specific_opts)
  /\ Len(gpu_specific_opts) = Cardinality(Devices)
  /\ monitored # <<>>
  /\ ~has_monitored_set_changed => Split(monitored, nonMonitored, gpu_specific_opts)

Rings ==
  /\ saved_data_ring \in Seq(Series) /\ Len(saved_data_ring) = Len(monitored)
  /\ SeriesMatchLegend

Flags ==
  has_monitored_set_changed \in BOOLEAN /\ visible \in BOOLEAN /\ pc \in {"top", "save", "key"}

PlotsInv == Synced /\ Rings /\ Flags

LEMMA InvImplies == PlotsInv => TypeOK /\ OptionsInSync /\ SeriesMatchLegend
<1> SUFFICES ASSUME PlotsInv
             PROVE  TypeOK /\ OptionsInSync /\ SeriesMatchLegend
  OBVIOUS
<1> DEFINE mon == monitored  non == nonMonitored  opts == gpu_specific_opts
           m == Len(mon)  l == Len(non)  n == Len(opts)
<1>1. /\ mon \in Seq(Devices) /\ non \in Seq(Devices) /\ opts \in Seq(Options)
      /\ n = m + l /\ Linked(opts, 0, mon) /\ Linked(opts, m, non)
      /\ \A d \in Devices : \E i \in 1..n : opts[i].linkedGpu = d
      /\ n = Cardinality(Devices) /\ mon # <<>>
  BY DEF PlotsInv, Synced, InSync
<1>2. m \in Nat /\ l \in Nat /\ n \in Nat
  BY <1>1, LenProperties
<1>3. TypeOK
  BY <1>1 DEF PlotsInv, Rings, Flags, TypeOK, Series
<1>4. ASSUME NEW i \in 1..n
      PROVE  \/ i \in 1..m /\ opts[i].linkedGpu = mon[i]
             \/ i > m /\ i - m \in 1..l /\ opts[i].linkedGpu = non[i - m]
  <2> HIDE DEF m, l, n
  <2>1. i \in 1..m \/ (i > m /\ i - m \in 1..l /\ m + (i - m) = i)
    BY <1>1, <1>2
  <2>2. CASE i \in 1..m
    <3>1. 0 + i = i /\ opts[0 + i].linkedGpu = mon[i]
      BY <1>1, <2>2 DEF Linked, m
    <3> QED
      BY <2>2, <3>1
  <2>3. CASE i > m /\ i - m \in 1..l /\ m + (i - m) = i
    <3>1. opts[m + (i - m)].linkedGpu = non[i - m]
      BY <1>1, <2>3 DEF Linked, l
    <3> QED
      BY <2>3, <3>1
  <2> QED
    BY <2>1, <2>2, <2>3
<1> HIDE DEF mon, non, opts, m, l, n
<1>5. \A i \in 1..n : opts[i].linkedGpu = (mon \o non)[i]
  <2>1. \A i \in 1..(m + l) : (mon \o non)[i] = IF i <= m THEN mon[i] ELSE non[i - m]
    BY <1>1, ConcatProperties DEF m, l
  <2> SUFFICES ASSUME NEW i \in 1..n
               PROVE  opts[i].linkedGpu = (mon \o non)[i]
    OBVIOUS
  <2>2. i \in 1..(m + l) /\ i \in Nat
    BY <1>1, <1>2
  <2>3. CASE i \in 1..m /\ opts[i].linkedGpu = mon[i]
    <3>1. i <= m
      BY <1>2, <2>3
    <3> QED
      BY <2>1, <2>2, <2>3, <3>1, Zenon
  <2>4. CASE i > m /\ i - m \in 1..l /\ opts[i].linkedGpu = non[i - m]
    <3>1. ~(i <= m)
      BY <1>2, <2>2, <2>4
    <3> QED
      BY <2>1, <2>2, <2>4, <3>1, Zenon
  <2> QED
    BY <1>4, <2>3, <2>4
<1>6. ToSet(mon) \cup ToSet(non) = Devices
  <2>1. /\ DOMAIN mon = 1..m /\ DOMAIN non = 1..l
        /\ \A i \in 1..m : mon[i] \in Devices
        /\ \A i \in 1..l : non[i] \in Devices
    BY <1>1 DEF m, l
  <2>2. ASSUME NEW d \in Devices
        PROVE  d \in ToSet(mon) \cup ToSet(non)
    <3>1. PICK i \in 1..n : opts[i].linkedGpu = d
      BY <1>1
    <3> QED
      BY <1>4, <2>1, <3>1, Zenon DEF ToSet
  <2>3. ToSet(mon) \subseteq Devices /\ ToSet(non) \subseteq Devices
    BY <2>1, Zenon DEF ToSet
  <2> QED
    BY <2>2, <2>3
<1>7. ~has_monitored_set_changed =>
        \A i \in 1..n : opts[i].doNotMonitor <=> i > m
  <2> SUFFICES ASSUME ~has_monitored_set_changed, NEW i \in 1..n
               PROVE  opts[i].doNotMonitor <=> i > m
    OBVIOUS
  <2>1. /\ \A j \in 1..m : ~opts[j].doNotMonitor
        /\ \A j \in 1..l : opts[m + j].doNotMonitor
    BY DEF PlotsInv, Synced, Split, Wanted, mon, non, opts, m, l
  <2>2. CASE i \in 1..m
    <3>1. ~(i > m)
      BY <1>2, <2>2
    <3> QED
      BY <2>1, <2>2, <3>1, Zenon
  <2>3. CASE i > m /\ i - m \in 1..l
    <3>1. m + (i - m) = i
      BY <1>2, <2>3
    <3>2. opts[m + (i - m)].doNotMonitor
      BY <2>1, <2>3, Zenon
    <3> QED
      BY <2>3, <3>1, <3>2, Zenon
  <2> QED
    BY <1>4, <2>2, <2>3
<1>8. MonitoredAsAsked
  BY <1>1, <1>6, <1>7, Zenon DEF MonitoredAsAsked, mon, non, opts, m, l, n
<1>9. OptionsInSync
  <2>1. Len(saved_data_ring) = m
    BY DEF PlotsInv, Rings, m, mon
  <2> QED
    BY <1>1, <1>5, <1>8, <2>1, Zenon DEF OptionsInSync, mon, non, opts, m, l, n
<1> QED
  BY <1>3, <1>9 DEF PlotsInv, Rings

\* SeriesMatchLegend, of any lists, options and rings.
Matching(mon, opts, ring) ==
  \A i \in 1..Len(mon) :
    \A m \in opts[i].to_draw :
      \A s \in ToSet(ring[i][SeriesOf(m, opts[i].to_draw)]) : s = <<mon[i], m>>

LEMMA NothingToMatch ==
  ASSUME NEW mon \in Seq(Devices), NEW opts \in Seq(Options), Len(mon) <= Len(opts)
  PROVE  Matching(mon, opts, EmptyRing(Len(mon)))
<1> SUFFICES ASSUME NEW i \in 1..Len(mon), NEW m \in opts[i].to_draw
             PROVE  ToSet(EmptyRing(Len(mon))[i][SeriesOf(m, opts[i].to_draw)]) = {}
  BY Zenon DEF Matching
<1>1. Len(mon) \in Nat /\ Len(opts) \in Nat
  OBVIOUS
<1>2. i \in 1..Len(opts)
  BY <1>1
<1>3. opts[i].to_draw \in ToDraw
  <2>1. opts[i] \in Options
    BY <1>2
  <2> QED
    BY <2>1 DEF Options
<1>4. SeriesOf(m, opts[i].to_draw) \in 1..MaxLines
  BY <1>3, OwnSeries
<1> QED
  BY <1>1, <1>4, EmptyRings

\* The options keep their devices.
LEMMA StillInSync ==
  ASSUME NEW mon, NEW non, NEW opts, InSync(mon, non, opts),
         NEW o \in Seq(Options), Len(o) = Len(opts),
         \A i \in 1..Len(opts) : o[i].linkedGpu = opts[i].linkedGpu
  PROVE  /\ InSync(mon, non, o)
         /\ (\A i \in 1..Len(opts) : o[i].doNotMonitor = opts[i].doNotMonitor) =>
              (Split(mon, non, opts) => Split(mon, non, o))
<1> DEFINE m == Len(mon)  l == Len(non)  n == Len(opts)
<1>1. /\ mon \in Seq(Devices) /\ non \in Seq(Devices) /\ opts \in Seq(Options)
      /\ n = m + l /\ Linked(opts, 0, mon) /\ Linked(opts, m, non)
      /\ \A d \in Devices : \E i \in 1..n : opts[i].linkedGpu = d
  BY DEF InSync
<1>2. m \in Nat /\ l \in Nat
  BY <1>1, LenProperties
<1> HIDE DEF m, l, n
<1>3. /\ \A i \in 1..m : i \in 1..n /\ 0 + i = i
      /\ \A i \in 1..l : m + i \in 1..n
  BY <1>1, <1>2
<1>4. Linked(o, 0, mon) /\ Linked(o, m, non)
  <2>1. /\ \A i \in 1..m : opts[0 + i].linkedGpu = mon[i]
        /\ \A i \in 1..l : opts[m + i].linkedGpu = non[i]
    BY <1>1 DEF Linked, m, l
  <2>2. /\ \A i \in 1..m : o[0 + i].linkedGpu = mon[i]
        /\ \A i \in 1..l : o[m + i].linkedGpu = non[i]
    BY <1>3, <2>1 DEF n
  <2> QED
    BY <2>2 DEF Linked, m, l
<1>5. InSync(mon, non, o)
  <2>1. \A d \in Devices : \E i \in 1..Len(o) : o[i].linkedGpu = d
    BY <1>1 DEF n
  <2> QED
    BY <1>1, <1>4, <2>1 DEF InSync, m, l, n
<1>6. ASSUME \A i \in 1..n : o[i].doNotMonitor = opts[i].doNotMonitor, Split(mon, non, opts)
      PROVE  Split(mon, non, o)
  <2>1. /\ \A i \in 1..m : ~opts[i].doNotMonitor
        /\ \A i \in 1..l : opts[m + i].doNotMonitor
    BY <1>6 DEF Split, Wanted, m, l
  <2>2. /\ \A i \in 1..m : ~o[i].doNotMonitor
        /\ \A i \in 1..l : o[m + i].doNotMonitor
    BY <1>3, <1>6, <2>1, Zenon
  <2> QED
    BY <2>2 DEF Split, Wanted, m, l
<1> QED
  BY <1>5, <1>6 DEF n

-----------------------------------------------------------------------------
(* Its steps.                                                               *)

LEMMA PlotsInit == Init => PlotsInv
<1> SUFFICES ASSUME Init
             PROVE  PlotsInv
  OBVIOUS
<1> DEFINE c == Cardinality(Devices)
           start(order, draw, off) ==
             [i \in 1..Len(order) |-> [linkedGpu |-> order[i], to_draw |-> draw[order[i]],
                                       doNotMonitor |-> off[order[i]]]]
<1>1. PICK order \in SetToSeqs(Devices), draw \in [Devices -> ToDraw], off \in [Devices -> BOOLEAN] :
        LET fixed == CheckAndFix(order, <<>>, start(order, draw, off))
        IN /\ monitored = fixed.mon /\ nonMonitored = fixed.non
           /\ gpu_specific_opts = fixed.opts
           /\ saved_data_ring = EmptyRing(fixed.count)
  BY Zenon DEF Init
<1> DEFINE opts == start(order, draw, off)
           fixed == CheckAndFix(order, <<>>, opts)
<1>2. c \in Nat /\ IsFiniteSet(Devices)
  BY DevicesAssumption, FS_CardinalityType
<1>3. /\ order \in [1..c -> Devices]
      /\ \A i, j \in 1..c : i # j => order[i] # order[j]
  BY Zenon DEF SetToSeqs
<1> HIDE DEF c
<1>4. order \in Seq(Devices) /\ Len(order) = c
  BY <1>2, <1>3
<1>5. \A d \in Devices : \E i \in 1..c : order[i] = d
  <2>1. order \in Injection(1..c, Devices)
    BY <1>3, Zenon DEF Injection, IsInjective
  <2>2. IsFiniteSet(1..c) /\ Cardinality(1..c) = c
    BY <1>2, FS_Interval
  <2>3. order \in Surjection(1..c, Devices)
    BY <1>2, <2>1, <2>2, FS_Injection DEF c
  <2> QED
    BY <2>3, Zenon DEF Surjection
<1>6. ASSUME NEW i \in 1..c
      PROVE  opts[i] \in Options /\ opts[i].linkedGpu = order[i]
  <2>1. order[i] \in Devices
    BY <1>3
  <2>2. draw[order[i]] \in ToDraw /\ off[order[i]] \in BOOLEAN
    BY <2>1
  <2>3. opts[i] = [linkedGpu |-> order[i], to_draw |-> draw[order[i]], doNotMonitor |-> off[order[i]]]
    BY <1>4
  <2> QED
    BY <2>1, <2>2, <2>3 DEF Options
<1>7. opts = [i \in 1..c |-> opts[i]]
  BY <1>4
<1> HIDE DEF opts
<1>8. opts \in Seq(Options) /\ Len(opts) = c
  BY <1>2, <1>6, <1>7
<1>9. InSync(order, <<>>, opts)
  <2>1. <<>> \in Seq(Devices) /\ Len(<<>>) = 0 /\ c = c + 0 /\ \A i \in 1..c : 0 + i = i
    BY <1>2
  <2>2. Linked(opts, 0, order)
    BY <1>4, <1>6, <2>1 DEF Linked
  <2>3. Linked(opts, c, <<>>)
    BY <2>1 DEF Linked
  <2>4. \A d \in Devices : \E i \in 1..c : opts[i].linkedGpu = d
    BY <1>5, <1>6
  <2> QED
    BY <1>4, <1>8, <2>1, <2>2, <2>3, <2>4 DEF InSync
<1>10. DevicesKept(fixed, c)
  BY <1>8, <1>9, Fixed
<1>11. /\ monitored = fixed.mon /\ nonMonitored = fixed.non /\ gpu_specific_opts = fixed.opts
       /\ saved_data_ring = EmptyRing(fixed.count)
  BY <1>1, Zenon DEF opts
<1> HIDE DEF fixed
<1>12. /\ InSync(monitored, nonMonitored, gpu_specific_opts)
       /\ Split(monitored, nonMonitored, gpu_specific_opts)
       /\ monitored # <<>> /\ Len(gpu_specific_opts) = c
       /\ saved_data_ring = EmptyRing(Len(monitored))
  BY <1>10, <1>11, Zenon DEF DevicesKept
<1>13. Synced
  BY <1>12 DEF Synced, c
<1>14. Rings
  <2>1. /\ monitored \in Seq(Devices) /\ gpu_specific_opts \in Seq(Options)
        /\ Len(gpu_specific_opts) = Len(monitored) + Len(nonMonitored)
        /\ Len(monitored) \in Nat /\ Len(nonMonitored) \in Nat
    BY <1>12, LenProperties DEF InSync
  <2>2. Len(monitored) <= Len(gpu_specific_opts)
    BY <2>1
  <2>3. Matching(monitored, gpu_specific_opts, saved_data_ring)
    BY <1>12, <2>1, <2>2, NothingToMatch
  <2> QED
    BY <1>12, <2>1, <2>3, EmptyRings DEF Rings, SeriesMatchLegend, Matching
<1>15. Flags
  BY DEF Init, Flags
<1> QED
  BY <1>13, <1>14, <1>15 DEF PlotsInv

LEMMA InvFacts ==
  ASSUME PlotsInv
  PROVE  /\ monitored \in Seq(Devices) /\ gpu_specific_opts \in Seq(Options)
         /\ saved_data_ring \in Seq(Series) /\ Len(saved_data_ring) = Len(monitored)
         /\ Len(monitored) \in Nat /\ Len(gpu_specific_opts) \in Nat
         /\ Len(monitored) <= Len(gpu_specific_opts)
         /\ \A i \in 1..Len(monitored) : i \in 1..Len(gpu_specific_opts)
         /\ \A i \in 1..Len(gpu_specific_opts) :
              gpu_specific_opts[i] \in Options /\ gpu_specific_opts[i].to_draw \in ToDraw
<1> DEFINE m == Len(monitored)  l == Len(nonMonitored)  n == Len(gpu_specific_opts)
<1>1. /\ monitored \in Seq(Devices) /\ nonMonitored \in Seq(Devices)
      /\ gpu_specific_opts \in Seq(Options) /\ n = m + l
      /\ saved_data_ring \in Seq(Series) /\ Len(saved_data_ring) = m
  BY DEF PlotsInv, Synced, InSync, Rings
<1>2. m \in Nat /\ l \in Nat /\ n \in Nat
  BY <1>1, LenProperties
<1>3. \A i \in 1..n : gpu_specific_opts[i] \in Options
  BY <1>1
<1>4. \A i \in 1..n : gpu_specific_opts[i].to_draw \in ToDraw
  BY <1>3 DEF Options
<1> HIDE DEF m, l, n
<1>5. m <= n /\ \A i \in 1..m : i \in 1..n
  BY <1>1, <1>2
<1> QED
  BY <1>1, <1>2, <1>3, <1>4, <1>5 DEF m, n

LEMMA TopStep == PlotsInv /\ Top => PlotsInv'
<1> SUFFICES ASSUME PlotsInv, Top
             PROVE  PlotsInv'
  OBVIOUS
<1>1. has_monitored_set_changed \in BOOLEAN /\ visible \in BOOLEAN
  BY DEF PlotsInv, Flags
<1>2. CASE ~visible' /\ has_monitored_set_changed
  <2> DEFINE fixed == CheckAndFix(monitored, nonMonitored, gpu_specific_opts)
  <2>1. /\ monitored' = fixed.mon /\ nonMonitored' = fixed.non /\ gpu_specific_opts' = fixed.opts
        /\ has_monitored_set_changed' = FALSE /\ saved_data_ring' = EmptyRing(fixed.count)
    BY <1>2, Zenon DEF Top
  <2>2. DevicesKept(fixed, Len(gpu_specific_opts))
    BY Fixed DEF PlotsInv, Synced
  <2> HIDE DEF fixed
  <2>3. /\ InSync(monitored', nonMonitored', gpu_specific_opts')
        /\ Split(monitored', nonMonitored', gpu_specific_opts')
        /\ monitored' # <<>> /\ Len(gpu_specific_opts') = Cardinality(Devices)
        /\ saved_data_ring' = EmptyRing(Len(monitored'))
    <3>1. Len(gpu_specific_opts) = Cardinality(Devices)
      BY DEF PlotsInv, Synced
    <3> QED
      BY <2>1, <2>2, <3>1, Zenon DEF DevicesKept
  <2>4. Synced'
    BY <2>3, Zenon DEF Synced
  <2>5. Rings'
    <3>1. /\ monitored' \in Seq(Devices) /\ gpu_specific_opts' \in Seq(Options)
          /\ Len(gpu_specific_opts') = Len(monitored') + Len(nonMonitored')
          /\ Len(monitored') \in Nat /\ Len(nonMonitored') \in Nat
      BY <2>3, LenProperties DEF InSync
    <3>2. Len(monitored') <= Len(gpu_specific_opts')
      BY <3>1
    <3>3. Matching(monitored', gpu_specific_opts', saved_data_ring')
      BY <2>3, <3>1, <3>2, NothingToMatch
    <3> QED
      BY <2>3, <3>1, <3>3, EmptyRings DEF Rings, SeriesMatchLegend, Matching
  <2>6. Flags'
    BY <1>1, <2>1 DEF Top, Flags
  <2> QED
    BY <2>4, <2>5, <2>6 DEF PlotsInv
<1>3. CASE ~(~visible' /\ has_monitored_set_changed)
  <2>1. UNCHANGED <<monitored, nonMonitored, gpu_specific_opts, has_monitored_set_changed,
                    saved_data_ring>>
    BY <1>3, Zenon DEF Top
  <2>2. pc' = "save" /\ visible' \in {visible, FALSE}
    BY DEF Top
  <2> QED
    BY <1>1, <2>1, <2>2 DEF PlotsInv, Synced, Rings, Flags, SeriesMatchLegend
<1> QED
  BY <1>2, <1>3

LEMMA SaveStep == PlotsInv /\ Save => PlotsInv'
<1> SUFFICES ASSUME PlotsInv, Save
             PROVE  PlotsInv'
  OBVIOUS
<1> DEFINE ring == saved_data_ring  opts == gpu_specific_opts  n == Len(ring)
           AsDrawn(i, k) == {m \in opts[i].to_draw : SeriesOf(m, opts[i].to_draw) = k}
           Sample(i, k) == <<monitored[i], CHOOSE m \in AsDrawn(i, k) : TRUE>>
           Next1(i, k) == IF AsDrawn(i, k) = {} THEN ring[i][k] ELSE Remember(ring[i][k], Sample(i, k))
<1>1. /\ UNCHANGED <<monitored, nonMonitored, gpu_specific_opts, has_monitored_set_changed, visible>>
      /\ ring' = [i \in 1..n |-> [k \in 1..MaxLines |-> Next1(i, k)]] /\ pc' = "key"
  BY Zenon DEF Save
<1>2. /\ ring \in Seq(Series) /\ n = Len(monitored) /\ n \in Nat
      /\ \A i \in 1..n : i \in 1..Len(opts)
      /\ \A i \in 1..Len(opts) : opts[i].to_draw \in ToDraw
      /\ \A i \in 1..n : monitored[i] \in Devices
      /\ \A i \in 1..n : ring[i] \in Series
  <2>1. /\ monitored \in Seq(Devices) /\ ring \in Seq(Series) /\ n = Len(monitored) /\ n \in Nat
        /\ \A i \in 1..n : i \in 1..Len(opts)
        /\ \A i \in 1..Len(opts) : opts[i].to_draw \in ToDraw
    BY InvFacts
  <2>2. /\ \A i \in 1..Len(monitored) : monitored[i] \in Devices
        /\ \A i \in 1..Len(ring) : ring[i] \in Series
    BY <2>1
  <2> QED
    BY <2>1, <2>2
<1>3. ASSUME NEW i \in 1..n, NEW k \in 1..MaxLines, AsDrawn(i, k) # {}
      PROVE  /\ Sample(i, k) \in Samples
             /\ \A m \in AsDrawn(i, k) : Sample(i, k) = <<monitored[i], m>>
  <2> DEFINE S == opts[i].to_draw
             c == CHOOSE m \in AsDrawn(i, k) : TRUE
  <2>1. S \in ToDraw
    BY <1>2
  <2>2. c \in AsDrawn(i, k)
    BY <1>3, Zenon
  <2>3. c \in S /\ SeriesOf(c, S) = k
    BY <2>2
  <2>4. \A m \in AsDrawn(i, k) : m \in S /\ SeriesOf(m, S) = k
    OBVIOUS
  <2> HIDE DEF c, S
  <2>5. c \in Metrics
    BY <2>1, <2>3 DEF ToDraw
  <2>6. \A m \in AsDrawn(i, k) : m = c
    <3> SUFFICES ASSUME NEW m \in AsDrawn(i, k)
                 PROVE  m = c
      OBVIOUS
    <3>1. m \in S /\ SeriesOf(m, S) = SeriesOf(c, S)
      BY <2>3, <2>4
    <3> QED
      BY <2>1, <2>3, <3>1, OwnSeries
  <2>7. Sample(i, k) = <<monitored[i], c>>
    BY DEF c
  <2> QED
    <3>1. monitored[i] \in Devices
      BY <1>2
    <3>2. Sample(i, k) \in Samples
      <4>1. <<monitored[i], c>> \in Samples
        BY <2>5, <3>1 DEF Samples
      <4> QED
        BY <2>7, <4>1, Zenon
    <3> HIDE DEF Sample, AsDrawn
    <3> QED
      BY <2>6, <2>7, <3>2
<1>4. ASSUME NEW i \in 1..n, NEW k \in 1..MaxLines
      PROVE  /\ Next1(i, k) \in Seq(Samples)
             /\ \A s \in ToSet(Next1(i, k)) :
                  s \in ToSet(ring[i][k]) \/ (AsDrawn(i, k) # {} /\ s = Sample(i, k))
  <2>1. ring[i][k] \in Seq(Samples)
    BY <1>2 DEF Series
  <2> HIDE DEF AsDrawn, Sample
  <2>2. CASE AsDrawn(i, k) = {}
    BY <2>1, <2>2
  <2>3. CASE AsDrawn(i, k) # {}
    <3>1. Next1(i, k) = Remember(ring[i][k], Sample(i, k)) /\ Sample(i, k) \in Samples
      BY <1>3, <2>3
    <3> HIDE DEF Next1
    <3> QED
      BY <2>1, <2>3, <3>1, Remembered
  <2> QED
    BY <2>2, <2>3
<1> HIDE DEF Next1, Sample
<1>5. ring' \in Seq(Series) /\ Len(ring') = n
  <2>1. \A i \in 1..n : [k \in 1..MaxLines |-> Next1(i, k)] \in Series
    BY <1>4 DEF Series
  <2> QED
    BY <1>1, <1>2, <2>1
<1>6. Matching(monitored, opts, ring')
  <2> SUFFICES ASSUME NEW i \in 1..Len(monitored), NEW m \in opts[i].to_draw,
                      NEW s \in ToSet(ring'[i][SeriesOf(m, opts[i].to_draw)])
               PROVE  s = <<monitored[i], m>>
    BY DEF Matching
  <2> DEFINE k == SeriesOf(m, opts[i].to_draw)
  <2>1. i \in 1..n /\ opts[i].to_draw \in ToDraw
    BY <1>2
  <2>2. k \in 1..MaxLines
    BY <2>1, OwnSeries
  <2>3. m \in AsDrawn(i, k)
    OBVIOUS
  <2>4. \A t \in ToSet(ring[i][k]) : t = <<monitored[i], m>>
    BY DEF PlotsInv, Rings, SeriesMatchLegend
  <2> HIDE DEF k, AsDrawn
  <2>5. s \in ToSet(Next1(i, k))
    <3>1. ring'[i][k] = Next1(i, k)
      BY <1>1, <2>1, <2>2
    <3> QED
      BY <3>1 DEF k
  <2>6. s \in ToSet(ring[i][k]) \/ (AsDrawn(i, k) # {} /\ s = Sample(i, k))
    BY <1>4, <2>1, <2>2, <2>5
  <2> QED
    BY <1>3, <2>1, <2>2, <2>3, <2>4, <2>6
<1>7. Rings'
  BY <1>1, <1>2, <1>5, <1>6 DEF Rings, SeriesMatchLegend, Matching
<1>8. Synced' /\ Flags'
  BY <1>1 DEF PlotsInv, Synced, Flags
<1> QED
  BY <1>7, <1>8 DEF PlotsInv

\* The options of one device changed, those of its metrics or of its place.
LEMMA OneChanged ==
  ASSUME NEW opts \in Seq(Options), NEW i \in 1..Len(opts), NEW o \in Options,
         o.linkedGpu = opts[i].linkedGpu
  PROVE  LET new == [opts EXCEPT ![i] = o]
         IN /\ new \in Seq(Options) /\ Len(new) = Len(opts)
            /\ new[i] = o /\ \A j \in 1..Len(opts) : j # i => new[j] = opts[j]
            /\ \A j \in 1..Len(opts) : new[j].linkedGpu = opts[j].linkedGpu
<1> DEFINE new == [opts EXCEPT ![i] = o]
<1>1. new \in Seq(Options) /\ Len(new) = Len(opts)
  BY ExceptSeq
<1>2. new[i] = o /\ \A j \in 1..Len(opts) : j # i => new[j] = opts[j]
  OBVIOUS
<1> HIDE DEF new
<1>3. \A j \in 1..Len(opts) : new[j].linkedGpu = opts[j].linkedGpu
  BY <1>2
<1> QED
  BY <1>1, <1>2, <1>3 DEF new

LEMMA ToggleMetricStep ==
  ASSUME PlotsInv, NEW i \in 1..Len(gpu_specific_opts), NEW m \in Metrics, ToggleMetric(i, m)
  PROVE  PlotsInv'
<1> DEFINE opts == gpu_specific_opts  ring == saved_data_ring
           old == opts[i].to_draw
           o == [opts[i] EXCEPT !.to_draw = Toggled(m, old)]
<1>1. /\ UNCHANGED <<monitored, nonMonitored, has_monitored_set_changed, visible>>
      /\ ring' = Emptied(ring, i) /\ pc' = "top" /\ i \in 1..Len(ring)
  BY DEF ToggleMetric
<1>2. opts' = [opts EXCEPT ![i] = o]
  BY DEF ToggleMetric
<1>3. /\ opts \in Seq(Options) /\ opts[i] \in Options /\ old \in ToDraw
      /\ ring \in Seq(Series) /\ Len(ring) = Len(monitored)
      /\ \A j \in 1..Len(monitored) : j \in 1..Len(opts)
  BY InvFacts
<1>4. o \in Options /\ o.linkedGpu = opts[i].linkedGpu /\ o.doNotMonitor = opts[i].doNotMonitor
      /\ o.to_draw \in ToDraw
  <2>1. Toggled(m, old) \in ToDraw
    BY <1>3, StillDrawn DEF Toggled
  <2> HIDE DEF old
  <2> QED
    BY <1>3, <2>1 DEF Options
<1> HIDE DEF o, old
<1>5. /\ opts' \in Seq(Options) /\ Len(opts') = Len(opts)
      /\ opts'[i] = o /\ \A j \in 1..Len(opts) : j # i => opts'[j] = opts[j]
      /\ \A j \in 1..Len(opts) : opts'[j].linkedGpu = opts[j].linkedGpu
  BY <1>2, <1>3, <1>4, OneChanged
<1>6. \A j \in 1..Len(opts) : opts'[j].doNotMonitor = opts[j].doNotMonitor
  BY <1>4, <1>5
<1>7. Synced'
  <2>1. InSync(monitored, nonMonitored, opts)
    BY DEF PlotsInv, Synced
  <2>2. /\ InSync(monitored, nonMonitored, opts')
        /\ Split(monitored, nonMonitored, opts) => Split(monitored, nonMonitored, opts')
    BY <1>5, <1>6, <2>1, StillInSync
  <2>3. /\ Len(opts) = Cardinality(Devices) /\ monitored # <<>>
        /\ ~has_monitored_set_changed => Split(monitored, nonMonitored, opts)
    BY DEF PlotsInv, Synced
  <2> QED
    BY <1>1, <1>5, <2>2, <2>3, Zenon DEF Synced
<1>8. /\ ring' \in Seq(Series) /\ Len(ring') = Len(ring)
      /\ \A k \in 1..MaxLines : ToSet(ring'[i][k]) = {}
      /\ \A j \in 1..Len(ring) : j # i => ring'[j] = ring[j]
  BY <1>1, <1>3, EmptiedRing
<1>9. Matching(monitored, opts', ring')
  <2> SUFFICES ASSUME NEW j \in 1..Len(monitored), NEW q \in opts'[j].to_draw,
                      NEW s \in ToSet(ring'[j][SeriesOf(q, opts'[j].to_draw)])
               PROVE  s = <<monitored[j], q>>
    BY DEF Matching
  <2>1. CASE j = i
    <3>1. opts'[j].to_draw \in ToDraw
      BY <1>4, <1>5, <2>1
    <3>2. SeriesOf(q, opts'[j].to_draw) \in 1..MaxLines
      BY <3>1, OwnSeries
    <3>3. ToSet(ring'[j][SeriesOf(q, opts'[j].to_draw)]) = {}
      BY <1>8, <2>1, <3>2
    <3> QED
      BY <3>3
  <2>2. CASE j # i
    <3>1. j \in 1..Len(opts) /\ j \in 1..Len(ring)
      BY <1>3
    <3>2. opts'[j] = opts[j] /\ ring'[j] = ring[j]
      BY <1>5, <1>8, <2>2, <3>1
    <3> QED
      BY <3>2 DEF PlotsInv, Rings, SeriesMatchLegend
  <2> QED
    BY <2>1, <2>2
<1>10. Rings' /\ Flags'
  <2>1. Rings'
    BY <1>1, <1>3, <1>8, <1>9 DEF Rings, SeriesMatchLegend, Matching
  <2> QED
    BY <1>1, <2>1 DEF PlotsInv, Flags
<1> QED
  BY <1>7, <1>10 DEF PlotsInv

LEMMA ToggleAllStep ==
  ASSUME PlotsInv, NEW m \in Metrics, ToggleMetricOfAll(m)
  PROVE  PlotsInv'
<1> DEFINE opts == gpu_specific_opts  ring == saved_data_ring
           count == Len(ring)  n == Len(opts)
           all == \A i \in 1..count : m \in opts[i].to_draw
           New(i) == ToggledForAll(m, opts[i].to_draw, all)
           o(i) == IF i > count THEN opts[i] ELSE [opts[i] EXCEPT !.to_draw = New(i)]
<1>1. /\ UNCHANGED <<monitored, nonMonitored, has_monitored_set_changed, visible>>
      /\ ring' = EmptyRing(count) /\ pc' = "top"
  BY DEF ToggleMetricOfAll
<1>2. opts' = [i \in 1..n |-> o(i)]
  BY Zenon DEF ToggleMetricOfAll
<1>3. /\ opts \in Seq(Options) /\ n \in Nat /\ Len(monitored) <= n /\ monitored \in Seq(Devices)
      /\ count = Len(monitored) /\ count \in Nat
      /\ \A i \in 1..n : opts[i] \in Options /\ opts[i].to_draw \in ToDraw
  BY InvFacts
<1>4. ASSUME NEW i \in 1..n
      PROVE  /\ o(i) \in Options /\ o(i).linkedGpu = opts[i].linkedGpu
             /\ o(i).doNotMonitor = opts[i].doNotMonitor
  <2>1. New(i) \in ToDraw
    BY <1>3, StillDrawn DEF ToggledForAll
  <2>2. opts[i] \in Options
    BY <1>3
  <2> HIDE DEF New
  <2>3. /\ [opts[i] EXCEPT !.to_draw = New(i)] \in Options
        /\ [opts[i] EXCEPT !.to_draw = New(i)].linkedGpu = opts[i].linkedGpu
        /\ [opts[i] EXCEPT !.to_draw = New(i)].doNotMonitor = opts[i].doNotMonitor
    BY <2>1, <2>2 DEF Options
  <2> QED
    BY <2>2, <2>3
<1> HIDE DEF o
<1>5. /\ opts' \in Seq(Options) /\ Len(opts') = n
      /\ \A j \in 1..n : opts'[j].linkedGpu = opts[j].linkedGpu
      /\ \A j \in 1..n : opts'[j].doNotMonitor = opts[j].doNotMonitor
  BY <1>2, <1>3, <1>4
<1>6. Synced'
  <2>1. InSync(monitored, nonMonitored, opts)
    BY DEF PlotsInv, Synced
  <2>2. /\ InSync(monitored, nonMonitored, opts')
        /\ Split(monitored, nonMonitored, opts) => Split(monitored, nonMonitored, opts')
    BY <1>5, <2>1, StillInSync
  <2>3. /\ Len(opts) = Cardinality(Devices) /\ monitored # <<>>
        /\ ~has_monitored_set_changed => Split(monitored, nonMonitored, opts)
    BY DEF PlotsInv, Synced
  <2> QED
    BY <1>1, <1>5, <2>2, <2>3, Zenon DEF Synced
<1>7. Matching(monitored, opts', ring')
  BY <1>1, <1>3, <1>5, NothingToMatch
<1>8. Rings' /\ Flags'
  <2>1. ring' \in Seq(Series) /\ Len(ring') = Len(monitored)
    BY <1>1, <1>3, EmptyRings
  <2>2. Rings'
    BY <1>1, <1>7, <2>1 DEF Rings, SeriesMatchLegend, Matching
  <2> QED
    BY <1>1, <2>2 DEF PlotsInv, Flags
<1> QED
  BY <1>6, <1>8 DEF PlotsInv

LEMMA ToggleMonitoredStep ==
  ASSUME PlotsInv, NEW i \in 1..Len(gpu_specific_opts), ToggleMonitored(i)
  PROVE  PlotsInv'
<1> DEFINE opts == gpu_specific_opts
           off == ~opts[i].doNotMonitor
           o == [opts[i] EXCEPT !.doNotMonitor = off]
<1>1. /\ UNCHANGED <<monitored, nonMonitored, saved_data_ring, visible>>
      /\ has_monitored_set_changed' = TRUE /\ pc' = "top"
  BY DEF ToggleMonitored
<1>2. opts' = [opts EXCEPT ![i] = o]
  BY DEF ToggleMonitored
<1>3. /\ opts \in Seq(Options) /\ opts[i] \in Options
      /\ \A j \in 1..Len(monitored) : j \in 1..Len(opts)
  BY InvFacts
<1>4. o \in Options /\ o.linkedGpu = opts[i].linkedGpu /\ o.to_draw = opts[i].to_draw
  <2>1. off \in BOOLEAN
    OBVIOUS
  <2> HIDE DEF off
  <2> QED
    BY <1>3, <2>1 DEF Options
<1> HIDE DEF o
<1>5. /\ opts' \in Seq(Options) /\ Len(opts') = Len(opts)
      /\ opts'[i] = o /\ \A j \in 1..Len(opts) : j # i => opts'[j] = opts[j]
      /\ \A j \in 1..Len(opts) : opts'[j].linkedGpu = opts[j].linkedGpu
  BY <1>2, <1>3, <1>4, OneChanged
<1>6. \A j \in 1..Len(opts) : opts'[j].to_draw = opts[j].to_draw
  BY <1>4, <1>5
<1>7. Synced'
  <2>1. InSync(monitored, nonMonitored, opts)
    BY DEF PlotsInv, Synced
  <2>2. InSync(monitored, nonMonitored, opts')
    BY <1>5, <2>1, StillInSync
  <2>3. Len(opts) = Cardinality(Devices) /\ monitored # <<>>
    BY DEF PlotsInv, Synced
  <2> QED
    BY <1>1, <1>5, <2>2, <2>3, Zenon DEF Synced
<1>8. Matching(monitored, opts', saved_data_ring)
  <2> SUFFICES ASSUME NEW j \in 1..Len(monitored), NEW q \in opts'[j].to_draw,
                      NEW s \in ToSet(saved_data_ring[j][SeriesOf(q, opts'[j].to_draw)])
               PROVE  s = <<monitored[j], q>>
    BY DEF Matching
  <2>1. opts'[j].to_draw = opts[j].to_draw
    BY <1>3, <1>6
  <2> QED
    BY <2>1 DEF PlotsInv, Rings, SeriesMatchLegend
<1>9. Rings' /\ Flags'
  <2>1. Rings'
    BY <1>1, <1>8 DEF PlotsInv, Rings, SeriesMatchLegend, Matching
  <2> QED
    BY <1>1, <2>1 DEF PlotsInv, Flags
<1> QED
  BY <1>7, <1>9 DEF PlotsInv

LEMMA PlotsStep == PlotsInv /\ [Next]_vars => PlotsInv'
<1> SUFFICES ASSUME PlotsInv, [Next]_vars
             PROVE  PlotsInv'
  OBVIOUS
<1> DEFINE same == <<monitored, nonMonitored, gpu_specific_opts, has_monitored_set_changed,
                     saved_data_ring>>
<1>1. ASSUME UNCHANGED same, visible' \in BOOLEAN, pc' \in {"top", "save", "key"}
      PROVE  PlotsInv'
  BY <1>1 DEF PlotsInv, Synced, Rings, Flags, SeriesMatchLegend
<1>2. visible \in BOOLEAN /\ pc \in {"top", "save", "key"}
  BY DEF PlotsInv, Flags
<1>3. CASE Top
  BY <1>3, TopStep
<1>4. CASE Save
  BY <1>4, SaveStep
<1>5. CASE NoSave
  BY <1>1, <1>2, <1>5 DEF NoSave
<1>6. CASE OtherKey
  BY <1>1, <1>2, <1>6 DEF OtherKey
<1>7. CASE OpenOrCloseSetup
  <2>1. visible' \in BOOLEAN
    BY <1>7, Zenon DEF OpenOrCloseSetup
  <2> QED
    BY <1>1, <1>7, <2>1 DEF OpenOrCloseSetup
<1>8. ASSUME NEW m \in Metrics, ToggleMetricOfAll(m)
      PROVE  PlotsInv'
  BY <1>8, ToggleAllStep
<1>9. ASSUME NEW i \in 1..Len(gpu_specific_opts), NEW m \in Metrics, ToggleMetric(i, m)
      PROVE  PlotsInv'
  BY <1>9, ToggleMetricStep
<1>10. ASSUME NEW i \in 1..Len(gpu_specific_opts), ToggleMonitored(i)
       PROVE  PlotsInv'
  BY <1>10, ToggleMonitoredStep
<1>11. CASE UNCHANGED vars
  BY <1>1, <1>2, <1>11 DEF vars
<1> QED
  BY <1>3, <1>4, <1>5, <1>6, <1>7, <1>8, <1>9, <1>10, <1>11, Zenon DEF Next, Key

LEMMA PlotsAlways == Spec => []PlotsInv
BY PlotsInit, PlotsStep, PTL DEF Spec

\* The lists hold devices, the options of the array are well formed and the
\* rings samples, whatever keys come.
THEOREM TypeCorrect == Spec => []TypeOK
BY PlotsAlways, InvImplies, PTL

\* The array of options is in step with the two lists of devices after any
\* number of changes of the monitored set (interface_check_and_fix_monitored_gpus
\* and its two loops), every device is in one of the lists, and one at least is
\* monitored.
THEOREM OptionsStayInSync == Spec => []OptionsInSync
BY PlotsAlways, InvImplies, PTL

\* No plot shows a sample under the name of another device or metric, though
\* save_current_data_to_ring, the keys of the setup window and the change of
\* the monitored set each renumber the series.
THEOREM SeriesAreOfLegend == Spec => []SeriesMatchLegend
BY PlotsAlways, InvImplies, PTL
=============================================================================
