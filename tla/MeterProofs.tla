---------------------------- MODULE MeterProofs -----------------------------
(* What the meters show: the ring buffers the plots are drawn from, of any  *)
(* size; the block of CPU statistics, for any cores and any widths; the use *)
(* of devices by processes that a sweep of fdinfo counts, for any devices,  *)
(* files and processes; and the devices of every vendor, for any cards.     *)
EXTENDS RingBuffer, SysStats, CoreGrid, FdinfoSweep, Devices, FiniteSetTheorems,
        SequenceTheorems, TLAPS

\* The loops of the vendors over their cards.
NvidiaLoop == INSTANCE FoldSteps WITH Step <- NvidiaCard
EnflameLoop == INSTANCE FoldSteps WITH Step <- EnflameCard
IxmlLoop == INSTANCE FoldSteps WITH Step <- IxmlCard
MetaxLoop == INSTANCE FoldSteps WITH Step <- MetaxCard
AscendLoop == INSTANCE FoldSteps WITH Step <- AscendCard
TpuLoop == INSTANCE FoldSteps WITH Step <- TpuCard
TenstorrentLoop == INSTANCE FoldSteps WITH Step <- TenstorrentCard
AmdgpuLoop == INSTANCE FoldSteps WITH Step <- AmdgpuCard
RadeonLoop == INSTANCE FoldSteps WITH Step <- RadeonCard
IntelLoop == INSTANCE FoldSteps WITH Step <- IntelCard
V3dLoop == INSTANCE FoldSteps WITH Step <- V3dCard
MsmLoop == INSTANCE FoldSteps WITH Step <- MsmCard
PanthorLoop == INSTANCE FoldSteps WITH Step <- PanthorCard

-----------------------------------------------------------------------------
(* The ring buffer is a memory of its last values.                          *)

\* The difference that wrapped below zero comes out right.
LEMMA StoredIs ==
  ASSUME NEW s \in Cells, NEW e \in Cells
  PROVE  /\ DataStored(s, e) = IF e < s THEN e + buffer_size - s ELSE e - s
         /\ DataStored(s, e) \in 0..buffer_size - 1
  BY SizeAssumption DEF Cells, DataStored, Minus, Plus

LEMMA AfterIs ==
  ASSUME NEW c \in Cells
  PROVE  After(c) \in Cells /\ After(c) = IF c = buffer_size - 1 THEN 0 ELSE c + 1
  BY SizeAssumption DEF Cells, After

LEMMA IndexIs ==
  ASSUME NEW s \in Cells, NEW k \in Nat, k < buffer_size
  PROVE  IndexInRing(s, k) \in Cells
  BY SizeAssumption DEF Cells, IndexInRing

\* Whatever is within the stored length has been written.
RingInv == TypeOK /\ \A k \in 1..Stored : data[IndexInRing(start, k - 1)] \in Values

LEMMA SeriesIs ==
  ASSUME RingInv
  PROVE  /\ Stored \in 0..buffer_size - 1
         /\ Series \in Seq(Values)
         /\ Len(Series) = Stored
         /\ \A k \in 1..Stored : Series[k] = data[IndexInRing(start, k - 1)]
<1>1. Stored \in 0..buffer_size - 1
      BY StoredIs DEF RingInv, TypeOK, Stored
<1>2. Stored \in Nat
      BY <1>1, SizeAssumption
<1>3. Series \in [1..Stored -> Values]
      BY DEF RingInv, Series
<1>4. Series \in Seq(Values) /\ Len(Series) = Stored
      BY <1>2, <1>3
<1> QED BY <1>1, <1>4 DEF Series

LEMMA InitRingInv == Init => RingInv
<1> SUFFICES ASSUME Init PROVE RingInv
    OBVIOUS
<1>1. 0 \in Cells
      BY SizeAssumption DEF Cells
<1>2. TypeOK
      BY <1>1 DEF Init, TypeOK
<1>3. Stored = 0
      BY <1>1, StoredIs DEF Init, Stored
<1> QED BY <1>2, <1>3 DEF RingInv

\* The cell a push writes is the one after the last stored value, and none of
\* the stored values is in it.
LEMMA PushCells ==
  ASSUME RingInv, NEW v \in Values, Push(v)
  PROVE  /\ TypeOK'
         /\ Stored < buffer_size - 1
              => /\ Stored' = Stored + 1
                 /\ \A k \in 1..Stored :
                      data'[IndexInRing(start', k - 1)] = data[IndexInRing(start, k - 1)]
                 /\ data'[IndexInRing(start', Stored)] = v
         /\ Stored = buffer_size - 1
              => /\ Stored' = Stored
                 /\ \A k \in 1..Stored - 1 :
                      data'[IndexInRing(start', k - 1)] = data[IndexInRing(start, k)]
                 /\ Stored > 0 => data'[IndexInRing(start', Stored - 1)] = v
<1> DEFINE N == buffer_size
<1>0. N \in Nat \ {0} /\ Cells = 0..N - 1
      BY SizeAssumption DEF Cells
<1>1. start \in Cells /\ end \in Cells /\ data \in [Cells -> Values \cup {Unwritten}]
      BY DEF RingInv, TypeOK
<1>2. /\ end' = IF end = N - 1 THEN 0 ELSE end + 1
      /\ end' \in Cells
      /\ start' = IF end' = start THEN IF start = N - 1 THEN 0 ELSE start + 1 ELSE start
      /\ start' \in Cells
      BY <1>1, AfterIs DEF Push
<1>3. data' = [data EXCEPT ![end] = v]
      BY DEF Push
<1>4. TypeOK'
      BY <1>1, <1>2, <1>3 DEF TypeOK
<1>5. /\ Stored = IF end < start THEN end + N - start ELSE end - start
      /\ Stored' = IF end' < start' THEN end' + N - start' ELSE end' - start'
      BY <1>1, <1>2, StoredIs DEF Stored
<1>6. \A c \in Cells : data'[c] = IF c = end THEN v ELSE data[c]
      BY <1>1, <1>3
<1>7. ASSUME Stored < N - 1
      PROVE  /\ Stored' = Stored + 1
             /\ \A k \in 1..Stored :
                  data'[IndexInRing(start', k - 1)] = data[IndexInRing(start, k - 1)]
             /\ data'[IndexInRing(start', Stored)] = v
  <2>1. start' = start /\ Stored' = Stored + 1 /\ Stored \in Nat
        BY <1>0, <1>1, <1>2, <1>5, <1>7
  <2>2. ASSUME NEW k \in 1..Stored
        PROVE  IndexInRing(start, k - 1) \in Cells /\ IndexInRing(start, k - 1) # end
        BY <1>0, <1>1, <1>5, <1>7, <2>1 DEF IndexInRing
  <2>3. IndexInRing(start, Stored) = end
        BY <1>0, <1>1, <1>5, <1>7, <2>1 DEF IndexInRing
  <2> QED BY <1>1, <1>6, <2>1, <2>2, <2>3
<1>8. ASSUME Stored = N - 1
      PROVE  /\ Stored' = Stored
             /\ \A k \in 1..Stored - 1 :
                  data'[IndexInRing(start', k - 1)] = data[IndexInRing(start, k)]
             /\ Stored > 0 => data'[IndexInRing(start', Stored - 1)] = v
  <2>1. end' = start /\ Stored' = Stored /\ Stored \in Nat
        BY <1>0, <1>1, <1>2, <1>5, <1>8
  <2>2. ASSUME NEW k \in 1..Stored - 1
        PROVE  /\ IndexInRing(start', k - 1) = IndexInRing(start, k)
               /\ IndexInRing(start, k) \in Cells /\ IndexInRing(start, k) # end
        BY <1>0, <1>1, <1>2, <1>5, <1>8, <2>1 DEF IndexInRing
  <2>3. Stored > 0 => IndexInRing(start', Stored - 1) = end
        BY <1>0, <1>1, <1>2, <1>5, <1>8, <2>1 DEF IndexInRing
  <2> QED BY <1>1, <1>6, <2>1, <2>2, <2>3
<1> QED BY <1>4, <1>7, <1>8

\* A pop leaves the other values where they are.
LEMMA PopCells ==
  ASSUME RingInv, Pop
  PROVE  /\ TypeOK'
         /\ Stored > 0 /\ Stored' = Stored - 1
         /\ \A k \in 1..Stored' :
              data'[IndexInRing(start', k - 1)] = data[IndexInRing(start, k)]
<1> DEFINE N == buffer_size
<1>0. N \in Nat \ {0} /\ Cells = 0..N - 1
      BY SizeAssumption DEF Cells
<1>1. start \in Cells /\ end \in Cells
      BY DEF RingInv, TypeOK
<1>2. /\ start # end /\ end' = end /\ data' = data
      /\ start' = IF start = N - 1 THEN 0 ELSE start + 1
      /\ start' \in Cells
      BY <1>1, AfterIs DEF Pop
<1>3. /\ Stored = IF end < start THEN end + N - start ELSE end - start
      /\ Stored' = IF end' < start' THEN end' + N - start' ELSE end' - start'
      BY <1>1, <1>2, StoredIs DEF Stored
<1>4. Stored > 0 /\ Stored' = Stored - 1 /\ Stored <= N - 1
      BY <1>0, <1>1, <1>2, <1>3
<1>5. \A k \in 1..Stored' : IndexInRing(start', k - 1) = IndexInRing(start, k)
      BY <1>0, <1>1, <1>2, <1>3, <1>4 DEF IndexInRing
<1> QED BY <1>1, <1>2, <1>4, <1>5 DEF RingInv, TypeOK

LEMMA EmptyCells == ASSUME RingInv, Empty PROVE TypeOK' /\ Stored' = 0
<1>1. 0 \in Cells
      BY SizeAssumption DEF Cells
<1> QED BY <1>1, StoredIs DEF Empty, RingInv, TypeOK, Stored

LEMMA NextRingInv == RingInv /\ [Next]_vars => RingInv'
<1> SUFFICES ASSUME RingInv, [Next]_vars PROVE RingInv'
    OBVIOUS
<1>1. CASE \E v \in Values : Push(v)
  <2>1. PICK v \in Values : Push(v)
        BY <1>1
  <2>2. TypeOK'
        BY <2>1, PushCells
  <2>3. Stored \in 0..buffer_size - 1
        BY SeriesIs
  <2>4. CASE Stored < buffer_size - 1
    <3>1. /\ Stored' = Stored + 1
          /\ \A k \in 1..Stored :
               data'[IndexInRing(start', k - 1)] = data[IndexInRing(start, k - 1)]
          /\ data'[IndexInRing(start', Stored)] = v
          BY <2>1, <2>4, PushCells
    <3>2. ASSUME NEW k \in 1..Stored' PROVE data'[IndexInRing(start', k - 1)] \in Values
      <4>1. CASE k \in 1..Stored
            BY <3>1, <4>1 DEF RingInv
      <4>2. CASE k = Stored + 1
        <5>1. k - 1 = Stored
              BY <2>3, <4>2, SizeAssumption
        <5> QED BY <3>1, <5>1
      <4> QED BY <2>3, <3>1, <4>1, <4>2, SizeAssumption
    <3> QED BY <2>2, <3>2 DEF RingInv
  <2>5. CASE Stored = buffer_size - 1
    <3>1. /\ Stored' = Stored
          /\ \A k \in 1..Stored - 1 :
               data'[IndexInRing(start', k - 1)] = data[IndexInRing(start, k)]
          /\ Stored > 0 => data'[IndexInRing(start', Stored - 1)] = v
          BY <2>1, <2>5, PushCells
    <3>2. ASSUME NEW k \in 1..Stored' PROVE data'[IndexInRing(start', k - 1)] \in Values
      <4>1. CASE k \in 1..Stored - 1
        <5>1. k + 1 \in 1..Stored /\ (k + 1) - 1 = k
              BY <2>3, <4>1, SizeAssumption
        <5>2. data[IndexInRing(start, (k + 1) - 1)] \in Values
              BY <5>1 DEF RingInv
        <5> QED BY <3>1, <4>1, <5>1, <5>2
      <4>2. CASE k = Stored
            BY <2>3, <3>1, <3>2, <4>2, SizeAssumption
      <4> QED BY <2>3, <3>1, <4>1, <4>2, SizeAssumption
    <3> QED BY <2>2, <3>2 DEF RingInv
  <2> QED BY <2>3, <2>4, <2>5, SizeAssumption
<1>2. CASE Pop
  <2>1. /\ TypeOK' /\ Stored' = Stored - 1
        /\ \A k \in 1..Stored' :
             data'[IndexInRing(start', k - 1)] = data[IndexInRing(start, k)]
        BY <1>2, PopCells
  <2>2. ASSUME NEW k \in 1..Stored' PROVE data'[IndexInRing(start', k - 1)] \in Values
    <3>1. k + 1 \in 1..Stored /\ (k + 1) - 1 = k
          BY <2>1, SeriesIs, SizeAssumption
    <3>2. data[IndexInRing(start, (k + 1) - 1)] \in Values
          BY <3>1 DEF RingInv
    <3> QED BY <2>1, <3>1, <3>2
  <2> QED BY <2>1, <2>2 DEF RingInv
<1>3. CASE Empty
      BY <1>3, EmptyCells DEF RingInv
<1>4. CASE UNCHANGED vars
      BY <1>4 DEF RingInv, TypeOK, Stored, vars
<1> QED BY <1>1, <1>2, <1>3, <1>4 DEF Next

LEMMA RingInvariance == Spec => []RingInv
<1> QED BY InitRingInv, NextRingInv, PTL DEF Spec

-----------------------------------------------------------------------------
\* The indices stay in the array.
THEOREM RingTypeCorrect == Spec => []TypeOK
<1>1. RingInv => TypeOK
      BY DEF RingInv
<1> QED BY <1>1, RingInvariance, PTL

\* No reader meets a cell that was not written, and one cell is always free,
\* for every size of the ring.
THEOREM OnlyWrittenIsRead == Spec => []SeriesWritten
<1>1. ASSUME RingInv PROVE SeriesWritten
  <2>1. Stored \in 0..buffer_size - 1
        BY <1>1, SeriesIs
  <2>2. ASSUME NEW k \in 1..Stored
        PROVE  IndexInRing(start, k - 1) \in Cells /\ Series[k] \in Values
    <3>1. k - 1 \in Nat /\ k - 1 < buffer_size
          BY <2>1, SizeAssumption
    <3>2. IndexInRing(start, k - 1) \in Cells
          BY <1>1, <3>1, IndexIs DEF RingInv, TypeOK
    <3> QED BY <1>1, <3>2, SeriesIs DEF RingInv
  <2> QED BY <2>1, <2>2, SizeAssumption DEF SeriesWritten
<1> QED BY <1>1, RingInvariance, PTL

\* Two series of one length with the same values are the same.
LEMMA SameSeries ==
  ASSUME NEW s \in Seq(Values), NEW t \in Seq(Values), Len(s) = Len(t),
         \A k \in 1..Len(s) : s[k] = t[k]
  PROVE  s = t
  OBVIOUS

\* Every push, pop and reset of the ring is one of the memory it stands for.
LEMMA StepHistory == RingInv /\ RingInv' /\ [Next]_vars => [H!Next]_Series
<1> SUFFICES ASSUME RingInv, RingInv', [Next]_vars PROVE [H!Next]_Series
    OBVIOUS
<1>1. /\ Stored \in 0..buffer_size - 1 /\ Series \in Seq(Values) /\ Len(Series) = Stored
      /\ \A k \in 1..Stored : Series[k] = data[IndexInRing(start, k - 1)]
      BY SeriesIs
<1>2. /\ Stored' \in 0..buffer_size - 1 /\ Series' \in Seq(Values) /\ Len(Series') = Stored'
      /\ \A k \in 1..Stored' : Series'[k] = data'[IndexInRing(start', k - 1)]
  <2>1. RingInv' => (/\ Stored \in 0..buffer_size - 1
                  /\ Series \in Seq(Values) /\ Len(Series) = Stored
                  /\ \A k \in 1..Stored : Series[k] = data[IndexInRing(start, k - 1)])'
        BY SeriesIs, PTL
  <2> QED BY <2>1
<1>3. ASSUME NEW v \in Values, Push(v) PROVE H!Push(v)
  <2>1. CASE Stored < buffer_size - 1
    <3>1. /\ Stored' = Stored + 1
          /\ \A k \in 1..Stored :
               data'[IndexInRing(start', k - 1)] = data[IndexInRing(start, k - 1)]
          /\ data'[IndexInRing(start', Stored)] = v
          BY <1>3, <2>1, PushCells
    <3>2. /\ Append(Series, v) \in Seq(Values) /\ Len(Append(Series, v)) = Stored + 1
          /\ \A k \in 1..Stored : Append(Series, v)[k] = Series[k]
          /\ Append(Series, v)[Stored + 1] = v
          BY <1>1
    <3>3. ASSUME NEW k \in 1..Stored + 1 PROVE Series'[k] = Append(Series, v)[k]
      <4>1. CASE k \in 1..Stored
            BY <1>1, <1>2, <3>1, <3>2, <4>1
      <4>2. CASE k = Stored + 1
        <5>1. k - 1 = Stored /\ k \in 1..Stored'
              BY <1>1, <3>1, <4>2, SizeAssumption
        <5> QED BY <1>2, <3>1, <3>2, <4>2, <5>1
      <4> QED BY <1>1, <4>1, <4>2, SizeAssumption
    <3>4. Series' = Append(Series, v)
          BY <1>2, <3>1, <3>2, <3>3, SameSeries
    <3> QED BY <1>1, <2>1, <3>4 DEF H!Push
  <2>2. CASE Stored = buffer_size - 1 /\ Stored > 0
    <3>1. /\ Stored' = Stored
          /\ \A k \in 1..Stored - 1 :
               data'[IndexInRing(start', k - 1)] = data[IndexInRing(start, k)]
          /\ data'[IndexInRing(start', Stored - 1)] = v
          BY <1>3, <2>2, PushCells
    <3>2. /\ Tail(Series) \in Seq(Values) /\ Len(Tail(Series)) = Stored - 1
          /\ \A k \in 1..Stored - 1 : Tail(Series)[k] = Series[k + 1]
          BY <1>1, <2>2
    <3>3. /\ Append(Tail(Series), v) \in Seq(Values)
          /\ Len(Append(Tail(Series), v)) = Stored
          /\ \A k \in 1..Stored - 1 : Append(Tail(Series), v)[k] = Series[k + 1]
          /\ Append(Tail(Series), v)[Stored] = v
          BY <1>1, <2>2, <3>2
    <3>4. ASSUME NEW k \in 1..Stored PROVE Series'[k] = Append(Tail(Series), v)[k]
      <4>1. CASE k \in 1..Stored - 1
        <5>1. k + 1 \in 1..Stored /\ (k + 1) - 1 = k /\ k \in 1..Stored'
              BY <1>1, <3>1, <4>1, SizeAssumption
        <5>2. Series[k + 1] = data[IndexInRing(start, (k + 1) - 1)]
              BY <1>1, <5>1
        <5>3. Series'[k] = data'[IndexInRing(start', k - 1)]
              BY <1>2, <5>1
        <5> QED BY <3>1, <3>3, <4>1, <5>1, <5>2, <5>3
      <4>2. CASE k = Stored
            BY <1>2, <3>1, <3>3, <4>2
      <4> QED BY <1>1, <4>1, <4>2, SizeAssumption
    <3>5. Series' = Append(Tail(Series), v)
          BY <1>2, <3>1, <3>3, <3>4, SameSeries
    <3> QED BY <1>1, <2>2, <3>5, SizeAssumption DEF H!Push
  <2>3. CASE Stored = buffer_size - 1 /\ Stored = 0
    <3>1. Stored' = 0
          BY <1>3, <2>3, PushCells
    <3>2. Series' = <<>>
          BY <1>2, <3>1
    <3> QED BY <1>1, <2>3, <3>2, SizeAssumption DEF H!Push
  <2> QED BY <1>1, <2>1, <2>2, <2>3, SizeAssumption
<1>4. ASSUME Pop PROVE H!Pop
  <2>1. /\ Stored > 0 /\ Stored' = Stored - 1
        /\ \A k \in 1..Stored' :
             data'[IndexInRing(start', k - 1)] = data[IndexInRing(start, k)]
        BY <1>4, PopCells
  <2>2. /\ Series # <<>> /\ Tail(Series) \in Seq(Values)
        /\ Len(Tail(Series)) = Stored - 1
        /\ \A k \in 1..Stored - 1 : Tail(Series)[k] = Series[k + 1]
        BY <1>1, <2>1
  <2>3. ASSUME NEW k \in 1..Stored' PROVE Series'[k] = Tail(Series)[k]
    <3>1. k + 1 \in 1..Stored /\ (k + 1) - 1 = k /\ k \in 1..Stored - 1
          BY <1>1, <2>1, SizeAssumption
    <3>2. Series[k + 1] = data[IndexInRing(start, (k + 1) - 1)]
          BY <1>1, <3>1
    <3> QED BY <1>2, <2>1, <2>2, <3>1, <3>2
  <2>4. Series' = Tail(Series)
        BY <1>2, <2>1, <2>2, <2>3, SameSeries
  <2> QED BY <2>2, <2>4 DEF H!Pop
<1>5. ASSUME Empty PROVE H!Forget
  <2>1. Stored' = 0
        BY <1>5, EmptyCells
  <2> QED BY <1>2, <2>1 DEF H!Forget
<1>6. ASSUME UNCHANGED vars PROVE UNCHANGED Series
      BY <1>6 DEF vars, Series, Stored
<1> QED BY <1>3, <1>4, <1>5, <1>6 DEF Next, H!Next

\* The ring buffer implements the memory of its last buffer_size - 1 values.
THEOREM RemembersTheLast == Spec => HistorySpec
<1>1. Init => H!Init
  <2> SUFFICES ASSUME Init PROVE Series = <<>>
      BY DEF H!Init
  <2>1. RingInv /\ Stored = 0
    <3>1. 0 \in Cells
          BY SizeAssumption DEF Cells
    <3> QED BY <3>1, InitRingInv, StoredIs DEF Init, Stored
  <2> QED BY <2>1, SeriesIs
<1>2. RingInv /\ RingInv' /\ [Next]_vars => [H!Next]_Series
      BY StepHistory
<1> QED BY <1>1, <1>2, RingInvariance, PTL DEF Spec, H!Spec, HistorySpec

-----------------------------------------------------------------------------
(* The usage of the cores.                                                  *)

IsList(s) == \E U : s \in Seq(U)

Shaped ==
  /\ core_count \in 0..Cardinality(Cores)
  /\ core_user_pct = [i \in Positions |-> core_user_pct[i]]
  /\ core_sys_pct = [i \in Positions |-> core_sys_pct[i]]
  /\ prev = [valid |-> prev.valid, kept |-> prev.kept]
  /\ prev.kept = [j \in DOMAIN prev.kept |-> prev.kept[j]]
  /\ reader = [at |-> reader.at, cores |-> reader.cores, i |-> reader.i]
  /\ reader.at \in {"idle", "count", "cores", "system"} /\ reader.cores \subseteq Cores
  /\ reader.i \in Nat \ {0} /\ reader.i <= Cardinality(reader.cores) + 1
  /\ reader.at = "count" => reader.i = 1
  /\ reader.at = "system" => reader.i <= Cardinality(reader.cores)
  /\ painter.cores \in 0..Cardinality(Cores)
  /\ IsList(screen)
  /\ online \subseteq Cores /\ sampled \subseteq Cores

\* A usage that is steady is of one core and of one interval.
Own(u) == u.steady => u.base = u.core /\ u.age = 1

\* The counters kept of the last sample are at the position of their core, and
\* from where the thread is they have aged by one sample.
KeptOfLastSample ==
  \A j \in 1..Cardinality(sampled) :
    /\ reader.at = "idle" =>
         j \in DOMAIN prev.kept /\ prev.kept[j] = [core |-> Nth(sampled, j), age |-> 0]
    /\ reader.at # "idle" /\ reader.i <= j =>
         j \in DOMAIN prev.kept /\ prev.kept[j] = [core |-> Nth(sampled, j), age |-> 1]

\* Those of this sample are before it.
KeptOfThisSample ==
  reader.at # "idle" =>
    \A j \in 1..(reader.i - 1) :
      j \in DOMAIN prev.kept /\ prev.kept[j] = [core |-> Nth(reader.cores, j), age |-> 0]

Measured ==
  /\ \A i \in Positions : Own(core_user_pct[i]) /\ Own(core_sys_pct[i])
  /\ \A i \in DOMAIN screen : Own(screen[i])

StatsInv == Shaped /\ KeptOfLastSample /\ KeptOfThisSample /\ Measured

LEMMA CoresCounted ==
  /\ Cardinality(Cores) \in Nat
  /\ \A S \in SUBSET Cores : Cardinality(S) \in 0..Cardinality(Cores)
<1>1. IsFiniteSet(Cores)
  BY CoresAssumption
<1>2. Cardinality(Cores) \in Nat
  BY <1>1, FS_CardinalityType
<1>3. ASSUME NEW S \in SUBSET Cores
      PROVE  Cardinality(S) \in 0..Cardinality(Cores)
  <2>1. IsFiniteSet(S) /\ Cardinality(S) <= Cardinality(Cores)
    BY <1>1, FS_Subset
  <2>2. Cardinality(S) \in Nat
    BY <2>1, FS_CardinalityType
  <2> QED
    BY <1>2, <2>1, <2>2
<1> QED
  BY <1>2, <1>3

LEMMA OwnUsage ==
  ASSUME NEW core, NEW base, NEW age, NEW s, s => base = core /\ age = 1
  PROVE  Own([core |-> core, base |-> base, age |-> age, steady |-> s])
BY DEF Own

LEMMA ZeroIsOwn == Own(Zero)
BY DEF Own, Zero

\* A sequence grows by what is appended.
LEMMA Longer ==
  ASSUME NEW s, NEW x, IsList(s)
  PROVE  /\ IsList(Append(s, x)) /\ Len(s) \in Nat
         /\ DOMAIN Append(s, x) = 1..(Len(s) + 1) /\ DOMAIN s = 1..Len(s)
         /\ \A i \in 1..Len(s) : Append(s, x)[i] = s[i]
         /\ Append(s, x)[Len(s) + 1] = x
<1>1. PICK U : s \in Seq(U)
  BY DEF IsList
<1>2. s \in Seq(U \cup {x})
  BY <1>1
<1>3. Append(s, x) \in Seq(U \cup {x})
  BY <1>2
<1>4. IsList(Append(s, x))
  BY <1>3 DEF IsList
<1> QED
  BY <1>2, <1>3, <1>4

LEMMA StatsStart == StatsInit => StatsInv
<1> SUFFICES ASSUME StatsInit
             PROVE  StatsInv
  OBVIOUS
<1> USE DEF StatsInit
<1>1. Shaped
  <2>1. IsList(screen)
    <3>1. << >> \in Seq({})
      OBVIOUS
    <3> QED
      BY <3>1 DEF IsList
  <2>2. /\ core_user_pct = [i \in Positions |-> core_user_pct[i]]
        /\ core_sys_pct = [i \in Positions |-> core_sys_pct[i]]
    BY DEF Wiped
  <2>3. Cardinality({}) = 0
    BY FS_EmptySet
  <2> QED
    BY <2>1, <2>2, <2>3, CoresCounted DEF Shaped
<1>2. KeptOfLastSample
  BY FS_EmptySet DEF KeptOfLastSample
<1>3. KeptOfThisSample
  BY DEF KeptOfThisSample
<1>4. Measured
  BY ZeroIsOwn DEF Measured, Wiped
<1> QED
  BY <1>1, <1>2, <1>3, <1>4 DEF StatsInv

\* Steps that leave the counters and the thread alone.
LEMMA KeptUnchanged ==
  ASSUME StatsInv, UNCHANGED <<reader, prev, sampled>>
  PROVE  KeptOfLastSample' /\ KeptOfThisSample'
BY DEF StatsInv, KeptOfLastSample, KeptOfThisSample

\* Counters grow older when a sample begins.
LEMMA BeginReadKeeps == StatsInv /\ BeginRead => StatsInv'
<1> SUFFICES ASSUME StatsInv, BeginRead
             PROVE  StatsInv'
  OBVIOUS
<1> DEFINE aged == Aged(prev.kept)
<1>1. /\ prev = [valid |-> prev.valid, kept |-> prev.kept]
      /\ prev' = [prev EXCEPT !.kept = aged]
  <2>1. prev = [valid |-> prev.valid, kept |-> prev.kept]
    BY DEF StatsInv, Shaped
  <2>2. prev' = [prev EXCEPT !.kept = aged]
    BY DEF BeginRead
  <2> QED
    BY <2>1, <2>2
<1>2. prev' = [valid |-> prev.valid, kept |-> aged]
  BY <1>1
<1> USE DEF Aged
<1>3. Shaped'
  <2>1. /\ core_user_pct' = [i \in Positions |-> core_user_pct'[i]]
        /\ core_sys_pct' = [i \in Positions |-> core_sys_pct'[i]]
    BY DEF BeginRead, Wiped
  <2>2. prev' = [valid |-> prev'.valid, kept |-> prev'.kept]
    BY <1>2
  <2>3. prev'.kept = [j \in DOMAIN prev'.kept |-> prev'.kept[j]]
    BY <1>2
  <2>4. /\ reader' = [at |-> "count", cores |-> online, i |-> 1]
        /\ core_count' = 0
        /\ UNCHANGED <<painter, screen, online, sampled>>
    BY DEF BeginRead
  <2> QED
    BY <2>1, <2>2, <2>3, <2>4, CoresCounted DEF StatsInv, Shaped
<1>4. KeptOfLastSample'
  <2> SUFFICES ASSUME NEW j \in 1..Cardinality(sampled)
               PROVE  j \in DOMAIN aged /\ aged[j] = [core |-> Nth(sampled, j), age |-> 1]
    <3>1. reader'.at = "count" /\ sampled' = sampled /\ prev'.kept = aged
      BY <1>2 DEF BeginRead
    <3> HIDE DEF aged
    <3> QED
      BY <3>1 DEF KeptOfLastSample
  <2>1. j \in DOMAIN prev.kept /\ prev.kept[j] = [core |-> Nth(sampled, j), age |-> 0]
    BY DEF StatsInv, KeptOfLastSample, BeginRead
  <2> QED
    BY <2>1
<1>5. KeptOfThisSample'
  BY DEF KeptOfThisSample, BeginRead
<1>6. Measured'
  BY ZeroIsOwn DEF StatsInv, Measured, BeginRead, Wiped
<1> QED
  BY <1>3, <1>4, <1>5, <1>6 DEF StatsInv

LEMMA ReadFailsKeeps == StatsInv /\ ReadFails => StatsInv'
<1> SUFFICES ASSUME StatsInv, ReadFails
             PROVE  StatsInv'
  OBVIOUS
<1>1. Shaped'
  <2>1. /\ core_user_pct' = [i \in Positions |-> core_user_pct'[i]]
        /\ core_sys_pct' = [i \in Positions |-> core_sys_pct'[i]]
    BY DEF ReadFails, Wiped
  <2> QED
    BY <2>1, CoresCounted DEF StatsInv, Shaped, ReadFails
<1>2. Measured'
  BY ZeroIsOwn DEF StatsInv, Measured, ReadFails, Wiped
<1> QED
  BY <1>1, <1>2, KeptUnchanged DEF StatsInv, ReadFails

LEMMA SetCountKeeps == StatsInv /\ SetCount => StatsInv'
<1> SUFFICES ASSUME StatsInv, SetCount
             PROVE  StatsInv'
  OBVIOUS
<1>1. reader' = [at |-> "cores", cores |-> reader.cores, i |-> reader.i]
  BY DEF StatsInv, Shaped, SetCount
<1>2. core_count' \in 0..Cardinality(Cores)
  BY CoresCounted DEF StatsInv, Shaped, SetCount
<1>3. Shaped'
  BY <1>1, <1>2 DEF StatsInv, Shaped, SetCount
<1>4. KeptOfLastSample' /\ KeptOfThisSample'
  BY <1>1 DEF StatsInv, SetCount, KeptOfLastSample, KeptOfThisSample
<1>5. Measured'
  BY DEF StatsInv, Measured, SetCount
<1> QED
  BY <1>3, <1>4, <1>5 DEF StatsInv

\* The counters at the position of the core that is read are of this very core
\* if the cores are those of the last sample, and one sample old.
LEMMA UsageIsOwn ==
  ASSUME StatsInv, reader.at \in {"cores", "system"}, reader.i <= Cardinality(reader.cores)
  PROVE  /\ reader.i \in Positions
         /\ Own(UsageOf(reader.i, Nth(reader.cores, reader.i)))
<1> DEFINE i == reader.i
           core == Nth(reader.cores, i)
           base == IF i \in DOMAIN prev.kept THEN prev.kept[i] ELSE [core |-> core, age |-> 2]
<1>1. i \in Nat \ {0} /\ i <= Cardinality(reader.cores) /\ reader.cores \subseteq Cores
  BY DEF StatsInv, Shaped
<1>2. i \in Positions
  BY <1>1, CoresCounted DEF Positions
<1>3. CASE ~prev.valid
  BY <1>2, <1>3, ZeroIsOwn DEF UsageOf
<1>4. CASE prev.valid
  <2>1. ASSUME sampled = reader.cores
        PROVE  base.core = core /\ base.age = 1
    <3>1. i \in 1..Cardinality(sampled)
      BY <1>1, <2>1, CoresCounted
    <3>2. reader.at # "idle" /\ reader.i <= i
      BY <1>1
    <3>3. i \in DOMAIN prev.kept /\ prev.kept[i] = [core |-> Nth(sampled, i), age |-> 1]
      BY <3>1, <3>2, Zenon DEF StatsInv, KeptOfLastSample
    <3> QED
      BY <2>1, <3>3
  <2>2. Own([core |-> core, base |-> base.core, age |-> base.age,
             steady |-> sampled = reader.cores])
    <3> HIDE DEF core, base
    <3> QED
      BY <2>1, OwnUsage, Zenon
  <2>3. UsageOf(i, core) = [core |-> core, base |-> base.core, age |-> base.age,
                            steady |-> sampled = reader.cores]
    BY <1>4, Zenon DEF UsageOf
  <2> QED
    BY <1>2, <2>2, <2>3
<1> QED
  BY <1>3, <1>4

\* Writing one share that is its core's own.
LEMMA ShareWritten ==
  ASSUME NEW pct, NEW now, NEW i \in Positions, NEW usage,
         pct = [k \in Positions |-> pct[k]], now = [pct EXCEPT ![i] = usage],
         \A k \in Positions : Own(pct[k]), Own(usage)
  PROVE  now = [k \in Positions |-> now[k]] /\ \A k \in Positions : Own(now[k])
<1>1. now = [k \in Positions |-> IF k = i THEN usage ELSE pct[k]]
  OBVIOUS
<1> QED
  BY <1>1

LEMMA ReadUserKeeps == StatsInv /\ ReadUser => StatsInv'
<1> SUFFICES ASSUME StatsInv, ReadUser
             PROVE  StatsInv'
  OBVIOUS
<1> DEFINE usage == UsageOf(reader.i, Nth(reader.cores, reader.i))
<1>1. /\ reader.at = "cores" /\ reader.i <= Cardinality(reader.cores)
      /\ reader' = [at |-> "system", cores |-> reader.cores, i |-> reader.i]
  BY DEF StatsInv, Shaped, ReadUser
<1>2. core_user_pct' = [core_user_pct EXCEPT ![reader.i] = usage]
  BY Zenon DEF ReadUser
<1>3. reader.i \in Positions /\ Own(usage)
  BY <1>1, UsageIsOwn
<1> HIDE DEF usage
<1>4. /\ core_user_pct' = [k \in Positions |-> core_user_pct'[k]]
      /\ \A k \in Positions : Own(core_user_pct'[k])
  <2>1. /\ core_user_pct = [k \in Positions |-> core_user_pct[k]]
        /\ \A k \in Positions : Own(core_user_pct[k])
    BY DEF StatsInv, Shaped, Measured
  <2> QED
    BY <1>2, <1>3, <2>1, ShareWritten
<1>5. Shaped'
  BY <1>1, <1>4 DEF StatsInv, Shaped, ReadUser
<1>6. KeptOfLastSample' /\ KeptOfThisSample'
  BY <1>1 DEF StatsInv, ReadUser, KeptOfLastSample, KeptOfThisSample
<1>7. Measured'
  BY <1>4 DEF StatsInv, Measured, ReadUser
<1> QED
  BY <1>5, <1>6, <1>7 DEF StatsInv

LEMMA ReadSystemKeeps == StatsInv /\ ReadSystem => StatsInv'
<1> SUFFICES ASSUME StatsInv, ReadSystem
             PROVE  StatsInv'
  OBVIOUS
<1> DEFINE i == reader.i
           core == Nth(reader.cores, i)
           usage == UsageOf(i, core)
<1>1. /\ reader.at = "system" /\ i \in Nat \ {0} /\ i <= Cardinality(reader.cores)
      /\ reader.cores \subseteq Cores
  BY DEF StatsInv, Shaped, ReadSystem
<1>2. i \in Positions /\ Own(usage)
  BY <1>1, UsageIsOwn
<1>3. reader' = [at |-> "cores", cores |-> reader.cores, i |-> i + 1]
  BY DEF StatsInv, Shaped, ReadSystem
<1>4. prev' = [valid |-> prev.valid, kept |-> Keep(prev.kept, i, core)]
  <2>1. prev = [valid |-> prev.valid, kept |-> prev.kept]
    BY DEF StatsInv, Shaped
  <2>2. prev' = [prev EXCEPT !.kept = Keep(@, i, core)]
    BY DEF ReadSystem
  <2> QED
    BY <2>1, <2>2
<1>5. core_sys_pct' = [core_sys_pct EXCEPT ![i] = usage]
  BY Zenon DEF ReadSystem
<1>6. /\ core_sys_pct' = [k \in Positions |-> core_sys_pct'[k]]
      /\ \A k \in Positions : Own(core_sys_pct'[k])
  <2>1. /\ core_sys_pct = [k \in Positions |-> core_sys_pct[k]]
        /\ \A k \in Positions : Own(core_sys_pct[k])
    BY DEF StatsInv, Shaped, Measured
  <2> HIDE DEF i, usage
  <2> QED
    BY <1>2, <1>5, <2>1, ShareWritten
<1>7. Shaped'
  <2>1. prev' = [valid |-> prev'.valid, kept |-> prev'.kept]
    BY <1>4
  <2>2. prev'.kept = [j \in DOMAIN prev'.kept |-> prev'.kept[j]]
    BY <1>4 DEF Keep
  <2>3. /\ reader' = [at |-> reader'.at, cores |-> reader'.cores, i |-> reader'.i]
        /\ reader'.at = "cores" /\ reader'.cores \subseteq Cores
        /\ reader'.i \in Nat \ {0} /\ reader'.i <= Cardinality(reader'.cores) + 1
    BY <1>1, <1>3, CoresCounted
  <2> HIDE DEF i, core, usage
  <2> QED
    BY <1>6, <2>1, <2>2, <2>3 DEF StatsInv, Shaped, ReadSystem
<1> HIDE DEF usage
<1>8. KeptOfLastSample'
  <2> SUFFICES ASSUME NEW j \in 1..Cardinality(sampled), i + 1 <= j
               PROVE  /\ j \in DOMAIN Keep(prev.kept, i, core)
                      /\ Keep(prev.kept, i, core)[j] = [core |-> Nth(sampled, j), age |-> 1]
    BY <1>3, <1>4 DEF KeptOfLastSample, ReadSystem
  <2>1. j # i /\ i <= j
    BY <1>1
  <2>2. j \in DOMAIN prev.kept /\ prev.kept[j] = [core |-> Nth(sampled, j), age |-> 1]
    BY <1>1, <2>1 DEF StatsInv, KeptOfLastSample
  <2> QED
    BY <2>1, <2>2 DEF Keep
<1>9. KeptOfThisSample'
  <2> SUFFICES ASSUME NEW j \in 1..i
               PROVE  /\ j \in DOMAIN Keep(prev.kept, i, core)
                      /\ Keep(prev.kept, i, core)[j] = [core |-> Nth(reader.cores, j), age |-> 0]
    BY <1>1, <1>3, <1>4 DEF KeptOfThisSample
  <2>1. CASE j = i
    BY <2>1 DEF Keep
  <2>2. CASE j # i
    <3>1. j \in 1..(i - 1)
      BY <1>1, <2>2
    <3>2. j \in DOMAIN prev.kept /\ prev.kept[j] = [core |-> Nth(reader.cores, j), age |-> 0]
      BY <1>1, <3>1 DEF StatsInv, KeptOfThisSample
    <3> QED
      BY <2>2, <3>2 DEF Keep
  <2> QED
    BY <2>1, <2>2
<1>10. Measured'
  BY <1>6 DEF StatsInv, Measured, ReadSystem
<1> QED
  BY <1>7, <1>8, <1>9, <1>10 DEF StatsInv

\* What was this sample is the last one.
LEMMA EndReadKeeps == StatsInv /\ EndRead => StatsInv'
<1> SUFFICES ASSUME StatsInv, EndRead
             PROVE  StatsInv'
  OBVIOUS
<1>1. /\ reader.at = "cores" /\ reader.i > Cardinality(reader.cores)
      /\ reader.i \in Nat \ {0} /\ reader.i <= Cardinality(reader.cores) + 1
      /\ reader.cores \subseteq Cores /\ Cardinality(reader.cores) \in Nat
  BY CoresCounted DEF StatsInv, Shaped, EndRead
<1>2. prev' = [valid |-> TRUE, kept |-> prev.kept]
  BY DEF StatsInv, Shaped, EndRead
<1>3. /\ reader' = [at |-> "idle", cores |-> {}, i |-> 1]
      /\ sampled' = reader.cores
      /\ UNCHANGED <<online, core_count, core_user_pct, core_sys_pct, painter, screen>>
  BY DEF EndRead, block
<1>4. Shaped'
  <2>1. Cardinality({}) = 0
    BY FS_EmptySet
  <2> QED
    BY <1>1, <1>2, <1>3, <2>1 DEF StatsInv, Shaped
<1>5. KeptOfLastSample'
  <2> SUFFICES ASSUME NEW j \in 1..Cardinality(reader.cores)
               PROVE  j \in DOMAIN prev.kept /\ prev.kept[j] = [core |-> Nth(reader.cores, j), age |-> 0]
    BY <1>2, <1>3 DEF KeptOfLastSample
  <2>1. j \in 1..(reader.i - 1)
    BY <1>1
  <2> QED
    BY <1>1, <2>1 DEF StatsInv, KeptOfThisSample
<1>6. KeptOfThisSample'
  BY <1>3 DEF KeptOfThisSample
<1>7. Measured'
  BY <1>3 DEF StatsInv, Measured
<1> QED
  BY <1>4, <1>5, <1>6, <1>7 DEF StatsInv

LEMMA BeginDrawKeeps == StatsInv /\ BeginDraw => StatsInv'
<1> SUFFICES ASSUME StatsInv, BeginDraw
             PROVE  StatsInv'
  OBVIOUS
<1>1. Shaped'
  <2>1. IsList(<<>>)
    <3>1. << >> \in Seq({})
      OBVIOUS
    <3> QED
      BY <3>1 DEF IsList
  <2> QED
    BY <2>1 DEF StatsInv, Shaped, BeginDraw, block
<1>2. Measured'
  BY DEF StatsInv, Measured, BeginDraw, block
<1> QED
  BY <1>1, <1>2, KeptUnchanged DEF StatsInv, BeginDraw

\* What is drawn is what is in the block at that moment.
LEMMA DrawnCoreIsOne ==
  ASSUME StatsInv, Len(screen) < 2 * painter.cores
  PROVE  DrawnCore \in Positions
<1>1. Len(screen) \in Nat
  BY Longer DEF StatsInv, Shaped
<1>2. \A n, c \in Nat : n < 2 * c => n \div 2 + 1 \in 1..c
  OBVIOUS
<1> QED
  BY <1>1, <1>2, CoresCounted DEF StatsInv, Shaped, Positions, DrawnCore

LEMMA OneMoreDrawn ==
  ASSUME StatsInv, NEW u, Own(u)
  PROVE  /\ IsList(Append(screen, u))
         /\ \A i \in DOMAIN Append(screen, u) : Own(Append(screen, u)[i])
<1>1. IsList(screen)
  BY DEF StatsInv, Shaped
<1> HIDE DEF Own
<1>2. \A i \in 1..Len(screen) : Own(screen[i])
  BY <1>1, Longer DEF StatsInv, Measured
<1>3. ASSUME NEW i \in 1..(Len(screen) + 1)
      PROVE  Own(Append(screen, u)[i])
  <2>1. CASE i = Len(screen) + 1
    BY <1>1, <2>1, Longer
  <2>2. CASE i # Len(screen) + 1
    <3>1. i \in 1..Len(screen)
      BY <1>1, <2>2, Longer
    <3> QED
      BY <1>1, <1>2, <3>1, Longer
  <2> QED
    BY <2>1, <2>2
<1> QED
  BY <1>1, <1>3, Longer

LEMMA DrawUserKeeps == StatsInv /\ DrawUser => StatsInv'
<1> SUFFICES ASSUME StatsInv, DrawUser
             PROVE  StatsInv'
  OBVIOUS
<1>1. screen' = Append(screen, core_user_pct[DrawnCore]) /\ Len(screen) < 2 * painter.cores
  BY DEF DrawUser
<1>2. Own(core_user_pct[DrawnCore])
  BY <1>1, DrawnCoreIsOne DEF StatsInv, Measured
<1> HIDE DEF Own
<1>3. IsList(screen') /\ \A i \in DOMAIN screen' : Own(screen'[i])
  BY <1>1, <1>2, OneMoreDrawn, Zenon DEF StatsInv
<1>4. Shaped'
  BY <1>3 DEF StatsInv, Shaped, DrawUser, block
<1>5. Measured'
  BY <1>3 DEF StatsInv, Measured, DrawUser, block
<1> QED
  BY <1>4, <1>5, KeptUnchanged DEF StatsInv, DrawUser

LEMMA DrawSystemKeeps == StatsInv /\ DrawSystem => StatsInv'
<1> SUFFICES ASSUME StatsInv, DrawSystem
             PROVE  StatsInv'
  OBVIOUS
<1>1. screen' = Append(screen, core_sys_pct[DrawnCore]) /\ Len(screen) < 2 * painter.cores
  BY DEF DrawSystem
<1>2. Own(core_sys_pct[DrawnCore])
  BY <1>1, DrawnCoreIsOne DEF StatsInv, Measured
<1> HIDE DEF Own
<1>3. IsList(screen') /\ \A i \in DOMAIN screen' : Own(screen'[i])
  BY <1>1, <1>2, OneMoreDrawn, Zenon DEF StatsInv
<1>4. Shaped'
  BY <1>3 DEF StatsInv, Shaped, DrawSystem, block
<1>5. Measured'
  BY <1>3 DEF StatsInv, Measured, DrawSystem, block
<1> QED
  BY <1>4, <1>5, KeptUnchanged DEF StatsInv, DrawSystem

LEMMA OtherStepsKeep == StatsInv /\ (EndDraw \/ Hotplug) => StatsInv'
<1> SUFFICES ASSUME StatsInv, EndDraw \/ Hotplug
             PROVE  StatsInv'
  OBVIOUS
<1>1. Shaped'
  <2>1. CASE EndDraw
    BY <2>1, CoresCounted DEF StatsInv, Shaped, EndDraw, block
  <2>2. CASE Hotplug
    BY <2>2 DEF StatsInv, Shaped, Hotplug, block
  <2> QED
    BY <2>1, <2>2
<1>2. Measured'
  BY DEF StatsInv, Measured, EndDraw, Hotplug, block
<1>3. UNCHANGED <<reader, prev, sampled>>
  BY DEF EndDraw, Hotplug
<1> QED
  BY <1>1, <1>2, <1>3, KeptUnchanged DEF StatsInv

LEMMA StatsPreserved == StatsInv /\ [StatsNext]_statsVars => StatsInv'
<1>1. StatsInv /\ UNCHANGED statsVars => StatsInv'
  BY DEF StatsInv, Shaped, KeptOfLastSample, KeptOfThisSample, Measured, statsVars, block
<1> QED
  BY <1>1, BeginReadKeeps, ReadFailsKeeps, SetCountKeeps, ReadUserKeeps, ReadSystemKeeps, EndReadKeeps,
     BeginDrawKeeps, DrawUserKeeps, DrawSystemKeeps, OtherStepsKeep DEF StatsNext

LEMMA StatsHold == StatsSpec => []StatsInv
<1> QED
  BY StatsStart, StatsPreserved, PTL DEF StatsSpec

\* A usage that is drawn while the thread fills the block is of one core and of
\* one interval, unless cores came or went.
THEOREM UsageIsOfItsCore == StatsSpec => []UsageOfItsCore
<1>1. StatsInv => UsageOfItsCore
  BY DEF StatsInv, Measured, Own, UsageOfItsCore
<1> QED
  BY <1>1, StatsHold, PTL

-----------------------------------------------------------------------------
(* The grid of the cores: of its rows and columns only the four numbers of  *)
(* sub-columns are known, the rest is arithmetic for every width.           *)

GridTypeOK == grid \in GridCores \X GridWidths

LEMMA GridIsTyped == GridSpec => []GridTypeOK
<1>1. GridInit => GridTypeOK
  BY DEF GridInit, GridTypeOK
<1>2. GridTypeOK /\ [Resize]_grid => GridTypeOK'
  BY DEF GridTypeOK, Resize
<1> QED
  BY <1>1, <1>2, PTL DEF GridSpec

\* The rows kept suffice: they are counted for one core more or as many.
LEMMA RowsKept ==
  ASSUME NEW cores \in Nat \ {0}
  PROVE  GridRows(cores) + 3 <= RowsWanted(cores)
<1>1. (cores + 1) \div 2 <= (cores \div 2) + 1 /\ (cores + 1) \div 2 \in Nat /\ cores \div 2 \in Nat
  OBVIOUS
<1>2. \A a, b \in Nat : a <= b =>
        /\ (a + 1 - 1) \div 1 <= (b + 1 - 1) \div 1
        /\ (a + 2 - 1) \div 2 <= (b + 2 - 1) \div 2
        /\ (a + 4 - 1) \div 4 <= (b + 4 - 1) \div 4
        /\ (a + 8 - 1) \div 8 <= (b + 8 - 1) \div 8
  OBVIOUS
<1>3. Subcolumns(cores) \in {1, 2, 4, 8}
  BY DEF Subcolumns
<1> QED
  BY <1>1, <1>2, <1>3 DEF GridRows, RowsWanted, Upwards, Half

\* On two sides, the columns of a side have room for its cores.
LEMMA SidesHold ==
  ASSUME NEW cores \in Nat \ {0}, TwoSides(cores) \/ cores = 1
  PROVE  /\ Subcolumns(cores) \in {1, 2, 4, 8}
         /\ GridRows(cores) \in 1..8
         /\ Half(cores) \in Nat /\ Half(cores) <= Subcolumns(cores) * GridRows(cores)
         /\ cores <= 2 * Half(cores)
         /\ TwoSides(cores) => TotalColumns(cores) = 2 * Subcolumns(cores)
         /\ ~TwoSides(cores) => Half(cores) = 1 /\ cores = 1 /\ TotalColumns(cores) = Subcolumns(cores)
<1>1. Half(cores) \in Nat /\ cores <= 2 * Half(cores) /\ 2 * Half(cores) <= cores + 1
  BY DEF Half
<1>2. CASE cores = 1
  BY <1>1, <1>2 DEF Subcolumns, GridRows, Upwards, TwoSides, TotalColumns
<1>3. CASE cores > 4 /\ cores <= 8
  BY <1>1, <1>3 DEF Subcolumns, GridRows, Upwards, TwoSides, TotalColumns
<1>4. CASE cores > 8 /\ cores <= 16
  BY <1>1, <1>4 DEF Subcolumns, GridRows, Upwards, TwoSides, TotalColumns
<1>5. CASE cores > 16 /\ cores <= 32
  BY <1>1, <1>5 DEF Subcolumns, GridRows, Upwards, TwoSides, TotalColumns
<1>6. CASE cores > 32 /\ cores <= 128
  <2>1. Subcolumns(cores) = 8 /\ TwoSides(cores) /\ TotalColumns(cores) = 16
    <3>1. Subcolumns(cores) = 8
      BY <1>6 DEF Subcolumns
    <3>2. TwoSides(cores)
      BY <1>6 DEF TwoSides
    <3> QED
      BY <3>1, <3>2 DEF TotalColumns
  <2>2. GridRows(cores) = (Half(cores) + 7) \div 8
    BY <1>1, <2>1 DEF GridRows, Upwards
  <2>3. Half(cores) \in 17..64
    BY <1>1, <1>6
  <2>4. \A h \in 17..64 : (h + 7) \div 8 \in 1..8 /\ h <= 8 * ((h + 7) \div 8)
    OBVIOUS
  <2>5. GridRows(cores) \in 1..8 /\ Half(cores) <= 8 * GridRows(cores)
    BY <2>2, <2>3, <2>4
  <2> QED
    BY <1>1, <1>6, <2>1, <2>5
<1> QED
  BY <1>2, <1>3, <1>4, <1>5, <1>6 DEF TwoSides

\* Going down the columns of "height" cores each.
LEMMA DownTheColumns ==
  ASSUME NEW height \in 1..8, NEW n \in Nat
  PROVE  /\ n \div height \in Nat /\ n % height \in 0..(height - 1)
         /\ n = height * (n \div height) + (n % height)
         /\ \A s \in {1, 2, 4, 8} : n < s * height => n \div height < s
<1>1. height \in {1, 2, 3, 4, 5, 6, 7, 8}
  OBVIOUS
<1> QED
  BY <1>1

LEMMA Products ==
  ASSUME NEW a \in Nat, NEW b \in Nat, NEW w \in Nat, a < b
  PROVE  a * w + w <= b * w
<1>1. PICK d \in Nat : b = a + 1 + d
  <2>1. b - a - 1 \in Nat /\ b = a + 1 + (b - a - 1)
    OBVIOUS
  <2> QED
    BY <2>1
<1>2. b * w = a * w + w + d * w
  BY <1>1
<1>3. d * w >= 0
  OBVIOUS
<1> QED
  BY <1>1, <1>2, <1>3

\* A place: the side and the line of the core give its column and its row.
Column(i, cores) ==
  LET right == TwoSides(cores) /\ i >= Half(cores)
      local == IF right THEN i - Half(cores) ELSE i
  IN  (IF right THEN Subcolumns(cores) ELSE 0) + (local \div GridRows(cores))

Row(i, cores) ==
  LET right == TwoSides(cores) /\ i >= Half(cores)
      local == IF right THEN i - Half(cores) ELSE i
  IN  local % GridRows(cores)

\* Every core has a column and a row of its own.
LEMMA PlacesDiffer ==
  ASSUME NEW cores \in Nat \ {0}, TwoSides(cores) \/ cores = 1
  PROVE  \A i \in 0..(cores - 1) :
           /\ Row(i, cores) \in 0..(GridRows(cores) - 1)
           /\ Column(i, cores) \in 0..(TotalColumns(cores) - 1)
           /\ \A j \in 0..(cores - 1) :
                Row(i, cores) = Row(j, cores) /\ Column(i, cores) = Column(j, cores) => i = j
<1> DEFINE height == GridRows(cores)  sub == Subcolumns(cores)  half == Half(cores)
           right(i) == TwoSides(cores) /\ i >= half
           local(i) == IF right(i) THEN i - half ELSE i
<1>1. /\ sub \in {1, 2, 4, 8} /\ height \in 1..8
      /\ half \in Nat /\ half <= sub * height /\ cores <= 2 * half
      /\ TwoSides(cores) => TotalColumns(cores) = 2 * sub
      /\ ~TwoSides(cores) => half = 1 /\ cores = 1 /\ TotalColumns(cores) = sub
  BY SidesHold
<1>2. ASSUME NEW i \in 0..(cores - 1)
      PROVE  local(i) \in Nat /\ local(i) < half
  BY <1>1
<1> HIDE DEF height, sub, half
<1>3. ASSUME NEW i \in 0..(cores - 1)
      PROVE  /\ local(i) \div height \in 0..(sub - 1) /\ local(i) % height \in 0..(height - 1)
             /\ local(i) = height * (local(i) \div height) + (local(i) % height)
  <2> DEFINE n == local(i)
  <2>1. n \in Nat /\ n < half
    BY <1>2
  <2> HIDE DEF n
  <2>2. n < sub * height
    BY <1>1, <2>1
  <2>3. n \div height \in 0..(sub - 1) /\ n % height \in 0..(height - 1)
        /\ n = height * (n \div height) + (n % height)
    BY <1>1, <2>1, <2>2, DownTheColumns
  <2> QED
    BY <2>3 DEF n
<1>4. ASSUME NEW i \in 0..(cores - 1)
      PROVE  /\ Row(i, cores) = local(i) % height
             /\ Column(i, cores) = (IF right(i) THEN sub ELSE 0) + (local(i) \div height)
  BY DEF Row, Column, height, sub, half
<1>5. ASSUME NEW i \in 0..(cores - 1)
      PROVE  /\ Row(i, cores) \in 0..(height - 1)
             /\ Column(i, cores) \in 0..(TotalColumns(cores) - 1)
  <2>1. PICK c \in 0..(sub - 1) : c = local(i) \div height
    BY <1>3
  <2>2. Column(i, cores) = (IF right(i) THEN sub ELSE 0) + c
    BY <1>4, <2>1
  <2>3. Row(i, cores) \in 0..(height - 1)
    BY <1>3, <1>4
  <2>4. CASE right(i)
    <3>1. Column(i, cores) = sub + c /\ TotalColumns(cores) = 2 * sub
      BY <1>1, <2>2, <2>4
    <3> QED
      BY <1>1, <2>3, <3>1
  <2>5. CASE ~right(i)
    <3>1. Column(i, cores) = c /\ TotalColumns(cores) \in {sub, 2 * sub}
      BY <1>1, <2>1, <2>2, <2>5
    <3> QED
      BY <1>1, <2>3, <3>1
  <2> QED
    BY <2>4, <2>5
<1>6. ASSUME NEW i \in 0..(cores - 1), NEW j \in 0..(cores - 1),
             Row(i, cores) = Row(j, cores), Column(i, cores) = Column(j, cores)
      PROVE  i = j
  <2>1. PICK c \in 0..(sub - 1), r \in 0..(height - 1) :
          c = local(i) \div height /\ r = local(i) % height /\ local(i) = height * c + r
    BY <1>3
  <2>2. PICK d \in 0..(sub - 1), q \in 0..(height - 1) :
          d = local(j) \div height /\ q = local(j) % height /\ local(j) = height * d + q
    BY <1>3
  <2>3. r = q /\ (IF right(i) THEN sub ELSE 0) + c = (IF right(j) THEN sub ELSE 0) + d
    BY <1>4, <1>6, <2>1, <2>2
  <2>4. c = d /\ (right(i) <=> right(j))
    BY <1>1, <2>3
  <2>5. local(i) = local(j)
    BY <2>1, <2>2, <2>3, <2>4
  <2> QED
    BY <1>1, <2>4, <2>5
<1> QED
  BY <1>5, <1>6 DEF height

\* Where the columns start, and that each ends before the next begins and the
\* last in the terminal.
LEMMA ColumnsApart ==
  ASSUME NEW total \in {1, 2, 4, 8, 16}, NEW cols \in Nat, cols >= 10 * total
  PROVE  LET w == cols \div total
             spare == cols % total
             X(c) == c * w + (IF c > spare THEN spare ELSE c)
         IN  /\ w \in Nat /\ w >= 10
             /\ \A c \in 0..(total - 1) : X(c) \in Nat /\ X(c) + w <= cols
             /\ \A c, d \in 0..(total - 1) : c < d => X(c) + w <= X(d)
<1> DEFINE w == cols \div total  spare == cols % total
           X(c) == c * w + (IF c > spare THEN spare ELSE c)
<1>1. w \in Nat /\ w >= 10 /\ spare \in Nat /\ cols = total * w + spare
  OBVIOUS
<1> HIDE DEF w, spare
<1>2. ASSUME NEW c \in 0..(total - 1)
      PROVE  c * w \in Nat /\ c * w + w <= total * w /\ total * w \in Nat
  BY <1>1, Products
<1>3. ASSUME NEW c \in 0..(total - 1)
      PROVE  X(c) \in Nat /\ X(c) + w <= cols
  BY <1>1, <1>2
<1>4. ASSUME NEW c \in 0..(total - 1), NEW d \in 0..(total - 1), c < d
      PROVE  X(c) + w <= X(d)
  <2>1. c * w + w <= d * w /\ c * w \in Nat /\ d * w \in Nat
    BY <1>1, <1>4, Products
  <2> QED
    BY <1>1, <1>4, <2>1
<1> QED
  BY <1>1, <1>3, <1>4 DEF w, spare

\* With one core, or 5 to 128, and 10 columns for each of the grid's, every core
\* has a place of its own in the terminal and in the rows kept; these have room
\* for the three lines below the grid, whatever the number of cores.
THEOREM CoresHaveTheirPlace == GridSpec => []GridFits
<1>1. GridTypeOK => GridFits
  <2> SUFFICES ASSUME GridTypeOK
               PROVE  GridFits
    OBVIOUS
  <2> DEFINE cores == grid[1]  cols == grid[2]
             places == [i \in 0..(cores - 1) |-> Place(i, cores, cols)]
             w == ColumnWidth(cores, cols)  total == TotalColumns(cores)
             spare == cols % total
             X(c) == c * w + (IF c > spare THEN spare ELSE c)
  <2>1. cores \in Nat \ {0} /\ cols \in Nat \ {0}
    BY GridAssumption DEF GridTypeOK
  <2> HIDE DEF cores, cols
  <2>2. GridRows(cores) + 3 <= RowsWanted(cores)
    BY <2>1, RowsKept
  <2>3. ASSUME TwoSides(cores) \/ cores = 1, cols >= 10 * total
        PROVE  /\ IsInjective(places)
               /\ \A i \in DOMAIN places : /\ places[i].row < GridRows(cores)
                                       /\ places[i].x + w <= cols
    <3>1. total \in {1, 2, 4, 8, 16} /\ GridRows(cores) \in 1..8
      BY <2>1, <2>3, SidesHold
    <3>2. /\ w \in Nat /\ w >= 10
          /\ \A c \in 0..(total - 1) : X(c) \in Nat /\ X(c) + w <= cols
          /\ \A c, d \in 0..(total - 1) : c < d => X(c) + w <= X(d)
      <4> HIDE DEF total
      <4>1. cols \div total >= 10 /\ cols \div total \in Nat
        BY <2>1, <2>3, <3>1, ColumnsApart
      <4>2. w = cols \div total
        BY <4>1 DEF ColumnWidth, total
      <4> HIDE DEF w
      <4> QED
        BY <2>1, <2>3, <3>1, <4>2, ColumnsApart
    <3>3. ASSUME NEW i \in 0..(cores - 1)
          PROVE  places[i].row = Row(i, cores) /\ places[i].x = X(Column(i, cores))
      BY DEF Place, Row, Column
    <3> HIDE DEF X, w, total, places
    <3>4. ASSUME NEW i \in 0..(cores - 1)
          PROVE  /\ Row(i, cores) \in 0..(GridRows(cores) - 1)
                 /\ Column(i, cores) \in 0..(total - 1)
                 /\ \A j \in 0..(cores - 1) :
                      Row(i, cores) = Row(j, cores) /\ Column(i, cores) = Column(j, cores) => i = j
      BY <2>1, <2>3, PlacesDiffer DEF total
    <3>5. ASSUME NEW i \in 0..(cores - 1)
          PROVE  places[i].row < GridRows(cores) /\ places[i].x + w <= cols
      <4>1. /\ places[i].row = Row(i, cores) /\ places[i].x = X(Column(i, cores))
        BY <3>3
      <4>2. X(Column(i, cores)) + w <= cols
        BY <3>2, <3>4
      <4> QED
        BY <3>1, <3>4, <4>1, <4>2
    <3>6. ASSUME NEW c \in 0..(total - 1), NEW d \in 0..(total - 1), X(c) = X(d)
          PROVE  c = d
      BY <3>1, <3>2, <3>6
    <3>7. ASSUME NEW i \in 0..(cores - 1), NEW j \in 0..(cores - 1), places[i] = places[j]
          PROVE  i = j
      <4>1. Row(i, cores) = Row(j, cores) /\ X(Column(i, cores)) = X(Column(j, cores))
        BY <3>3, <3>7
      <4>2. Column(i, cores) = Column(j, cores)
        BY <3>4, <3>6, <4>1
      <4> QED
        BY <3>4, <4>1, <4>2
    <3>8. DOMAIN places = 0..(cores - 1)
      BY DEF places
    <3>9. IsInjective(places)
      BY <3>7, <3>8 DEF IsInjective
    <3> QED
      BY <3>5, <3>8, <3>9
  <2> QED
    BY <2>2, <2>3 DEF GridFits, cores, cols
<1> QED
  BY <1>1, GridIsTyped, PTL

-----------------------------------------------------------------------------
(* The sweep of fdinfo.                                                     *)

Told == [file : Files \cup {NoFile}, base : {<<>>, <<1>>}]
ProcessRow == [pid : Pids, files : Seq(Told)]

\* What was remembered is of the last sweep, what is entered is of this one.
Fresh(last_, current_) ==
  /\ \A c \in DOMAIN last_ : last_[c] = 1
  /\ \A c \in DOMAIN current_ : current_[c] = 0

\* What is told of the files of a row is what was told, but at place l of the last
\* row, where something new is.
OneMoreFile(table, new, told, l) ==
  \A i \in DOMAIN new : \A k \in DOMAIN new[i].files :
    \/ i = Len(new) /\ k = l /\ new[i].files[k] = told
    \/ /\ i \in DOMAIN table /\ k \in DOMAIN table[i].files
       /\ new[i].pid = table[i].pid /\ new[i].files[k] = table[i].files[k]

\* A table has got what is told of a process: in its last row, which is new if
\* the last one was another process's.
Grew(table, new, p, told) ==
  /\ new \in Seq(ProcessRow)
  /\ new # <<>> /\ new[Len(new)].pid = p
  /\ \A i \in DOMAIN new :
       \/ i \in DOMAIN table /\ new[i].pid = table[i].pid
       \/ i = Len(new) /\ (table # <<>> => table[Len(table)].pid # p)
  /\ \E l : OneMoreFile(table, new, told, l)

LEMMA CountedIs ==
  ASSUME NEW table \in Seq(ProcessRow), NEW p \in Pids, NEW f \in Files \cup {NoFile}, NEW usage \in {<<>>, << 1 >>}
  PROVE  Grew(table, Counted(table, p, f, usage), p, [file |-> f, base |-> usage])
<1> DEFINE told == [file |-> f, base |-> usage]
           n == Len(table)
           new == Counted(table, p, f, usage)
<1>1. told \in Told
  BY DEF Told
<1>2. n \in Nat /\ DOMAIN table = 1..n /\ (table # <<>> <=> n # 0)
  OBVIOUS
<1> HIDE DEF told
<1>3. CASE table # <<>> /\ table[n].pid = p
  <2> DEFINE files == table[n].files
             more == Append(files, told)
             entry == [pid |-> p, files |-> more]
             l == Len(files) + 1
  <2>1. n \in 1..n /\ table[n] \in ProcessRow
    BY <1>2, <1>3
  <2>2. files \in Seq(Told) /\ table[n] = [pid |-> p, files |-> files]
    BY <1>3, <2>1 DEF ProcessRow
  <2>3. /\ more \in Seq(Told)
        /\ \A k \in DOMAIN more : (k = l /\ more[k] = told) \/ (k \in DOMAIN files /\ more[k] = files[k])
    <3> HIDE DEF files
    <3>1. more \in Seq(Told) /\ DOMAIN more = 1..l /\ Len(files) \in Nat /\ DOMAIN files = 1..Len(files)
          /\ more[l] = told /\ \A k \in 1..Len(files) : more[k] = files[k]
      BY <1>1, <2>2
    <3>2. \A k \in 1..l : k = l \/ k \in 1..Len(files)
      BY <3>1
    <3> HIDE DEF more, l
    <3>3. ASSUME NEW k \in DOMAIN more
          PROVE  (k = l /\ more[k] = told) \/ (k \in DOMAIN files /\ more[k] = files[k])
      <4>1. k \in 1..l
        BY <3>1
      <4>2. k = l \/ k \in 1..Len(files)
        BY <3>2, <4>1
      <4> QED
        BY <3>1, <4>2
    <3> QED
      BY <3>1, <3>3, Zenon
  <2> HIDE DEF l
  <2>4. entry \in ProcessRow /\ entry.pid = p /\ entry.files = more
    BY <2>3 DEF ProcessRow
  <2>5. new = [table EXCEPT ![n].files = Append(@, told)]
    <3>1. Last(table).pid = p
      BY <1>3, Zenon DEF Last
    <3> QED
      BY <1>3, <3>1, Zenon DEF Counted, told
  <2>6. new = [table EXCEPT ![n] = entry]
    <3>1. [table EXCEPT ![n].files = Append(@, told)]
             = [table EXCEPT ![n] = [table[n] EXCEPT !.files = Append(@, told)]]
      BY Zenon
    <3>2. [table[n] EXCEPT !.files = Append(@, told)] = [table[n] EXCEPT !.files = more]
      BY Zenon
    <3> HIDE DEF files, more
    <3>3. [table[n] EXCEPT !.files = more] = entry
      BY <2>2
    <3> QED
      BY <2>5, <3>1, <3>2, <3>3, Zenon DEF more, files
  <2> HIDE DEF entry, more, files, new
  <2>7. /\ new \in Seq(ProcessRow) /\ Len(new) = n /\ DOMAIN new = 1..n
        /\ new[n] = entry /\ \A i \in 1..n : i # n => new[i] = table[i]
    <3>1. n \in DOMAIN table
      BY <1>2, <2>1
    <3> HIDE DEF n
    <3> QED
      BY <1>2, <2>4, <2>6, <3>1
  <2>8. new # <<>>
    <3>1. n # 0 /\ Len(<<>>) = 0
      BY <1>2, <1>3
    <3> QED
      BY <2>7, <3>1, Zenon
  <2>9. \A i \in DOMAIN new : i \in DOMAIN table /\ new[i].pid = table[i].pid
    BY <1>2, <1>3, <2>4, <2>7
  <2>10. ASSUME NEW i \in DOMAIN new, NEW k \in DOMAIN new[i].files
         PROVE  \/ i = Len(new) /\ k = l /\ new[i].files[k] = told
                \/ /\ i \in DOMAIN table /\ k \in DOMAIN table[i].files
                   /\ new[i].pid = table[i].pid /\ new[i].files[k] = table[i].files[k]
    <3>1. CASE i = n
      BY <1>2, <2>3, <2>4, <2>7, <2>9, <2>10, <3>1, Zenon DEF files
    <3>2. CASE i # n
      BY <1>2, <2>7, <2>9, <2>10, <3>2, Zenon
    <3> QED
      BY <3>1, <3>2
  <2>11. new[Len(new)].pid = p
    BY <2>4, <2>7
  <2>12. OneMoreFile(table, new, told, l)
    BY <2>10, Zenon DEF OneMoreFile
  <2>13. Grew(table, new, p, told)
    BY <2>7, <2>8, <2>9, <2>11, <2>12, Zenon DEF Grew
  <2> QED
    BY <2>13, Zenon DEF new, told
<1>4. CASE ~(table # <<>> /\ table[n].pid = p)
  <2> DEFINE files == <<told>>
             entry == [pid |-> p, files |-> files]
  <2>1. new = Append(table, entry)
    <3>1. ~(table # <<>> /\ Last(table).pid = p)
      BY <1>4, Zenon DEF Last
    <3> QED
      BY <3>1, Zenon DEF Counted, told
  <2>2. files \in Seq(Told) /\ DOMAIN files = {1} /\ files[1] = told
    BY <1>1
  <2> HIDE DEF files
  <2>3. entry \in ProcessRow /\ entry.pid = p /\ entry.files = files
    BY <2>2 DEF ProcessRow
  <2> HIDE DEF entry
  <2>4. /\ new \in Seq(ProcessRow) /\ Len(new) = n + 1 /\ DOMAIN new = 1..(n + 1)
        /\ new[n + 1] = entry /\ \A i \in 1..n : new[i] = table[i]
    BY <1>2, <2>1, <2>3
  <2>5. \A i \in 1..(n + 1) : i \in 1..n \/ i = n + 1
    BY <1>2
  <2>6. new # <<>>
    BY <1>2, <2>4
  <2> HIDE DEF new
  <2>7. \A i \in DOMAIN new : \/ i \in DOMAIN table /\ new[i].pid = table[i].pid
                              \/ i = Len(new) /\ (table # <<>> => table[Len(table)].pid # p)
    BY <1>2, <1>4, <2>4, <2>5, Zenon
  <2>8. ASSUME NEW i \in DOMAIN new, NEW k \in DOMAIN new[i].files
        PROVE  \/ i = Len(new) /\ k = 1 /\ new[i].files[k] = told
               \/ /\ i \in DOMAIN table /\ k \in DOMAIN table[i].files
                  /\ new[i].pid = table[i].pid /\ new[i].files[k] = table[i].files[k]
    <3>1. CASE i = n + 1
      <4>1. k \in {1}
        BY <2>2, <2>3, <2>4, <2>8, <3>1, Zenon
      <4> QED
        BY <2>2, <2>3, <2>4, <3>1, <4>1
    <3>2. CASE i \in 1..n
      BY <1>2, <2>4, <2>8, <3>2, Zenon
    <3> QED
      BY <2>4, <2>5, <3>1, <3>2
  <2>9. new[Len(new)].pid = p
    BY <2>3, <2>4
  <2>10. OneMoreFile(table, new, told, 1)
    BY <2>8, Zenon DEF OneMoreFile
  <2>11. Grew(table, new, p, told)
    BY <2>4, <2>6, <2>7, <2>9, <2>10, Zenon DEF Grew
  <2> QED
    BY <2>11, Zenon DEF new, told
<1> QED
  BY <1>3, <1>4

-----------------------------------------------------------------------------

SweepTypeOK ==
  /\ fds \in [Pids -> [Numbers -> Files \cup {NoFile, OtherFile}]]
  /\ active \subseteq DeviceSet /\ unvisited \subseteq Pids /\ sweeping \in BOOLEAN
  /\ client_pid \in Pids \cup {0} /\ fd_num \in Numbers \cup {0}
  /\ left \subseteq Numbers /\ seen_fds \subseteq Numbers
  /\ rows \in [DeviceSet -> Seq(ProcessRow)]
  /\ DOMAIN last = DeviceSet /\ DOMAIN current = DeviceSet

\* The old caches have what was used up to the last sweep, the new ones what has
\* been seen in this one.
CachesOK == \A d \in DeviceSet : Fresh(last[d], current[d])

\* A number is told once; it is compared before it is seen, and seen before it is
\* left.
WalkOK ==
  /\ client_pid = 0 => fd_num = 0 /\ seen_fds = {} /\ left = {}
  /\ client_pid # 0 => sweeping /\ client_pid \notin unvisited
  /\ fd_num = 0 => against = {} /\ asked = {}
  /\ \A i \in asked : i \in DOMAIN Devices /\ Devices[i] \in active
  /\ against # {} => fd_num \notin seen_fds
  /\ left \cap (seen_fds \cup {fd_num}) = {}

\* The rows of a device are those of processes that were visited, the last one
\* may be that of the process that is.
RowsOK(d) ==
  /\ \A i \in DOMAIN rows[d] :
       /\ rows[d][i].pid \notin unvisited
       /\ rows[d][i].pid = client_pid => i = Len(rows[d])
  /\ \A i, j \in DOMAIN rows[d] : rows[d][i].pid = rows[d][j].pid => i = j

\* The numbers that are left behind hold files, each its own, and what is counted
\* of the process is among them; the one that is looked at holds another than
\* those it has been compared with.
SeenOK ==
  /\ \A n \in seen_fds \cup {fd_num} : n # 0 => fds[client_pid][n] \in Files
  /\ \A m, n \in seen_fds \ {fd_num} : fds[client_pid][m] = fds[client_pid][n] => m = n
  /\ fd_num # 0 => \A m \in seen_fds \ (against \cup {fd_num}) : fds[client_pid][m] # fds[client_pid][fd_num]
  /\ \A d \in active : \A i \in DOMAIN rows[d] :
       rows[d][i].pid = client_pid =>
         \A k \in DOMAIN rows[d][i].files :
           \E m \in seen_fds \ {fd_num} : fds[client_pid][m] = rows[d][i].files[k].file

SweepInv ==
  /\ SweepTypeOK /\ CachesOK /\ WalkOK
  /\ sweeping => (\A d \in active : RowsOK(d)) /\ (\A p \in Pids \ gaveUp : Unique(p) /\ Real(p))
  /\ client_pid # 0 /\ client_pid \notin gaveUp => SeenOK

LEMMA SweepStart == SweepInit => SweepInv
<1> SUFFICES ASSUME SweepInit
             PROVE  SweepInv
  OBVIOUS
<1>1. SweepTypeOK
  <2>1. <<>> \in Seq(ProcessRow)
    OBVIOUS
  <2> QED
    BY <2>1 DEF SweepInit, SweepTypeOK, NoEntries
<1>2. CachesOK
  <2>1. Fresh(<<>>, <<>>)
    BY DEF Fresh
  <2> QED
    BY <2>1 DEF SweepInit, NoEntries, CachesOK
<1>3. WalkOK
  BY DEF SweepInit, WalkOK
<1> QED
  BY <1>1, <1>2, <1>3 DEF SweepInv, SweepInit

LEMMA SweepImplies == SweepInv => CountedOnce /\ GrowthSinceLastSweep
<1> SUFFICES ASSUME SweepInv
             PROVE  CountedOnce /\ GrowthSinceLastSweep
  OBVIOUS
<1>1. GrowthSinceLastSweep
  <2>1. SUFFICES ASSUME NEW d \in DeviceSet, NEW i \in DOMAIN rows[d],
                        NEW k \in DOMAIN rows[d][i].files
                 PROVE  rows[d][i].files[k].base \in {<<>>, <<1>>}
    BY DEF GrowthSinceLastSweep
  <2>2. rows[d] \in Seq(ProcessRow)
    BY DEF SweepInv, SweepTypeOK
  <2>3. rows[d][i] \in ProcessRow
    BY <2>2
  <2>4. rows[d][i].files \in Seq(Told)
    BY <2>3 DEF ProcessRow
  <2>5. rows[d][i].files[k] \in Told
    BY <2>4
  <2> QED
    BY <2>5 DEF Told
<1>2. CountedOnce
  <2>1. SUFFICES ASSUME sweeping
                 PROVE  \A d \in active : IsInjective([i \in DOMAIN rows[d] |-> rows[d][i].pid])
    BY Zenon DEF CountedOnce, SweepInv
  <2>2. SUFFICES ASSUME NEW d \in active
                 PROVE  IsInjective([i \in DOMAIN rows[d] |-> rows[d][i].pid])
    OBVIOUS
  <2>3. RowsOK(d)
    BY <2>1 DEF SweepInv
  <2> QED
    BY <2>3 DEF RowsOK, IsInjective
<1> QED
  BY <1>1, <1>2

\* What the invariant says of rows and caches does not change with the descriptors.
LEMMA OpenKeeps ==
  ASSUME SweepInv, NEW p \in Pids, NEW n \in Numbers, NEW f \in Files \cup {OtherFile}, Open(p, n, f)
  PROVE  SweepInv'
<1>1. /\ UNCHANGED <<active, unvisited, sweeping, client_pid, left, seen_fds, fd_num, against, asked>>
      /\ UNCHANGED <<rows, last, current, gaveUp>>
      /\ fds' = [fds EXCEPT ![p][n] = f] /\ fds[p][n] = NoFile
  BY Zenon DEF Open, walk, caches
<1>2. fds \in [Pids -> [Numbers -> Files \cup {NoFile, OtherFile}]]
  BY DEF SweepInv, SweepTypeOK
<1>3. SweepTypeOK'
  <2>1. fds' \in [Pids -> [Numbers -> Files \cup {NoFile, OtherFile}]]
    BY <1>1, <1>2
  <2> QED
    BY <1>1, <2>1, Zenon DEF SweepInv, SweepTypeOK
<1>4. \A q \in Pids, m \in Numbers : fds[q][m] \in Files => fds'[q][m] = fds[q][m]
  BY <1>1, <1>2, FdsAssumption
<1>5. CachesOK' /\ WalkOK'
  BY <1>1, Zenon DEF SweepInv, CachesOK, WalkOK
<1>6. \A d : RowsOK(d) => RowsOK(d)'
  BY <1>1, Zenon DEF RowsOK
<1>7. \A q : (Unique(q) => Unique(q)') /\ (Real(q) => Real(q)')
  BY <1>1 DEF Unique, Real
<1>8. ASSUME client_pid # 0, SeenOK
      PROVE  SeenOK'
  <2>1. client_pid \in Pids /\ seen_fds \subseteq Numbers /\ (fd_num # 0 => fd_num \in Numbers)
    BY <1>8 DEF SweepInv, SweepTypeOK
  <2>2. \A m \in seen_fds \cup {fd_num} : m # 0 => fds'[client_pid][m] = fds[client_pid][m]
    BY <1>4, <1>8, <2>1 DEF SeenOK
  <2>3. \A m \in seen_fds : fds'[client_pid][m] = fds[client_pid][m]
    <3>1. 0 \notin Numbers
      BY DEF Numbers
    <3> QED
      BY <2>1, <2>2, <3>1
  <2> QED
    BY <1>1, <1>8, <2>2, <2>3 DEF SeenOK
<1> QED
  BY <1>1, <1>3, <1>5, <1>6, <1>7, <1>8, Zenon DEF SweepInv

LEMMA CloseKeeps ==
  ASSUME SweepInv, NEW p \in Pids, NEW n \in Numbers, Close(p, n)
  PROVE  SweepInv'
<1>1. /\ UNCHANGED <<active, unvisited, sweeping, client_pid, left, seen_fds, fd_num, against, asked>>
      /\ UNCHANGED <<rows, last, current>>
      /\ fds' = [fds EXCEPT ![p][n] = NoFile] /\ gaveUp \subseteq gaveUp'
      /\ p = client_pid /\ n \in seen_fds \cup {fd_num} => client_pid \in gaveUp'
  BY DEF Close, walk, caches
<1>2. fds \in [Pids -> [Numbers -> Files \cup {NoFile, OtherFile}]]
  BY DEF SweepInv, SweepTypeOK
<1>3. SweepTypeOK'
  <2>1. fds' \in [Pids -> [Numbers -> Files \cup {NoFile, OtherFile}]]
    BY <1>1, <1>2
  <2> QED
    BY <1>1, <2>1, Zenon DEF SweepInv, SweepTypeOK
<1>4. \A q \in Pids, m \in Numbers : q # p \/ m # n => fds'[q][m] = fds[q][m]
  BY <1>1, <1>2
<1>5. CachesOK' /\ WalkOK'
  BY <1>1, Zenon DEF SweepInv, CachesOK, WalkOK
<1>6. \A d : RowsOK(d) => RowsOK(d)'
  BY <1>1, Zenon DEF RowsOK
<1>7. \A q : (Unique(q) => Unique(q)') /\ (Real(q) => Real(q)')
  BY <1>1 DEF Unique, Real
<1>8. ASSUME client_pid # 0, client_pid \notin gaveUp', SeenOK
      PROVE  SeenOK'
  <2>1. client_pid \in Pids /\ seen_fds \subseteq Numbers /\ (fd_num # 0 => fd_num \in Numbers)
    BY <1>8 DEF SweepInv, SweepTypeOK
  <2>2. \A m \in seen_fds \cup {fd_num} : m # 0 => fds'[client_pid][m] = fds[client_pid][m]
    BY <1>1, <1>4, <1>8, <2>1
  <2>3. \A m \in seen_fds : fds'[client_pid][m] = fds[client_pid][m]
    <3>1. 0 \notin Numbers
      BY DEF Numbers
    <3> QED
      BY <2>1, <2>2, <3>1
  <2> QED
    BY <1>1, <1>8, <2>2, <2>3 DEF SeenOK
<1> QED
  BY <1>1, <1>3, <1>5, <1>6, <1>7, <1>8, Zenon DEF SweepInv

LEMMA MonitorKeeps == ASSUME SweepInv, Monitor PROVE SweepInv'
<1>1. /\ UNCHANGED <<fds, unvisited, sweeping, client_pid, left, seen_fds, fd_num, against, asked>>
      /\ UNCHANGED <<rows, last, current, gaveUp>> /\ ~sweeping
  BY Zenon DEF Monitor, walk, caches
<1>2. active' \subseteq DeviceSet
  BY DEF Monitor
<1>3. client_pid = 0 /\ asked = {}
  BY <1>1, Zenon DEF SweepInv, WalkOK
<1>4. WalkOK'
  BY <1>1, <1>3 DEF SweepInv, WalkOK
<1> QED
  BY <1>1, <1>2, <1>3, <1>4, Zenon DEF SweepInv, SweepTypeOK, CachesOK

LEMMA BeginSweepKeeps == ASSUME SweepInv, BeginSweep PROVE SweepInv'
<1>1. /\ UNCHANGED <<fds, active, client_pid, left, seen_fds, fd_num, against, asked, last, current>>
      /\ ~sweeping /\ sweeping' = TRUE
      /\ rows' = [d \in DeviceSet |-> IF d \in active THEN <<>> ELSE rows[d]]
  BY Zenon DEF BeginSweep, walk
<1>2. unvisited' \subseteq Pids
  BY DEF BeginSweep
<1>3. client_pid = 0
  BY <1>1, Zenon DEF SweepInv, WalkOK
<1>4. rows' \in [DeviceSet -> Seq(ProcessRow)]
  <2>1. <<>> \in Seq(ProcessRow)
    OBVIOUS
  <2>2. \A d \in DeviceSet : rows[d] \in Seq(ProcessRow)
    BY DEF SweepInv, SweepTypeOK
  <2> QED
    BY <1>1, <2>1, <2>2
<1>5. \A d \in active : DOMAIN rows'[d] = {}
  <2>1. SUFFICES ASSUME NEW d \in active
                 PROVE  DOMAIN rows'[d] = {}
    OBVIOUS
  <2>2. rows'[d] = <<>>
    BY <1>1 DEF SweepInv, SweepTypeOK
  <2> QED
    BY <2>2
<1>6. \A d \in active : RowsOK(d)'
  BY <1>5, Zenon DEF RowsOK
<1>7. \A p : Unique(p)' /\ Real(p)'
  BY <1>1, <1>5 DEF Unique, Real
<1>8. SweepTypeOK' /\ CachesOK' /\ WalkOK'
  BY <1>1, <1>2, <1>3, <1>4, Zenon DEF SweepInv, SweepTypeOK, CachesOK, WalkOK
<1> QED
  BY <1>1, <1>3, <1>6, <1>7, <1>8, Zenon DEF SweepInv

LEMMA EndSweepKeeps == ASSUME SweepInv, EndSweep PROVE SweepInv'
<1>1. /\ UNCHANGED <<fds, active, unvisited, client_pid, left, seen_fds, fd_num, against, asked, rows, gaveUp>>
      /\ sweeping' = FALSE /\ client_pid = 0
      /\ last' = [d \in DeviceSet |-> IF d \in active THEN Swapped(current[d], last[d]) ELSE last[d]]
      /\ current' = [d \in DeviceSet |-> IF d \in active THEN <<>> ELSE current[d]]
  BY Zenon DEF EndSweep, walk
<1>2. CachesOK'
  <2>1. SUFFICES ASSUME NEW d \in DeviceSet
                 PROVE  Fresh(last'[d], current'[d])
    BY DEF CachesOK
  <2>2. Fresh(last[d], current[d])
    BY DEF SweepInv, CachesOK
  <2>3. CASE d \in active
    <3>1. last'[d] = Grown(current[d]) /\ current'[d] = <<>>
      BY <1>1, <2>3 DEF Swapped
    <3>2. \A c \in DOMAIN Grown(current[d]) : Grown(current[d])[c] = 1
      BY <2>2 DEF Grown, Fresh
    <3>3. DOMAIN <<>> = {}
      OBVIOUS
    <3> QED
      BY <3>1, <3>2, <3>3, Zenon DEF Fresh
  <2>4. CASE d \notin active
    BY <1>1, <2>2, <2>4
  <2> QED
    BY <2>3, <2>4
<1>3. DOMAIN last' = DeviceSet /\ DOMAIN current' = DeviceSet
  BY <1>1
<1>4. SweepTypeOK' /\ WalkOK'
  BY <1>1, <1>3, Zenon DEF SweepInv, SweepTypeOK, WalkOK
<1> QED
  BY <1>1, <1>2, <1>4, Zenon DEF SweepInv

LEMMA EnterKeeps == ASSUME SweepInv, NEW p \in Pids, Enter(p) PROVE SweepInv'
<1>1. /\ UNCHANGED <<fds, active, sweeping, seen_fds, fd_num, against, asked>>
      /\ UNCHANGED <<rows, last, current, gaveUp>>
      /\ sweeping /\ client_pid = 0 /\ p \in unvisited /\ unvisited' = unvisited \ {p}
  BY Zenon DEF Enter, caches
<1>2. \/ client_pid' = p /\ left' \subseteq Numbers
      \/ client_pid' = 0 /\ left' = left
  BY <1>1 DEF Enter
<1>3. seen_fds = {} /\ fd_num = 0 /\ against = {} /\ asked = {}
  BY <1>1, Zenon DEF SweepInv, WalkOK
<1>4. p # 0 /\ 0 \notin Numbers
  BY PidsAssumption DEF Numbers
<1>5. SweepTypeOK'
  BY <1>1, <1>2 DEF SweepInv, SweepTypeOK
<1>6. WalkOK'
  <2>1. left' \cap (seen_fds' \cup {fd_num'}) = {}
    BY <1>1, <1>2, <1>3, <1>4 DEF SweepInv, WalkOK
  <2> QED
    BY <1>1, <1>2, <1>3, <1>4, <2>1 DEF SweepInv, WalkOK
<1>7. \A d \in active : \A i \in DOMAIN rows[d] : rows[d][i].pid # p
  BY <1>1 DEF SweepInv, RowsOK
<1>8. \A d \in active : RowsOK(d)'
  <2>1. SUFFICES ASSUME NEW d \in active
                 PROVE  RowsOK(d)'
    OBVIOUS
  <2>2. RowsOK(d)
    BY <1>1, Zenon DEF SweepInv
  <2>3. \A i \in DOMAIN rows[d] : rows[d][i].pid # p /\ (rows[d][i].pid = 0 => i = Len(rows[d]))
    BY <1>1, <1>7, <2>2, Zenon DEF RowsOK
  <2> QED
    BY <1>1, <1>2, <2>2, <2>3, Zenon DEF RowsOK
<1>9. \A q : (Unique(q) => Unique(q)') /\ (Real(q) => Real(q)')
  BY <1>1 DEF Unique, Real
<1>10. client_pid' # 0 => SeenOK'
  BY <1>1, <1>2, <1>3, <1>7, Zenon DEF SeenOK
<1>11. CachesOK'
  BY <1>1, Zenon DEF SweepInv, CachesOK
<1> QED
  BY <1>1, <1>5, <1>6, <1>8, <1>9, <1>10, <1>11, Zenon DEF SweepInv

LEMMA LeaveKeeps == ASSUME SweepInv, Leave PROVE SweepInv'
<1>1. /\ UNCHANGED <<fds, active, unvisited, sweeping, left, fd_num, against, asked>>
      /\ UNCHANGED <<rows, last, current, gaveUp>>
      /\ client_pid # 0 /\ fd_num = 0 /\ left = {} /\ client_pid' = 0 /\ seen_fds' = {}
  BY Zenon DEF Leave, caches
<1>2. SweepTypeOK' /\ CachesOK'
  BY <1>1 DEF SweepInv, SweepTypeOK, CachesOK
<1>3. WalkOK'
  BY <1>1 DEF SweepInv, WalkOK
<1>4. ASSUME NEW d \in active, RowsOK(d)
      PROVE  RowsOK(d)'
  <2>1. \A i \in DOMAIN rows[d] : rows[d][i].pid # 0
    <3>1. SUFFICES ASSUME NEW i \in DOMAIN rows[d]
                   PROVE  rows[d][i].pid \in Pids
      BY PidsAssumption
    <3>2. rows[d] \in Seq(ProcessRow)
      BY DEF SweepInv, SweepTypeOK
    <3>3. rows[d][i] \in ProcessRow
      BY <3>2
    <3> QED
      BY <3>3 DEF ProcessRow
  <2> QED
    BY <1>1, <1>4, <2>1, Zenon DEF RowsOK
<1>5. \A q : (Unique(q) => Unique(q)') /\ (Real(q) => Real(q)')
  BY <1>1 DEF Unique, Real
<1> QED
  BY <1>1, <1>2, <1>3, <1>4, <1>5, Zenon DEF SweepInv

\* The walk goes on to another number, and no row changes.
WalkStep ==
  /\ UNCHANGED <<fds, active, unvisited, sweeping, client_pid>>
  /\ UNCHANGED <<rows, last, current, gaveUp>>

LEMMA WalkStepKeeps ==
  ASSUME SweepInv, WalkStep, WalkOK', fd_num' \in Numbers \cup {0},
         left' \subseteq Numbers, seen_fds' \subseteq Numbers,
         client_pid # 0 /\ SeenOK => SeenOK'
  PROVE  SweepInv'
<1>1. SweepTypeOK' /\ CachesOK'
  BY Zenon DEF SweepInv, SweepTypeOK, CachesOK, WalkStep
<1>2. \A d : RowsOK(d) => RowsOK(d)'
  BY Zenon DEF RowsOK, WalkStep
<1>3. \A q : (Unique(q) => Unique(q)') /\ (Real(q) => Real(q)')
  BY DEF Unique, Real, WalkStep
<1> QED
  BY <1>1, <1>2, <1>3, Zenon DEF SweepInv, WalkStep

LEMMA NextFdKeeps == ASSUME SweepInv, NextFd PROVE SweepInv'
<1>1. PICK n \in left :
        /\ left' = left \ {n}
        /\ IF fds[client_pid][n] \in Files
           THEN fd_num' = n /\ against' = seen_fds /\ asked' = {i \in DOMAIN Devices : Devices[i] \in active}
           ELSE UNCHANGED <<fd_num, against, asked>>
  BY DEF NextFd
<1>2. client_pid # 0 /\ fd_num = 0 /\ WalkStep /\ seen_fds' = seen_fds
  BY Zenon DEF NextFd, caches, WalkStep
<1>3. /\ left \subseteq Numbers /\ seen_fds \subseteq Numbers /\ n \in Numbers /\ n \notin seen_fds
      /\ 0 \notin Numbers
  <2>1. left \subseteq Numbers /\ seen_fds \subseteq Numbers /\ left \cap (seen_fds \cup {fd_num}) = {}
    BY Zenon DEF SweepInv, SweepTypeOK, WalkOK
  <2> QED
    BY <1>1, <2>1 DEF Numbers
<1>4. WalkOK'
  <2>1. left' \cap (seen_fds' \cup {fd_num'}) = {}
    BY <1>1, <1>2, <1>3 DEF SweepInv, WalkOK
  <2> QED
    BY <1>1, <1>2, <1>3, <2>1 DEF SweepInv, WalkOK, WalkStep
<1>5. ASSUME SeenOK
      PROVE  SeenOK'
  <2>1. CASE fds[client_pid][n] \in Files
    <3>1. seen_fds \ {n} = seen_fds /\ seen_fds \ {0} = seen_fds /\ seen_fds \ (seen_fds \cup {n}) = {}
      BY <1>3
    <3> QED
      BY <1>1, <1>2, <1>5, <2>1, <3>1 DEF SeenOK, WalkStep
  <2>2. CASE fds[client_pid][n] \notin Files
    BY <1>1, <1>2, <1>5, <2>2 DEF SeenOK, WalkStep
  <2> QED
    BY <2>1, <2>2
<1>6. fd_num' \in Numbers \cup {0} /\ left' \subseteq Numbers /\ seen_fds' \subseteq Numbers
  BY <1>1, <1>2, <1>3
<1> QED
  BY <1>2, <1>4, <1>5, <1>6, WalkStepKeeps

LEMMA CompareKeeps == ASSUME SweepInv, Compare PROVE SweepInv'
<1>1. PICK m \in against :
        IF SameFile(client_pid, m, fd_num) THEN NextNumber
        ELSE against' = against \ {m} /\ UNCHANGED <<fd_num, asked>>
  BY DEF Compare
<1>2. WalkStep /\ left' = left /\ seen_fds' = seen_fds
  BY Zenon DEF Compare, caches, WalkStep
<1>3. /\ fd_num # 0 /\ fd_num \notin seen_fds /\ fd_num \in Numbers
      /\ left \subseteq Numbers /\ seen_fds \subseteq Numbers /\ 0 \notin Numbers
      /\ left \cap (seen_fds \cup {fd_num}) = {}
  <2>1. against # {}
    BY <1>1
  <2>2. fd_num # 0 /\ fd_num \notin seen_fds
    BY <2>1, Zenon DEF SweepInv, WalkOK
  <2> QED
    BY <2>2 DEF SweepInv, SweepTypeOK, WalkOK, Numbers
<1>4. CASE SameFile(client_pid, m, fd_num)
  <2>1. fd_num' = 0 /\ against' = {} /\ asked' = {}
    BY <1>1, <1>4, Zenon DEF NextNumber
  <2>2. left' \cap (seen_fds' \cup {fd_num'}) = {}
    BY <1>2, <1>3, <2>1
  <2>3. WalkOK'
    BY <1>2, <1>3, <2>1, <2>2 DEF SweepInv, WalkOK, WalkStep
  <2>4. seen_fds \ {fd_num} = seen_fds /\ seen_fds \ {0} = seen_fds
    BY <1>3
  <2>5. ASSUME SeenOK
        PROVE  SeenOK'
    BY <1>2, <1>3, <2>1, <2>4, <2>5 DEF SeenOK, WalkStep
  <2>6. fd_num' \in Numbers \cup {0} /\ left' \subseteq Numbers /\ seen_fds' \subseteq Numbers
    BY <1>2, <1>3, <2>1
  <2> QED
    BY <1>2, <2>3, <2>5, <2>6, WalkStepKeeps
<1>5. CASE ~SameFile(client_pid, m, fd_num)
  <2>1. against' = against \ {m} /\ fd_num' = fd_num /\ asked' = asked
    BY <1>1, <1>5, Zenon
  <2>2. fds[client_pid][m] # fds[client_pid][fd_num]
    BY <1>5, Zenon DEF SameFile
  <2>3. WalkOK'
    BY <1>2, <1>3, <2>1 DEF SweepInv, WalkOK, WalkStep
  <2>4. \A k : k \notin (against \ {m}) \cup {fd_num} => k = m \/ k \notin against \cup {fd_num}
    OBVIOUS
  <2>5. ASSUME SeenOK
        PROVE  SeenOK'
    BY <1>2, <2>1, <2>2, <2>4, <2>5 DEF SeenOK, WalkStep
  <2>6. fd_num' \in Numbers \cup {0} /\ left' \subseteq Numbers /\ seen_fds' \subseteq Numbers
    BY <1>2, <1>3, <2>1
  <2> QED
    BY <1>2, <2>3, <2>5, <2>6, WalkStepKeeps
<1> QED
  BY <1>4, <1>5

\* Once it has been compared with all, the number holds a file of its own.
LEMMA AllDiffer ==
  ASSUME SeenOK, fd_num # 0, against = {}, seen_fds \subseteq Numbers
  PROVE  /\ (seen_fds \cup {fd_num}) \ {0} = seen_fds \cup {fd_num}
         /\ \A m \in seen_fds \ {fd_num} : fds[client_pid][m] # fds[client_pid][fd_num]
         /\ \A m, n \in seen_fds \cup {fd_num} : fds[client_pid][m] = fds[client_pid][n] => m = n
<1>1. 0 \notin seen_fds
  BY DEF Numbers
<1>2. \A m \in seen_fds \ {fd_num} : fds[client_pid][m] # fds[client_pid][fd_num]
  BY DEF SeenOK
<1>3. \A m \in seen_fds \cup {fd_num} : m = fd_num \/ m \in seen_fds \ {fd_num}
  OBVIOUS
<1>4. \A m, n \in seen_fds \ {fd_num} : fds[client_pid][m] = fds[client_pid][n] => m = n
  BY Zenon DEF SeenOK
<1> QED
  BY <1>1, <1>2, <1>3, <1>4

\* The callback refuses.
LEMMA RefusedKeeps ==
  ASSUME SweepInv, WalkStep, fd_num # 0, against = {}, left' = left, seen_fds' = seen_fds \cup {fd_num},
         NextNumber \/ (asked' \subseteq asked /\ UNCHANGED <<fd_num, against>>)
  PROVE  SweepInv'
<1>1. /\ fd_num \in Numbers /\ left \subseteq Numbers /\ seen_fds \subseteq Numbers /\ 0 \notin Numbers
      /\ left \cap (seen_fds \cup {fd_num}) = {}
  BY DEF SweepInv, SweepTypeOK, WalkOK, Numbers
<1>2. left' \cap (seen_fds' \cup {fd_num'}) = {}
  BY <1>1 DEF NextNumber
<1>3. WalkOK'
  BY <1>2 DEF SweepInv, WalkOK, WalkStep, NextNumber
<1>4. ASSUME SeenOK
      PROVE  SeenOK'
  <2>1. /\ (seen_fds \cup {fd_num}) \ {0} = seen_fds \cup {fd_num}
        /\ \A m, n \in seen_fds \cup {fd_num} : fds[client_pid][m] = fds[client_pid][n] => m = n
    BY <1>1, <1>4, AllDiffer
  <2>2. (seen_fds \cup {fd_num}) \ {fd_num} = seen_fds \ {fd_num}
    OBVIOUS
  <2>3. CASE NextNumber
    BY <1>4, <2>1, <2>3 DEF SeenOK, WalkStep, NextNumber
  <2>4. CASE UNCHANGED <<fd_num, against>>
    <3>1. seen_fds' \ {fd_num} = seen_fds \ {fd_num} /\ seen_fds' \cup {fd_num} = seen_fds \cup {fd_num}
          /\ seen_fds' \ (against \cup {fd_num}) = seen_fds \ (against \cup {fd_num})
      BY <2>2
    <3> QED
      BY <1>4, <2>4, <3>1 DEF SeenOK, WalkStep
  <2> QED
    BY <2>3, <2>4
<1>5. fd_num' \in Numbers \cup {0} /\ left' \subseteq Numbers /\ seen_fds' \subseteq Numbers
  BY <1>1 DEF NextNumber
<1> QED
  BY <1>3, <1>4, <1>5, WalkStepKeeps

\* A parser leaves the caches fresh, and derives a usage of the last sweep.
LEMMA ParseIs ==
  ASSUME NEW cache, Fresh(cache.last, cache.current), NEW client
  PROVE  /\ Fresh(Parse(cache, client).last, Parse(cache, client).current)
         /\ Parse(cache, client).usage \in {<<>>, << 1 >>}
<1> DEFINE parsed == Parse(cache, client)
<1>1. parsed = [usage |-> parsed.usage, last |-> parsed.last, current |-> parsed.current]
      /\ parsed.usage = (IF client \in DOMAIN cache.last THEN <<cache.last[client]>> ELSE <<>>)
      /\ parsed.last = [c \in DOMAIN cache.last \ {client} |-> cache.last[c]]
      /\ parsed.current = (IF client \in DOMAIN cache.current THEN cache.current
             ELSE [c \in DOMAIN cache.current \cup {client} |->
                     IF c = client THEN 0 ELSE cache.current[c]])
  BY DEF Parse, Restrict
<1> HIDE DEF parsed
<1>2. \A c \in DOMAIN parsed.last : parsed.last[c] = 1
  BY <1>1 DEF Fresh
<1>3. \A c \in DOMAIN parsed.current : parsed.current[c] = 0
  BY <1>1 DEF Fresh
<1>4. parsed.usage \in {<<>>, << 1 >>}
  BY <1>1 DEF Fresh
<1> QED
  BY <1>2, <1>3, <1>4 DEF Fresh, parsed

\* The callback of a device takes the file.
LEMMA TakenKeeps ==
  ASSUME SweepInv, UNCHANGED <<fds, active, unvisited, sweeping, client_pid, left, gaveUp>>,
         fd_num # 0, against = {}, seen_fds' = seen_fds \cup {fd_num}, NextNumber,
         NEW i \in asked, Take(Devices[i], fds[client_pid][fd_num])
  PROVE  SweepInv'
<1> DEFINE d == Devices[i]
           f == fds[client_pid][fd_num]
           table == rows[d]
           cache == [last |-> last[d], current |-> current[d]]
           parsed == Parse(cache, <<client_pid, f>>)
           what == IF f \in Files THEN f ELSE NoFile
           usage == IF f \in Files THEN parsed.usage ELSE <<>>
           told == [file |-> what, base |-> usage]
           new == Counted(table, client_pid, what, usage)
<1>1. /\ fd_num \in Numbers /\ left \subseteq Numbers /\ seen_fds \subseteq Numbers /\ 0 \notin Numbers
      /\ left \cap (seen_fds \cup {fd_num}) = {}
  BY DEF SweepInv, SweepTypeOK, WalkOK, Numbers
<1>2. client_pid # 0 /\ client_pid \in Pids /\ client_pid \notin unvisited /\ sweeping
      /\ d \in active /\ d \in DeviceSet
  BY DEF SweepInv, SweepTypeOK, WalkOK
<1>3. /\ rows' = [rows EXCEPT ![d] = new]
      /\ \/ last' = [last EXCEPT ![d] = parsed.last] /\ current' = [current EXCEPT ![d] = parsed.current]
         \/ last' = last /\ current' = current
  BY DEF Take
<1>4. fd_num' = 0 /\ against' = {} /\ asked' = {}
  BY Zenon DEF NextNumber
<1>5. table \in Seq(ProcessRow) /\ RowsOK(d)
  BY <1>2 DEF SweepInv, SweepTypeOK
<1>6. Fresh(parsed.last, parsed.current) /\ parsed.usage \in {<<>>, << 1 >>}
  <2>1. Fresh(cache.last, cache.current)
    BY <1>2 DEF SweepInv, CachesOK
  <2> HIDE DEF cache
  <2> QED
    BY <2>1, ParseIs
<1> HIDE DEF parsed
<1>7. Grew(table, new, client_pid, told)
  <2>1. usage \in {<<>>, << 1 >>} /\ what \in Files \cup {NoFile}
    BY <1>6
  <2> HIDE DEF usage, what, table, f, d
  <2> QED
    BY <1>2, <1>5, <2>1, CountedIs DEF new, told
<1>8. told.file = what /\ (f \in Files => what = f)
  OBVIOUS
<1> HIDE DEF what, usage, f, told, new, table, cache, d
<1>9. /\ rows' \in [DeviceSet -> Seq(ProcessRow)] /\ rows'[d] = new
      /\ \A e \in DeviceSet : e # d => rows'[e] = rows[e]
  <2>1. new \in Seq(ProcessRow) /\ rows \in [DeviceSet -> Seq(ProcessRow)]
    BY <1>7 DEF Grew, SweepInv, SweepTypeOK
  <2> QED
    BY <1>2, <1>3, <2>1
<1>10. DOMAIN last' = DeviceSet /\ DOMAIN current' = DeviceSet /\ CachesOK'
  <2>1. DOMAIN last = DeviceSet /\ DOMAIN current = DeviceSet
    BY DEF SweepInv, SweepTypeOK
  <2>2. CASE last' = [last EXCEPT ![d] = parsed.last] /\ current' = [current EXCEPT ![d] = parsed.current]
    <3>1. /\ last'[d] = parsed.last /\ current'[d] = parsed.current
          /\ \A e \in DeviceSet : e # d => last'[e] = last[e] /\ current'[e] = current[e]
      BY <1>2, <2>1, <2>2
    <3> QED
      BY <1>6, <2>1, <2>2, <3>1 DEF SweepInv, CachesOK
  <2>3. CASE last' = last /\ current' = current
    BY <2>1, <2>3 DEF SweepInv, CachesOK
  <2> QED
    BY <1>3, <2>2, <2>3
<1>11. SweepTypeOK'
  BY <1>1, <1>2, <1>4, <1>9, <1>10 DEF SweepInv, SweepTypeOK
<1>12. WalkOK'
  <2>1. left' \cap (seen_fds' \cup {fd_num'}) = {}
    BY <1>1, <1>4
  <2> QED
    BY <1>2, <1>4, <2>1 DEF SweepInv, WalkOK
<1>13. /\ new[Len(new)].pid = client_pid
       /\ \A j \in DOMAIN new :
            \/ j \in DOMAIN table /\ new[j].pid = table[j].pid
            \/ j = Len(new) /\ (table # <<>> => table[Len(table)].pid # client_pid)
  BY <1>7, Zenon DEF Grew
<1>14. PICK l : OneMoreFile(table, new, told, l)
  BY <1>7, Zenon DEF Grew
<1>15. \A j, k \in DOMAIN new : new[j].pid = new[k].pid => j = k
  <2>1. \A j, k \in DOMAIN table : table[j].pid = table[k].pid => j = k
    BY <1>5, Zenon DEF RowsOK, table
  <2>2. ASSUME NEW j \in DOMAIN table, table[j].pid = client_pid, table # <<>> => table[Len(table)].pid # client_pid
        PROVE  FALSE
    <3>1. j = Len(table)
      BY <1>5, <2>2, Zenon DEF RowsOK, table
    <3>2. table # <<>>
      BY <2>2
    <3> QED
      BY <2>2, <3>1, <3>2
  <2>3. ASSUME NEW j \in DOMAIN new, NEW k \in DOMAIN new, new[j].pid = new[k].pid
        PROVE  j = k
    <3>1. CASE j \in DOMAIN table /\ new[j].pid = table[j].pid /\ k \in DOMAIN table /\ new[k].pid = table[k].pid
      BY <2>1, <2>3, <3>1
    <3>2. CASE j = Len(new) /\ k = Len(new)
      BY <3>2
    <3>3. CASE j \in DOMAIN table /\ new[j].pid = table[j].pid /\ k = Len(new)
               /\ (table # <<>> => table[Len(table)].pid # client_pid)
      BY <1>13, <2>2, <2>3, <3>3, Zenon
    <3>4. CASE k \in DOMAIN table /\ new[k].pid = table[k].pid /\ j = Len(new)
               /\ (table # <<>> => table[Len(table)].pid # client_pid)
      BY <1>13, <2>2, <2>3, <3>4, Zenon
    <3> QED
      BY <1>13, <2>3, <3>1, <3>2, <3>3, <3>4, Zenon
  <2> QED
    BY <2>3, Zenon
<1>16. Len(new) \in DOMAIN new
  <2>1. new \in Seq(ProcessRow) /\ new # <<>>
    BY <1>7, Zenon DEF Grew
  <2> QED
    BY <2>1
<1>17. RowsOK(d)'
  <2>1. ASSUME NEW j \in DOMAIN new
        PROVE  new[j].pid \notin unvisited /\ (new[j].pid = client_pid => j = Len(new))
    <3>1. new[j].pid \notin unvisited
      BY <1>2, <1>5, <1>13, Zenon DEF RowsOK, table
    <3>2. new[j].pid = client_pid => j = Len(new)
      BY <1>13, <1>15, <1>16, Zenon
    <3> QED
      BY <3>1, <3>2
  <2> QED
    BY <1>9, <1>15, <2>1 DEF RowsOK
<1>18. ASSUME NEW e \in active
       PROVE  RowsOK(e)'
  <2>1. CASE e = d
    BY <1>17, <2>1
  <2>2. CASE e # d
    <3>1. rows'[e] = rows[e] /\ RowsOK(e)
      BY <1>2, <1>9, <2>2 DEF SweepInv, SweepTypeOK
    <3> QED
      BY <3>1, Zenon DEF RowsOK
  <2> QED
    BY <2>1, <2>2
<1> DEFINE Latest(e, j, k) ==
             e = d /\ j = Len(new) /\ k = l /\ rows'[e][j].pid = client_pid /\ rows'[e][j].files[k].file = what
           Older(e, j, k) ==
             /\ j \in DOMAIN rows[e] /\ k \in DOMAIN rows[e][j].files
             /\ rows'[e][j].pid = rows[e][j].pid /\ rows'[e][j].files[k].file = rows[e][j].files[k].file
<1>19. ASSUME NEW e \in active, NEW j \in DOMAIN rows'[e], NEW k \in DOMAIN rows'[e][j].files
       PROVE  Latest(e, j, k) \/ Older(e, j, k)
  <2>1. CASE e = d
    <3>1. \/ j = Len(new) /\ k = l /\ new[j].files[k] = told
          \/ /\ j \in DOMAIN table /\ k \in DOMAIN table[j].files
             /\ new[j].pid = table[j].pid /\ new[j].files[k] = table[j].files[k]
      BY <1>9, <1>14, <1>19, <2>1, Zenon DEF OneMoreFile
    <3>2. CASE j = Len(new) /\ k = l /\ new[j].files[k] = told
      BY <1>8, <1>9, <1>13, <2>1, <3>2, Zenon
    <3>3. CASE /\ j \in DOMAIN table /\ k \in DOMAIN table[j].files
               /\ new[j].pid = table[j].pid /\ new[j].files[k] = table[j].files[k]
      BY <1>9, <2>1, <3>3, Zenon DEF table
    <3> QED
      BY <3>1, <3>2, <3>3, Zenon
  <2>2. CASE e # d
    <3>1. rows'[e] = rows[e]
      BY <1>2, <1>9, <2>2 DEF SweepInv, SweepTypeOK
    <3> QED
      BY <1>19, <3>1, Zenon
  <2> QED
    BY <2>1, <2>2
<1> HIDE DEF Latest, Older
<1>20. ASSUME SeenOK
       PROVE  SeenOK'
  <2>1. /\ (seen_fds \cup {fd_num}) \ {0} = seen_fds \cup {fd_num}
        /\ \A m, n \in seen_fds \cup {fd_num} : fds[client_pid][m] = fds[client_pid][n] => m = n
    BY <1>1, <1>20, AllDiffer
  <2>2. ASSUME NEW e \in active, NEW j \in DOMAIN rows'[e], rows'[e][j].pid = client_pid,
               NEW k \in DOMAIN rows'[e][j].files
        PROVE  \E m \in seen_fds \cup {fd_num} : fds[client_pid][m] = rows'[e][j].files[k].file
    <3>1. CASE Latest(e, j, k)
      <4>1. f \in Files
        BY <1>1, <1>20 DEF SeenOK, f
      <4> QED
        BY <1>8, <3>1, <4>1, Zenon DEF Latest, f
    <3>2. CASE Older(e, j, k)
      <4>1. \E m \in seen_fds \ {fd_num} : fds[client_pid][m] = rows[e][j].files[k].file
        BY <1>20, <2>2, <3>2, Zenon DEF Older, SeenOK
      <4> QED
        BY <3>2, <4>1, Zenon DEF Older
    <3> QED
      BY <1>19, <2>2, <3>1, <3>2, Zenon
  <2>3. seen_fds' \ {fd_num'} = seen_fds \cup {fd_num}
    BY <1>4, <2>1
  <2>4. \A n \in seen_fds \cup {fd_num} : n # 0 => fds[client_pid][n] \in Files
    BY <1>20, Zenon DEF SeenOK
  <2> QED
    BY <1>4, <2>1, <2>2, <2>3, <2>4 DEF SeenOK
<1>21. ASSUME NEW p \in Pids \ gaveUp
       PROVE  Unique(p)'
  <2>1. Unique(p)
    BY <1>2, Zenon DEF SweepInv
  <2>2. SUFFICES ASSUME NEW e \in active, NEW h \in active,
                        NEW i1 \in DOMAIN rows'[e], NEW j1 \in DOMAIN rows'[h],
                        rows'[e][i1].pid = p, rows'[h][j1].pid = p,
                        NEW k1 \in DOMAIN rows'[e][i1].files, NEW l1 \in DOMAIN rows'[h][j1].files,
                        rows'[e][i1].files[k1].file \in Files,
                        rows'[e][i1].files[k1].file = rows'[h][j1].files[l1].file
                 PROVE  e = h /\ i1 = j1 /\ k1 = l1
    BY DEF Unique
  <2>3. ASSUME NEW a \in active, NEW j \in DOMAIN rows[a], NEW k \in DOMAIN rows[a][j].files,
               rows[a][j].pid = client_pid, p = client_pid
        PROVE  rows[a][j].files[k].file # what
    <3>1. SeenOK
      BY <1>2, <2>3, Zenon DEF SweepInv
    <3>4. what = f
      BY <1>1, <1>8, <3>1 DEF SeenOK, f
    <3>2. \A m \in seen_fds \ {fd_num} : fds[client_pid][m] # f
      BY <1>1, <3>1, AllDiffer DEF f
    <3>3. \E m \in seen_fds \ {fd_num} : fds[client_pid][m] = rows[a][j].files[k].file
      <4>1. rows[a][j].pid = client_pid
        BY <2>3
      <4> QED
        BY <3>1, <4>1 DEF SeenOK
    <3> QED
      BY <3>2, <3>3, <3>4
  <2>4. CASE Latest(e, i1, k1) /\ Latest(h, j1, l1)
    BY <2>4, Zenon DEF Latest
  <2>5. CASE Older(e, i1, k1) /\ Older(h, j1, l1)
    <3>1. /\ i1 \in DOMAIN rows[e] /\ k1 \in DOMAIN rows[e][i1].files /\ rows[e][i1].pid = p
          /\ j1 \in DOMAIN rows[h] /\ l1 \in DOMAIN rows[h][j1].files /\ rows[h][j1].pid = p
          /\ rows[e][i1].files[k1].file \in Files
          /\ rows[e][i1].files[k1].file = rows[h][j1].files[l1].file
      BY <2>2, <2>5, Zenon DEF Older
    <3> QED
      BY <2>1, <3>1 DEF Unique
  <2>6. CASE Latest(e, i1, k1) /\ Older(h, j1, l1)
    BY <2>2, <2>3, <2>6, Zenon DEF Latest, Older
  <2>7. CASE Older(e, i1, k1) /\ Latest(h, j1, l1)
    BY <2>2, <2>3, <2>7, Zenon DEF Latest, Older
  <2> QED
    BY <1>19, <2>4, <2>5, <2>6, <2>7, Zenon
<1>22. ASSUME NEW p \in Pids \ gaveUp
       PROVE  Real(p)'
  <2>1. Real(p)
    BY <1>2, Zenon DEF SweepInv
  <2>2. ASSUME NEW e \in active, NEW j \in DOMAIN rows'[e], rows'[e][j].pid = p,
               NEW k \in DOMAIN rows'[e][j].files
        PROVE  rows'[e][j].files[k].file \in Files
    <3>1. CASE Latest(e, j, k)
      <4>1. SeenOK
        BY <1>2, <2>2, <3>1, Zenon DEF SweepInv, Latest
      <4>2. f \in Files
        BY <1>1, <4>1 DEF SeenOK, f
      <4> QED
        BY <1>8, <3>1, <4>2, Zenon DEF Latest
    <3>2. CASE Older(e, j, k)
      BY <2>1, <2>2, <3>2, Zenon DEF Older, Real
    <3> QED
      BY <1>19, <2>2, <3>1, <3>2, Zenon
  <2> QED
    BY <2>2, Zenon DEF Real
<1> QED
  BY <1>2, <1>10, <1>11, <1>12, <1>18, <1>20, <1>21, <1>22, Zenon DEF SweepInv

LEMMA OfferKeeps == ASSUME SweepInv, Offer PROVE SweepInv'
<1>1. /\ fd_num # 0 /\ against = {} /\ seen_fds' = seen_fds \cup {fd_num} /\ left' = left
      /\ UNCHANGED <<fds, active, unvisited, sweeping, client_pid, gaveUp>>
  BY Zenon DEF Offer
<1>2. PICK i \in asked :
        \/ Take(Devices[i], fds[client_pid][fd_num]) /\ NextNumber
        \/ /\ IF asked = {i} THEN NextNumber ELSE asked' = asked \ {i} /\ UNCHANGED <<fd_num, against>>
           /\ UNCHANGED caches
  BY Zenon DEF Offer
<1>3. CASE Take(Devices[i], fds[client_pid][fd_num]) /\ NextNumber
  BY <1>1, <1>3, TakenKeeps
<1>4. CASE /\ IF asked = {i} THEN NextNumber ELSE asked' = asked \ {i} /\ UNCHANGED <<fd_num, against>>
           /\ UNCHANGED caches
  <2>1. WalkStep
    BY <1>1, <1>4 DEF WalkStep, caches
  <2>2. NextNumber \/ (asked' \subseteq asked /\ UNCHANGED <<fd_num, against>>)
    BY <1>4
  <2> QED
    BY <1>1, <2>1, <2>2, RefusedKeeps
<1> QED
  BY <1>2, <1>3, <1>4

LEMMA SweepStep == SweepInv /\ [SweepNext]_sweepVars => SweepInv'
<1> SUFFICES ASSUME SweepInv, [SweepNext]_sweepVars
             PROVE  SweepInv'
  OBVIOUS
<1>1. ASSUME NEW p \in Pids, NEW n \in Numbers, Close(p, n) \/ \E f \in Files \cup {OtherFile} : Open(p, n, f)
      PROVE  SweepInv'
  BY <1>1, OpenKeeps, CloseKeeps
<1>2. CASE Monitor
  BY <1>2, MonitorKeeps
<1>3. CASE BeginSweep
  BY <1>3, BeginSweepKeeps
<1>4. ASSUME NEW p \in Pids, Enter(p)
      PROVE  SweepInv'
  BY <1>4, EnterKeeps
<1>5. CASE NextFd
  BY <1>5, NextFdKeeps
<1>6. CASE Compare
  BY <1>6, CompareKeeps
<1>7. CASE Offer
  BY <1>7, OfferKeeps
<1>8. CASE Leave
  BY <1>8, LeaveKeeps
<1>9. CASE EndSweep
  BY <1>9, EndSweepKeeps
<1>10. CASE UNCHANGED sweepVars
  <2>1. /\ UNCHANGED <<fds, active, unvisited, sweeping, client_pid, left, seen_fds, fd_num, against, asked>>
        /\ UNCHANGED <<rows, last, current, gaveUp>>
    BY <1>10 DEF sweepVars, walk, caches
  <2>2. WalkStep /\ WalkOK' /\ (SeenOK => SeenOK')
    BY <2>1 DEF WalkStep, SweepInv, WalkOK, SeenOK
  <2>3. fd_num' \in Numbers \cup {0} /\ left' \subseteq Numbers /\ seen_fds' \subseteq Numbers
    BY <2>1 DEF SweepInv, SweepTypeOK
  <2> QED
    BY <2>2, <2>3, WalkStepKeeps
<1> QED
  BY <1>1, <1>2, <1>3, <1>4, <1>5, <1>6, <1>7, <1>8, <1>9, <1>10, Zenon DEF SweepNext

LEMMA SweepAlways == SweepSpec => []SweepInv
BY SweepStart, SweepStep, PTL DEF SweepSpec

\* Whatever processes do to their descriptors while they are visited, a process
\* has one row per monitored device; an open file of its own is counted at most
\* once in all its rows and nothing else is, unless it closed a descriptor that
\* the walk had put to the callbacks or was looking at.
THEOREM FilesAreCountedOnce == SweepSpec => []CountedOnce
<1>1. SweepInv => CountedOnce
  BY SweepImplies
<1> QED
  BY SweepAlways, <1>1, PTL

\* A usage is what has grown since the sweep before of that device.
THEOREM UsagesAreOfLastSweep == SweepSpec => []GrowthSinceLastSweep
<1>1. SweepInv => GrowthSinceLastSweep
  BY SweepImplies
<1> QED
  BY SweepAlways, <1>1, PTL

-----------------------------------------------------------------------------
(* What is shown was told in this cycle.                                    *)

\* A refresh starts from nothing, for the fields of a device and for a row.
LEMMA FieldsStartAnew ==
  ASSUME vendor \in AllVendors \ {"ixml", "tpu"}, NEW old, NEW ok
  PROVE  VendorDynamic(old, ok) = VendorDynamic({}, ok)
  BY DEF AllVendors, Mali, VendorDynamic, NvidiaDynamic, EnflameDynamic, MetaxDynamic, AscendDynamic,
         TenstorrentDynamic, QualcommDynamic, RockchipDynamic, AmdgpuDynamic, RadeonDynamic,
         IntelDynamic, V3dDynamic, MsmDynamic, MaliDynamic

LEMMA RowsStartAnew ==
  ASSUME vendor \in AllVendors \ {"ixml", "tpu"}, NEW old, NEW ok, NEW driver
  PROVE  VendorRow(old, ok, driver) = VendorRow({}, ok, driver)
  BY DEF AllVendors, Mali, VendorRow, NvidiaRunning, EnflameRunning, MetaxRunning, AscendRunning,
         TenstorrentRunning, QualcommRunning, RockchipRunning, RadeonRunning

\* Between two refreshes the fields are those that were told; a row is of the
\* last refresh of rows.
AllTold ==
  /\ vendor \in AllVendors
  /\ vendor \notin {"ixml", "tpu"} =>
       /\ row = rowFresh
       /\ at \in {"refreshed", "counted", "drawn"} => valid = fresh

LEMMA InitAllTold == DevicesInit => AllTold
  BY VendorsAssumption DEF DevicesInit, AllTold

LEMMA NextAllTold == AllTold /\ [DevicesNext]_deviceVars => AllTold'
<1> SUFFICES ASSUME AllTold, [DevicesNext]_deviceVars PROVE AllTold'
    OBVIOUS
<1>0. vendor \in AllVendors
      BY DEF AllTold
<1>1. CASE Start \/ FindDevices \/ PopulateStatic \/ Shutdown
      BY <1>1 DEF AllTold, Start, FindDevices, PopulateStatic, Shutdown, information
<1>2. CASE RefreshDynamic
  <2>1. PICK ok, positive :
          /\ valid' = EffectiveLoad(VendorDynamic(valid, ok), positive)
          /\ fresh' = EffectiveLoad(VendorDynamic({}, ok), positive)
        BY <1>2 DEF RefreshDynamic
  <2>2. vendor \notin {"ixml", "tpu"} => valid' = fresh'
        BY <1>0, <2>1, FieldsStartAnew
  <2> QED BY <1>2, <2>2 DEF AllTold, RefreshDynamic
<1>3. CASE SkipProcesses
      BY <1>3 DEF AllTold, SkipProcesses, information
<1>4. CASE RefreshProcesses
  <2> SUFFICES ASSUME vendor \notin {"ixml", "tpu"}
               PROVE  /\ row' = rowFresh'
                      /\ at' = "counted" => valid' = fresh'
      BY <1>4 DEF AllTold, RefreshProcesses
  <2>1. row = rowFresh /\ valid = fresh
        BY <1>4 DEF AllTold, RefreshProcesses
  <2>2. CASE at' = "exited" /\ UNCHANGED information
        BY <2>1, <2>2 DEF information
  <2>3. CASE \E ok, about, sums, driver :
               /\ row' = Populated(valid, VendorRow(row, ok, driver), about \cup sums)
               /\ rowFresh' = Populated(fresh, VendorRow({}, ok, driver), about \cup sums)
               /\ valid' = Utilisation(valid \cup Given(vendor \in Mali, MaliFromFdinfo(ok)), row', sums)
               /\ fresh' = Utilisation(fresh \cup Given(vendor \in Mali, MaliFromFdinfo(ok)), rowFresh', sums)
        BY <1>0, <2>1, <2>3, RowsStartAnew
  <2>4. CASE row' = {} /\ rowFresh' = {} /\ UNCHANGED <<static, valid, fresh>>
        BY <2>1, <2>4
  <2> QED BY <1>4, <2>2, <2>3, <2>4 DEF RefreshProcesses
<1>5. CASE FixDynamic
      BY <1>5 DEF AllTold, FixDynamic
<1>6. CASE UNCHANGED deviceVars
      BY <1>6 DEF AllTold, deviceVars
<1> QED BY <1>1, <1>2, <1>3, <1>4, <1>5, <1>6 DEF DevicesNext

LEMMA AllToldIsFresh == AllTold => ShownIsFresh
  BY DEF AllTold, ShownIsFresh

\* What is drawn was told in this cycle, by the device itself or by the rows of
\* the last refresh, of whichever vendor but the two that reset nothing.
THEOREM ShownIsOfThisCycle == DevicesSpec => []ShownIsFresh
  BY InitAllTold, NextAllTold, AllToldIsFresh, PTL DEF DevicesSpec

-----------------------------------------------------------------------------
(* The state of a vendor and its list of devices.                           *)

VendorStates ==
  [handle : BOOLEAN, open : BOOLEAN, closedTwice : BOOLEAN, allocated : BOOLEAN,
   count : Nat, list : Seq(Nat), callbacks : SUBSET Nat]

\* The devices are listed in the order of their places, each of them once.
Numbered(x) == x.list = [i \in 1..x.count |-> i] /\ x.callbacks \subseteq 1..x.count

\* What the looking for devices leaves as it is.
SameLibrary(x, y) ==
  x.handle = y.handle /\ x.open = y.open /\ x.closedTwice = y.closedTwice
  /\ x.allocated = y.allocated

\* The states that listing devices leads to.
ListedFrom(b) == {x \in VendorStates : SameLibrary(x, b) /\ Numbered(x)}

LEMMA ListedIs ==
  ASSUME NEW x \in VendorStates
  PROVE  /\ Listed(x) \in VendorStates /\ SameLibrary(Listed(x), x)
         /\ Listed(x).count = x.count + 1 /\ Listed(x).list = Append(x.list, x.count + 1)
         /\ Listed(x).callbacks = x.callbacks
<1>1. x.list \in Seq(Nat) /\ x.count \in Nat
      BY DEF VendorStates
<1>2. Append(x.list, x.count + 1) \in Seq(Nat) /\ x.count + 1 \in Nat
      BY <1>1
<1>3. Listed(x) = [x EXCEPT !.list = Append(x.list, x.count + 1), !.count = x.count + 1]
      BY DEF Listed
<1> HIDE DEF Listed
<1> QED BY <1>2, <1>3 DEF VendorStates, SameLibrary

LEMMA WithCallbackIs ==
  ASSUME NEW x \in VendorStates
  PROVE  /\ ListedWithCallback(x) \in VendorStates /\ SameLibrary(ListedWithCallback(x), x)
         /\ ListedWithCallback(x).count = x.count + 1
         /\ ListedWithCallback(x).list = Append(x.list, x.count + 1)
         /\ ListedWithCallback(x).callbacks = x.callbacks \cup {x.count + 1}
<1>1. Listed(x) \in VendorStates /\ SameLibrary(Listed(x), x)
      /\ Listed(x).count = x.count + 1 /\ Listed(x).list = Append(x.list, x.count + 1)
      /\ Listed(x).callbacks = x.callbacks
      BY ListedIs
<1>2. x.count + 1 \in Nat
      BY DEF VendorStates
<1> QED BY <1>1, <1>2 DEF VendorStates, ListedWithCallback, SameLibrary

LEMMA ListingStays ==
  ASSUME NEW b, NEW x \in ListedFrom(b)
  PROVE  Listed(x) \in ListedFrom(b) /\ ListedWithCallback(x) \in ListedFrom(b)
<1> DEFINE n == x.count
<1>1. x \in VendorStates /\ n \in Nat /\ Numbered(x) /\ SameLibrary(x, b)
      BY DEF ListedFrom, VendorStates
<1>2. Append(x.list, n + 1) = [i \in 1..(n + 1) |-> i]
      BY <1>1 DEF Numbered
<1>3. x.callbacks \subseteq 1..(n + 1) /\ n + 1 \in 1..(n + 1)
      BY <1>1 DEF Numbered
<1>4. Listed(x) \in ListedFrom(b)
      BY <1>1, <1>2, <1>3, ListedIs DEF ListedFrom, Numbered, SameLibrary
<1>5. ListedWithCallback(x) \in ListedFrom(b)
  <2>1. SameLibrary(ListedWithCallback(x), b)
        BY <1>1, WithCallbackIs DEF SameLibrary
  <2>2. Numbered(ListedWithCallback(x))
    <3>1. ListedWithCallback(x).list = [i \in 1..(n + 1) |-> i]
          BY <1>1, <1>2, WithCallbackIs
    <3>2. x.callbacks \cup {n + 1} \subseteq 1..(n + 1)
          BY <1>3, Zenon
    <3>3. /\ ListedWithCallback(x).count = n + 1
          /\ ListedWithCallback(x).callbacks = x.callbacks \cup {n + 1}
          BY <1>1, WithCallbackIs
    <3> QED BY <3>1, <3>2, <3>3 DEF Numbered
  <2> QED BY <1>1, <2>1, <2>2, WithCallbackIs DEF ListedFrom
<1> QED BY <1>4, <1>5

LEMMA ClosedIs ==
  /\ Closed \in VendorStates
  /\ Closed.handle = FALSE /\ Closed.open = FALSE /\ Closed.closedTwice = FALSE
  /\ Closed.count = 0 /\ Closed.list = <<>> /\ Closed.callbacks = {}
  BY DEF Closed, VendorStates

LEMMA OpenedIs ==
  ASSUME NEW x \in VendorStates
  PROVE  /\ Opened(x) \in VendorStates /\ Opened(x).handle = TRUE /\ Opened(x).open = TRUE
         /\ Opened(x).closedTwice = x.closedTwice /\ Opened(x).allocated = x.allocated
         /\ Opened(x).count = x.count /\ Opened(x).list = x.list
         /\ Opened(x).callbacks = x.callbacks
  BY DEF Opened, VendorStates

LEMMA DlCloseIs ==
  ASSUME NEW x \in VendorStates, x.open = x.handle
  PROVE  /\ DlClose(x) \in VendorStates /\ DlClose(x).handle = FALSE /\ DlClose(x).open = FALSE
         /\ DlClose(x).closedTwice = x.closedTwice /\ DlClose(x).allocated = x.allocated
         /\ DlClose(x).count = x.count /\ DlClose(x).list = x.list
         /\ DlClose(x).callbacks = x.callbacks
<1>1. CASE ~x.handle
      BY <1>1 DEF DlClose, VendorStates
<1>2. CASE x.handle
      BY <1>2 DEF DlClose, VendorStates
<1> QED BY <1>1, <1>2

LEMMA ArrayIs ==
  ASSUME NEW x \in VendorStates
  PROVE  /\ Allocated(x) \in VendorStates /\ Allocated(x).allocated
         /\ Freed(x) \in VendorStates /\ ~Freed(x).allocated
         /\ \A y \in {Allocated(x), Freed(x)} :
              /\ y.handle = x.handle /\ y.open = x.open /\ y.closedTwice = x.closedTwice
              /\ y.count = x.count /\ y.list = x.list /\ y.callbacks = x.callbacks
  BY DEF Allocated, Freed, VendorStates

-----------------------------------------------------------------------------
(* The cards are listed.                                                    *)

NoneListed(x) == x \in VendorStates /\ x.count = 0 /\ x.list = <<>> /\ x.callbacks = {}

LEMMA NoneIsNumbered ==
  ASSUME NEW x, NoneListed(x)
  PROVE  Numbered(x) /\ x \in ListedFrom(x)
<1>1. <<>> = [i \in 1..0 |-> i]
      OBVIOUS
<1>2. Numbered(x)
      BY <1>1 DEF NoneListed, Numbered
<1> QED BY <1>2 DEF NoneListed, ListedFrom, SameLibrary

\* Whichever cards are there, those that are listed have their place.
LEMMA CardsAreListed ==
  ASSUME NEW b, NoneListed(b), NEW cards \in Seq(SUBSET CardQuestions)
  PROVE  /\ FoldLeft(NvidiaCard, b, cards) \in ListedFrom(b)
         /\ FoldLeft(EnflameCard, b, cards) \in ListedFrom(b)
         /\ FoldLeft(IxmlCard, b, cards) \in ListedFrom(b)
         /\ FoldLeft(MetaxCard, b, cards) \in ListedFrom(b)
         /\ FoldLeft(AscendCard, b, cards) \in ListedFrom(b)
         /\ FoldLeft(TpuCard, b, cards) \in ListedFrom(b)
         /\ FoldLeft(TenstorrentCard, b, cards) \in ListedFrom(b)
         /\ FoldLeft(AmdgpuCard, b, cards) \in ListedFrom(b)
         /\ FoldLeft(RadeonCard, b, cards) \in ListedFrom(b)
         /\ FoldLeft(IntelCard, b, cards) \in ListedFrom(b)
         /\ FoldLeft(V3dCard, b, cards) \in ListedFrom(b)
         /\ FoldLeft(MsmCard, b, cards) \in ListedFrom(b)
         /\ FoldLeft(PanthorCard, b, cards) \in ListedFrom(b)
<1> DEFINE Lists == ListedFrom(b)
           Answer == SUBSET CardQuestions
<1>0. /\ b \in Lists /\ cards \in Seq(Answer)
      /\ \A x \in Lists : Listed(x) \in Lists /\ ListedWithCallback(x) \in Lists
      BY NoneIsNumbered, ListingStays
<1> HIDE DEF Lists, Answer
<1>1. FoldLeft(NvidiaCard, b, cards) \in Lists
  <2>1. \A x \in Lists, ok \in Answer : NvidiaCard(x, ok) \in Lists
        BY <1>0 DEF NvidiaCard
  <2>2. NvidiaLoop!Fold(b, cards) \in Lists
        BY <1>0, <2>1, NvidiaLoop!Stays
  <2>3. FoldLeft(NvidiaCard, b, cards) = NvidiaLoop!Fold(b, cards)
        BY Zenon DEF FoldLeft, MapThenFoldSet, Max, NvidiaLoop!Fold
  <2> QED BY <2>2, <2>3
<1>2. FoldLeft(EnflameCard, b, cards) \in Lists
  <2>1. \A x \in Lists, ok \in Answer : EnflameCard(x, ok) \in Lists
        BY <1>0 DEF EnflameCard
  <2>2. EnflameLoop!Fold(b, cards) \in Lists
        BY <1>0, <2>1, EnflameLoop!Stays
  <2>3. FoldLeft(EnflameCard, b, cards) = EnflameLoop!Fold(b, cards)
        BY Zenon DEF FoldLeft, MapThenFoldSet, Max, EnflameLoop!Fold
  <2> QED BY <2>2, <2>3
<1>3. FoldLeft(IxmlCard, b, cards) \in Lists
  <2>1. \A x \in Lists, ok \in Answer : IxmlCard(x, ok) \in Lists
        BY <1>0 DEF IxmlCard
  <2>2. IxmlLoop!Fold(b, cards) \in Lists
        BY <1>0, <2>1, IxmlLoop!Stays
  <2>3. FoldLeft(IxmlCard, b, cards) = IxmlLoop!Fold(b, cards)
        BY Zenon DEF FoldLeft, MapThenFoldSet, Max, IxmlLoop!Fold
  <2> QED BY <2>2, <2>3
<1>4. FoldLeft(MetaxCard, b, cards) \in Lists
  <2>1. \A x \in Lists, ok \in Answer : MetaxCard(x, ok) \in Lists
        BY <1>0 DEF MetaxCard
  <2>2. MetaxLoop!Fold(b, cards) \in Lists
        BY <1>0, <2>1, MetaxLoop!Stays
  <2>3. FoldLeft(MetaxCard, b, cards) = MetaxLoop!Fold(b, cards)
        BY Zenon DEF FoldLeft, MapThenFoldSet, Max, MetaxLoop!Fold
  <2> QED BY <2>2, <2>3
<1>5. FoldLeft(AscendCard, b, cards) \in Lists
  <2>1. \A x \in Lists, ok \in Answer : AscendCard(x, ok) \in Lists
        BY <1>0 DEF AscendCard
  <2>2. AscendLoop!Fold(b, cards) \in Lists
        BY <1>0, <2>1, AscendLoop!Stays
  <2>3. FoldLeft(AscendCard, b, cards) = AscendLoop!Fold(b, cards)
        BY Zenon DEF FoldLeft, MapThenFoldSet, Max, AscendLoop!Fold
  <2> QED BY <2>2, <2>3
<1>6. FoldLeft(TpuCard, b, cards) \in Lists
  <2>1. \A x \in Lists, ok \in Answer : TpuCard(x, ok) \in Lists
        BY <1>0 DEF TpuCard
  <2>2. TpuLoop!Fold(b, cards) \in Lists
        BY <1>0, <2>1, TpuLoop!Stays
  <2>3. FoldLeft(TpuCard, b, cards) = TpuLoop!Fold(b, cards)
        BY Zenon DEF FoldLeft, MapThenFoldSet, Max, TpuLoop!Fold
  <2> QED BY <2>2, <2>3
<1>7. FoldLeft(TenstorrentCard, b, cards) \in Lists
  <2>1. \A x \in Lists, ok \in Answer : TenstorrentCard(x, ok) \in Lists
        BY <1>0 DEF TenstorrentCard
  <2>2. TenstorrentLoop!Fold(b, cards) \in Lists
        BY <1>0, <2>1, TenstorrentLoop!Stays
  <2>3. FoldLeft(TenstorrentCard, b, cards) = TenstorrentLoop!Fold(b, cards)
        BY Zenon DEF FoldLeft, MapThenFoldSet, Max, TenstorrentLoop!Fold
  <2> QED BY <2>2, <2>3
<1>8. FoldLeft(AmdgpuCard, b, cards) \in Lists
  <2>1. \A x \in Lists, ok \in Answer : AmdgpuCard(x, ok) \in Lists
        BY <1>0 DEF AmdgpuCard
  <2>2. AmdgpuLoop!Fold(b, cards) \in Lists
        BY <1>0, <2>1, AmdgpuLoop!Stays
  <2>3. FoldLeft(AmdgpuCard, b, cards) = AmdgpuLoop!Fold(b, cards)
        BY Zenon DEF FoldLeft, MapThenFoldSet, Max, AmdgpuLoop!Fold
  <2> QED BY <2>2, <2>3
<1>9. FoldLeft(RadeonCard, b, cards) \in Lists
  <2>1. \A x \in Lists, ok \in Answer : RadeonCard(x, ok) \in Lists
        BY <1>0 DEF RadeonCard
  <2>2. RadeonLoop!Fold(b, cards) \in Lists
        BY <1>0, <2>1, RadeonLoop!Stays
  <2>3. FoldLeft(RadeonCard, b, cards) = RadeonLoop!Fold(b, cards)
        BY Zenon DEF FoldLeft, MapThenFoldSet, Max, RadeonLoop!Fold
  <2> QED BY <2>2, <2>3
<1>10. FoldLeft(IntelCard, b, cards) \in Lists
  <2>1. \A x \in Lists, ok \in Answer : IntelCard(x, ok) \in Lists
        BY <1>0 DEF IntelCard
  <2>2. IntelLoop!Fold(b, cards) \in Lists
        BY <1>0, <2>1, IntelLoop!Stays
  <2>3. FoldLeft(IntelCard, b, cards) = IntelLoop!Fold(b, cards)
        BY Zenon DEF FoldLeft, MapThenFoldSet, Max, IntelLoop!Fold
  <2> QED BY <2>2, <2>3
<1>11. FoldLeft(V3dCard, b, cards) \in Lists
  <2>1. \A x \in Lists, ok \in Answer : V3dCard(x, ok) \in Lists
        BY <1>0 DEF V3dCard
  <2>2. V3dLoop!Fold(b, cards) \in Lists
        BY <1>0, <2>1, V3dLoop!Stays
  <2>3. FoldLeft(V3dCard, b, cards) = V3dLoop!Fold(b, cards)
        BY Zenon DEF FoldLeft, MapThenFoldSet, Max, V3dLoop!Fold
  <2> QED BY <2>2, <2>3
<1>12. FoldLeft(MsmCard, b, cards) \in Lists
  <2>1. \A x \in Lists, ok \in Answer : MsmCard(x, ok) \in Lists
        BY <1>0 DEF MsmCard
  <2>2. MsmLoop!Fold(b, cards) \in Lists
        BY <1>0, <2>1, MsmLoop!Stays
  <2>3. FoldLeft(MsmCard, b, cards) = MsmLoop!Fold(b, cards)
        BY Zenon DEF FoldLeft, MapThenFoldSet, Max, MsmLoop!Fold
  <2> QED BY <2>2, <2>3
<1>13. FoldLeft(PanthorCard, b, cards) \in Lists
  <2>1. \A x \in Lists, ok \in Answer : PanthorCard(x, ok) \in Lists
        BY <1>0 DEF PanthorCard
  <2>2. PanthorLoop!Fold(b, cards) \in Lists
        BY <1>0, <2>1, PanthorLoop!Stays
  <2>3. FoldLeft(PanthorCard, b, cards) = PanthorLoop!Fold(b, cards)
        BY Zenon DEF FoldLeft, MapThenFoldSet, Max, PanthorLoop!Fold
  <2> QED BY <2>2, <2>3
<1> QED BY <1>1, <1>2, <1>3, <1>4, <1>5, <1>6, <1>7, <1>8, <1>9, <1>10, <1>11, <1>12, <1>13 DEF Lists

-----------------------------------------------------------------------------
(* A vendor is started, asked for its devices, and shut down.               *)

\* Vendors without a library of their own to open.
Bare == {"ascend", "tenstorrent", "rockchip", "intel", "v3d"}

\* The library is open as long as there is a handle, and was closed once.
Sound(x) == x.closedTwice = FALSE /\ x.open = x.handle /\ (vendor \in Bare => x.open = FALSE)

LEMMA StartIs ==
  ASSUME vendor \in AllVendors \ {"panfrost"}, NEW ok
  PROVE  NoneListed(VendorInit(ok).st) /\ (vendor # "tpu" => Sound(VendorInit(ok).st))
<1> DEFINE opened == Opened(Closed)
<1>1. Closed \in VendorStates /\ opened \in VendorStates /\ opened.open = opened.handle
      BY ClosedIs, OpenedIs
<1>2. NoneListed(Closed) /\ Sound(Closed)
      BY ClosedIs DEF NoneListed, Sound
<1>3. vendor \notin Bare => NoneListed(opened) /\ Sound(opened)
      BY ClosedIs, OpenedIs DEF NoneListed, Sound
<1>4. NoneListed(DlClose(opened)) /\ Sound(DlClose(opened))
  <2>1. opened.closedTwice = FALSE /\ opened.count = 0 /\ opened.list = <<>> /\ opened.callbacks = {}
        BY ClosedIs, OpenedIs
  <2> HIDE DEF opened
  <2> QED BY <1>1, <2>1, DlCloseIs DEF NoneListed, Sound
<1> HIDE DEF opened
<1>5. vendor \notin Bare =>
        \A needed : NoneListed(LibraryInit(ok, needed).st) /\ Sound(LibraryInit(ok, needed).st)
      BY <1>2, <1>3, <1>4 DEF LibraryInit, opened
<1>6. vendor \notin Bare => NoneListed(TemplateInit(ok).st) /\ Sound(TemplateInit(ok).st)
      BY <1>2, <1>3, <1>4 DEF TemplateInit, opened
<1>7. CASE vendor \in {"nvidia", "enflame", "ixml", "metax"}
      BY <1>6, <1>7 DEF VendorInit, Bare, NvidiaInit, EnflameInit, IxmlInit, MetaxInit
<1>8. CASE vendor \in {"amdgpu", "radeon", "msm", "panthor"}
      BY <1>5, <1>8 DEF VendorInit, Bare, AmdgpuInit, RadeonInit, MsmInit, PanthorInit
<1>9. CASE vendor \in Bare \cup {"qualcomm"}
      BY <1>2, <1>9 DEF VendorInit, Bare, AscendInit, TenstorrentInit, RockchipInit, IntelInit,
                        V3dInit, QualcommInit
<1>10. CASE vendor = "tpu"
  <2>1. VendorInit(ok).st \in {Closed, [Closed EXCEPT !.open = TRUE]}
        BY <1>10 DEF VendorInit, TpuInit
  <2>2. NoneListed([Closed EXCEPT !.open = TRUE])
    <3> DEFINE x == [Closed EXCEPT !.open = TRUE]
    <3>1. /\ x \in VendorStates /\ x.count = Closed.count /\ x.list = Closed.list
          /\ x.callbacks = Closed.callbacks
          BY ClosedIs DEF VendorStates
    <3> HIDE DEF x
    <3>2. NoneListed(x)
          BY <3>1, ClosedIs DEF NoneListed
    <3> QED BY <3>2 DEF x
  <2> QED BY <1>2, <1>10, <2>1, <2>2
<1> QED BY <1>7, <1>8, <1>9, <1>10 DEF AllVendors, Bare

\* Vendors whose array is a static table.
Tables == {"radeon", "intel", "v3d"}

\* What was found: the cards that are listed, and a library opened for the one
\* vendor that opens it only now.
IsFound(x, handles) ==
  /\ handles.st \in VendorStates /\ Numbered(handles.st)
  /\ ~handles.found => handles.st.count = 0
  /\ handles.st.list # <<>> => handles.st.allocated \/ vendor \in Tables
  /\ handles.st.closedTwice = x.closedTwice
  /\ \/ handles.st.open = x.open /\ handles.st.handle = x.handle
     \/ vendor = "qualcomm" /\ handles.st.open = TRUE /\ handles.st.handle = TRUE

LEMMA FoundIs ==
  ASSUME vendor \in AllVendors \ {"panfrost"}, NoneListed(st), NEW ok,
         NEW cards \in Seq(SUBSET CardQuestions)
  PROVE  IsFound(st, VendorHandles(ok, cards))
<1> DEFINE a == Allocated(st)
<1>1. st \in VendorStates /\ Numbered(st) /\ st.count = 0 /\ st.list = <<>>
      BY NoneIsNumbered DEF NoneListed
<1>2. /\ NoneListed(a) /\ a.allocated
      /\ a.handle = st.handle /\ a.open = st.open /\ a.closedTwice = st.closedTwice
      BY <1>1, ArrayIs DEF NoneListed
<1>3. [st EXCEPT !.count = 0] = st
      BY <1>1 DEF VendorStates
<1>4. ASSUME NEW x, NoneListed(x), x.allocated \/ vendor \in Tables,
             x.handle = st.handle, x.open = st.open, x.closedTwice = st.closedTwice
      PROVE  \A y \in ListedFrom(x) : \A found : (found \/ y.count = 0) => IsFound(st, [found |-> found, st |-> y])
      BY <1>4 DEF ListedFrom, SameLibrary, IsFound
<1>5. IsFound(st, [found |-> FALSE, st |-> st])
      BY <1>1 DEF IsFound
<1> HIDE DEF a
<1>6. \A y \in ListedFrom(a) :
        \A found : (found \/ y.count = 0) => IsFound(st, [found |-> found, st |-> y])
      BY <1>2, <1>4
<1>7. CASE vendor \in {"nvidia", "enflame", "ixml", "intel", "v3d"}
      BY <1>2, <1>5, <1>6, <1>7, CardsAreListed
         DEF a, VendorHandles, HandlesOf, NvidiaHandles, EnflameHandles, IxmlHandles, IntelHandles, V3dHandles
<1>8. CASE vendor \in {"metax", "ascend", "tpu", "amdgpu"}
      BY <1>2, <1>5, <1>6, <1>8, CardsAreListed
         DEF a, VendorHandles, MetaxHandles, AscendHandles, TpuHandles, AmdgpuHandles
<1>9. CASE vendor \in {"msm", "panthor"}
      BY <1>2, <1>3, <1>5, <1>6, <1>9, CardsAreListed
         DEF a, VendorHandles, DrmHandles, MsmHandles, PanthorHandles
<1>10. CASE vendor = "radeon"
  <2>1. \A y \in ListedFrom(st) :
          \A found : (found \/ y.count = 0) => IsFound(st, [found |-> found, st |-> y])
        BY <1>4, <1>10 DEF Tables
  <2> QED BY <1>5, <1>10, <2>1, CardsAreListed DEF VendorHandles, RadeonHandles
<1>11. CASE vendor = "tenstorrent"
  <2> DEFINE after == FoldLeft(TenstorrentCard, a, cards)
  <2>1. after \in ListedFrom(a)
        BY <1>2, CardsAreListed
  <2>2. after.count \in Nat
        BY <2>1 DEF ListedFrom, VendorStates
  <2> HIDE DEF after
  <2>3. after.count > 0 \/ after.count = 0
        BY <2>2
  <2>4. IsFound(st, [found |-> after.count > 0, st |-> after])
        BY <1>6, <2>1, <2>3, Zenon
  <2> QED BY <1>5, <1>11, <2>4 DEF a, after, VendorHandles, TenstorrentHandles
<1>12. CASE vendor = "qualcomm"
  <2> DEFINE o == Opened(a)
  <2>1. NoneListed(o) /\ o.open = TRUE /\ o.handle = TRUE /\ o.allocated /\ o.closedTwice = st.closedTwice
        BY <1>2, OpenedIs DEF NoneListed
  <2> HIDE DEF o
  <2>2. Listed(o) \in ListedFrom(o)
        BY <2>1, NoneIsNumbered, ListingStays
  <2>3. IsFound(st, [found |-> TRUE, st |-> Listed(o)])
        BY <1>12, <2>1, <2>2 DEF ListedFrom, SameLibrary, IsFound
  <2> QED BY <1>5, <1>12, <2>3 DEF a, o, VendorHandles, QualcommHandles
<1>13. CASE vendor = "rockchip"
  <2>1. Listed(a) \in ListedFrom(a)
        BY <1>2, NoneIsNumbered, ListingStays
  <2> QED BY <1>6, <1>13, <2>1 DEF a, VendorHandles, RockchipHandles
<1> QED BY <1>7, <1>8, <1>9, <1>10, <1>11, <1>12, <1>13 DEF AllVendors

\* The end of a vendor: the library is closed, the list stays.
IsShutDown(x, y) ==
  /\ y \in VendorStates /\ y.list = x.list /\ y.callbacks = x.callbacks
  /\ y.count \in {x.count, 0}
  /\ vendor # "tpu" => Sound(y) /\ y.open = FALSE

LEMMA ShutdownIs ==
  ASSUME vendor \in AllVendors \ {"panfrost"}, NEW x \in VendorStates, vendor # "tpu" => Sound(x)
  PROVE  IsShutDown(x, VendorShutdown(x))
<1> DEFINE none == [Freed(x) EXCEPT !.count = 0]
           zero == [x EXCEPT !.count = 0]
<1>1. CASE vendor = "tpu"
  <2>1. VendorShutdown(x) = Freed(x)
        BY <1>1 DEF VendorShutdown, TpuShutdown
  <2> QED BY <1>1, <2>1, ArrayIs DEF IsShutDown
<1> SUFFICES ASSUME vendor # "tpu" PROVE IsShutDown(x, VendorShutdown(x))
    BY <1>1
<1>2. Sound(x)
      OBVIOUS
<1>3. CASE vendor \in {"ascend", "tenstorrent", "rockchip"}
  <2>1. VendorShutdown(x) = Freed(x)
        BY <1>3 DEF VendorShutdown, AscendShutdown, TenstorrentShutdown, RockchipShutdown
  <2> QED BY <1>2, <1>3, <2>1, ArrayIs DEF IsShutDown, Sound, Bare
<1>4. CASE vendor \in {"intel", "v3d"}
  <2>1. VendorShutdown(x) = x
        BY <1>4 DEF VendorShutdown, IntelShutdown, V3dShutdown
  <2> QED BY <1>2, <1>4, <2>1 DEF IsShutDown, Sound, Bare
<1>5. CASE vendor \in {"nvidia", "enflame", "ixml", "metax", "qualcomm"}
  <2>1. VendorShutdown(x) = Freed(DlClose(x))
        BY <1>5 DEF VendorShutdown, NvidiaShutdown, EnflameShutdown, IxmlShutdown, MetaxShutdown,
                    QualcommShutdown
  <2> DEFINE y == DlClose(x)
  <2>2. /\ y \in VendorStates /\ y.handle = FALSE /\ y.open = FALSE /\ y.closedTwice = FALSE
        /\ y.list = x.list /\ y.callbacks = x.callbacks /\ y.count = x.count
        BY <1>2, DlCloseIs DEF Sound
  <2> HIDE DEF y
  <2>3. IsShutDown(x, Freed(y))
        BY <2>2, ArrayIs DEF IsShutDown, Sound
  <2> QED BY <2>1, <2>3 DEF y
<1>6. CASE vendor = "radeon"
  <2>1. VendorShutdown(x) = DlClose(zero)
        BY <1>6 DEF VendorShutdown, RadeonShutdown
  <2>2. /\ zero \in VendorStates /\ zero.handle = x.handle /\ zero.open = x.open
        /\ zero.closedTwice = x.closedTwice /\ zero.list = x.list
        /\ zero.callbacks = x.callbacks /\ zero.count = 0
        BY DEF VendorStates
  <2> HIDE DEF zero
  <2> QED BY <1>2, <1>6, <2>1, <2>2, DlCloseIs DEF IsShutDown, Sound
<1>7. CASE vendor \in {"amdgpu", "msm", "panthor"}
  <2>1. VendorShutdown(x) = DlClose(none)
        BY <1>7 DEF VendorShutdown, AmdgpuShutdown, MsmShutdown, PanthorShutdown, MaliShutdown
  <2>2. Freed(x) \in VendorStates
        BY ArrayIs
  <2>3. /\ none \in VendorStates /\ none.handle = Freed(x).handle /\ none.open = Freed(x).open
        /\ none.closedTwice = Freed(x).closedTwice /\ none.list = Freed(x).list
        /\ none.callbacks = Freed(x).callbacks /\ none.count = 0
        BY <2>2 DEF VendorStates
  <2> HIDE DEF none
  <2>4. /\ none.handle = x.handle /\ none.open = x.open /\ none.closedTwice = FALSE
        /\ none.list = x.list /\ none.callbacks = x.callbacks /\ none.open = none.handle
        BY <1>2, <2>3, ArrayIs DEF Sound
  <2>5. IsShutDown(x, DlClose(none))
        BY <2>3, <2>4, DlCloseIs DEF IsShutDown, Sound
  <2> QED BY <2>1, <2>5
<1> QED BY <1>3, <1>4, <1>5, <1>6, <1>7 DEF AllVendors

-----------------------------------------------------------------------------
(* Every vendor releases what it opened, and its list is backed.            *)

\* Until devices are found there are none; then the list is theirs as long as
\* the program runs.
ListOK ==
  /\ at \in {"start", "look", "without"} => NoneListed(st)
  /\ at # "ended" => Numbered(st) /\ (st.list # <<>> => st.allocated \/ vendor \in Tables)

DevicesInv ==
  /\ vendor \in AllVendors
  /\ vendor # "panfrost" =>
       /\ st \in VendorStates /\ ListOK
       /\ vendor # "tpu" => Sound(st) /\ (at = "ended" => st.open = FALSE)

LEMMA NoneListedOK ==
  ASSUME NoneListed(st)
  PROVE  ListOK
  BY NoneIsNumbered DEF NoneListed, ListOK

LEMMA CardsOfSystem ==
  ASSUME NEW cards \in SystemCards
  PROVE  cards \in Seq(SUBSET CardQuestions)
<1>1. PICK n \in 0..MaxCards :
        cards \in [1..n -> {CardQuestions} \cup {CardQuestions \ {q} : q \in CardQuestions}]
      BY DEF SystemCards
<1>2. n \in Nat
      BY VendorsAssumption
<1>3. {CardQuestions} \cup {CardQuestions \ {q} : q \in CardQuestions} \subseteq SUBSET CardQuestions
      OBVIOUS
<1>4. cards \in [1..n -> SUBSET CardQuestions]
      BY <1>1, <1>3
<1> QED BY <1>2, <1>4

LEMMA InitDevicesInv == DevicesInit => DevicesInv
<1> SUFFICES ASSUME DevicesInit PROVE DevicesInv
    OBVIOUS
<1>1. st \in VendorStates /\ NoneListed(st) /\ Sound(st)
      BY ClosedIs DEF DevicesInit, NoneListed, Sound
<1> QED BY <1>1, VendorsAssumption, NoneListedOK DEF DevicesInit, DevicesInv

LEMMA VendorStays == [DevicesNext]_deviceVars => vendor' = vendor
<1>1. Start \/ FindDevices \/ PopulateStatic \/ Shutdown => vendor' = vendor
      BY DEF Start, FindDevices, PopulateStatic, Shutdown
<1>2. RefreshDynamic \/ SkipProcesses \/ RefreshProcesses \/ FixDynamic => vendor' = vendor
      BY Zenon DEF RefreshDynamic, SkipProcesses, RefreshProcesses, FixDynamic
<1> QED BY <1>1, <1>2 DEF DevicesNext, deviceVars

LEMMA NextDevicesInv == DevicesInv /\ [DevicesNext]_deviceVars => DevicesInv'
<1> SUFFICES ASSUME DevicesInv, [DevicesNext]_deviceVars, vendor # "panfrost"
             PROVE  /\ (st \in VendorStates)' /\ ListOK'
                    /\ vendor # "tpu" => Sound(st)' /\ (at' = "ended" => st'.open = FALSE)
    BY VendorStays DEF DevicesInv
<1>0. vendor \in AllVendors \ {"panfrost"} /\ st \in VendorStates
      BY DEF DevicesInv
<1>1. CASE Start
  <2>1. PICK ok : st' = VendorInit(ok).st
        BY <1>1 DEF Start
  <2>2. vendor' = vendor /\ at' \in {"look", "without"}
        BY <1>1 DEF Start
  <2>3. NoneListed(st') /\ (vendor # "tpu" => Sound(st'))
        BY <1>0, <2>1, StartIs
  <2>4. NoneListed(st)' /\ (vendor # "tpu" => Sound(st)')
        BY <2>2, <2>3 DEF NoneListed, Sound
  <2>5. ListOK'
        BY <2>4, NoneListedOK, PTL
  <2> QED BY <2>2, <2>4, <2>5 DEF NoneListed
<1>2. CASE FindDevices
  <2>1. PICK ok \in SUBSET HandleQuestions, cards \in SystemCards :
          LET handles == VendorHandles(ok, cards)
              usable == handles.found /\ handles.st.count > 0
          IN  /\ st' = IF usable THEN handles.st ELSE VendorShutdown(handles.st)
              /\ at' = IF usable THEN "static" ELSE "without"
        BY <1>2 DEF FindDevices
  <2> DEFINE handles == VendorHandles(ok, cards)
             x == handles.st
             usable == handles.found /\ x.count > 0
  <2>2. /\ NoneListed(st) /\ (vendor # "tpu" => Sound(st))
        /\ vendor' = vendor
        BY <1>2 DEF FindDevices, DevicesInv, ListOK
  <2>3. IsFound(st, handles)
        BY <1>0, <2>2, FoundIs, CardsOfSystem
  <2> HIDE DEF handles
  <2>4. x \in VendorStates /\ x.count \in Nat /\ (vendor # "tpu" => Sound(x))
        BY <2>2, <2>3 DEF IsFound, Sound, VendorStates, Bare
  <2>5. CASE usable
    <3>1. st' = x /\ at' = "static"
          BY <2>1, <2>5 DEF handles
    <3>2. ListOK'
          BY <2>2, <2>3, <3>1 DEF ListOK, IsFound, Numbered
    <3>3. vendor # "tpu" => Sound(st)'
          BY <2>2, <2>4, <3>1 DEF Sound
    <3> QED BY <2>2, <2>4, <3>1, <3>2, <3>3
  <2>6. CASE ~usable
    <3>1. st' = VendorShutdown(x) /\ at' = "without"
          BY <2>1, <2>6 DEF handles
    <3>2. x.count = 0 /\ x.list = <<>> /\ x.callbacks = {}
      <4>1. x.count = 0
            BY <2>3, <2>4, <2>6 DEF IsFound
      <4>2. x.list = [i \in 1..0 |-> i] /\ x.callbacks \subseteq 1..0
            BY <2>3, <4>1 DEF IsFound, Numbered
      <4> QED BY <4>1, <4>2
    <3>3. IsShutDown(x, st')
          BY <1>0, <2>4, <3>1, ShutdownIs
    <3>4. NoneListed(st)' /\ (vendor # "tpu" => Sound(st)')
          BY <2>2, <3>2, <3>3 DEF IsShutDown, NoneListed, Sound
    <3>5. ListOK'
          BY <3>4, NoneListedOK, PTL
    <3> QED BY <2>2, <3>1, <3>4, <3>5 DEF NoneListed
  <2> QED BY <2>5, <2>6
<1>3. CASE Shutdown
  <2> DEFINE x == [st EXCEPT !.list = <<>>, !.callbacks = {}]
  <2>1. st' = VendorShutdown(x) /\ at' = "ended" /\ vendor' = vendor
        BY <1>3 DEF Shutdown
  <2>2. /\ x \in VendorStates /\ x.open = st.open /\ x.handle = st.handle
        /\ x.closedTwice = st.closedTwice
    <3>1. <<>> \in Seq(Nat) /\ {} \in SUBSET Nat
          OBVIOUS
    <3> QED BY <1>0, <3>1 DEF VendorStates
  <2> HIDE DEF x
  <2>3. vendor # "tpu" => Sound(x)
        BY <2>2 DEF DevicesInv, Sound
  <2>4. IsShutDown(x, st')
        BY <1>0, <2>1, <2>2, <2>3, ShutdownIs
  <2>5. ListOK'
        BY <2>1 DEF ListOK
  <2> QED BY <2>1, <2>4, <2>5 DEF IsShutDown, Sound
<1>4. CASE /\ UNCHANGED <<vendor, st>>
           /\ at' \in {"static", "dynamic", "refreshed", "exited", "counted", "drawn"}
           /\ at \notin {"start", "look", "without", "ended"}
  <2>1. ListOK'
        BY <1>4 DEF DevicesInv, ListOK, Numbered
  <2> QED BY <1>4, <2>1 DEF DevicesInv, Sound
<1>5. CASE PopulateStatic \/ RefreshDynamic \/ SkipProcesses \/ RefreshProcesses \/ FixDynamic
      BY <1>4, <1>5 DEF PopulateStatic, RefreshDynamic, SkipProcesses, RefreshProcesses, FixDynamic
<1>6. CASE UNCHANGED deviceVars
  <2>1. ListOK'
        BY <1>6 DEF deviceVars, DevicesInv, ListOK, NoneListed, Numbered
  <2> QED BY <1>6, <2>1 DEF deviceVars, DevicesInv, Sound
<1> QED BY <1>1, <1>2, <1>3, <1>5, <1>6 DEF DevicesNext

LEMMA SoundIsReleased == DevicesInv => ReleasedOnce
  BY DEF DevicesInv, Sound, ReleasedOnce

LEMMA NumberedIsBacked == DevicesInv => DevicesBacked
<1> SUFFICES ASSUME DevicesInv, at \notin {"start", "look", "ended"}, vendor # "panfrost"
             PROVE  /\ ToSet(st.list) = 1..st.count /\ IsInjective(st.list)
                    /\ st.list # <<>> => st.allocated \/ vendor \in {"radeon", "intel", "v3d"}
                    /\ st.callbacks \subseteq ToSet(st.list)
    BY DEF DevicesBacked
<1>1. st.list = [i \in 1..st.count |-> i] /\ st.callbacks \subseteq 1..st.count
      BY DEF DevicesInv, ListOK, Numbered
<1>2. DOMAIN st.list = 1..st.count /\ \A i \in 1..st.count : st.list[i] = i
      BY <1>1
<1>3. ToSet(st.list) = 1..st.count
      BY <1>2 DEF ToSet
<1>4. IsInjective(st.list)
      BY <1>2 DEF IsInjective
<1>5. st.list # <<>> => st.allocated \/ vendor \in {"radeon", "intel", "v3d"}
      BY DEF DevicesInv, ListOK, Tables
<1> QED BY <1>1, <1>3, <1>4, <1>5

\* Whatever fails while the devices are looked for, no vendor closes its library
\* twice, and none but TPU's is open at the end.
THEOREM VendorsReleaseOnce == DevicesSpec => []ReleasedOnce
  BY InitDevicesInv, NextDevicesInv, SoundIsReleased, PTL DEF DevicesSpec

\* With any number of cards, of which any may be refused, the devices of the
\* list are those of the array, each of them once.
THEOREM ListIsBacked == DevicesSpec => []DevicesBacked
  BY InitDevicesInv, NextDevicesInv, NumberedIsBacked, PTL DEF DevicesSpec
=============================================================================
