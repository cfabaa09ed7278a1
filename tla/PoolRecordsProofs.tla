-------------------------- MODULE PoolRecordsProofs -------------------------
(* The records of the process pool, for any set of pids, any heap and any   *)
(* number of incarnations.                                                  *)
EXTENDS PoolRecords, FiniteSetTheorems, TLAPS

\* Rows are distinct because readdir returns pids in ascending order and the
\* collection holds one record per pid: every row found so far has a smaller
\* pid than the entries still to read.
ScanOK ==
  /\ pc \in {"gc", "open", "shown"} => records = <<>>
  /\ pc # "read" => unread = {}
  /\ \A k \in 1..Len(records) :
       /\ records[k] \in heap
       /\ rec[records[k]].pid <= cursor
       /\ \A q \in unread : rec[records[k]].pid < q
       /\ \A l \in 1..Len(records) : records[k] = records[l] => k = l
  /\ \A q \in unread : q <= cursor

\* The rows of the frame are distinct, so freeing one does not free another.
\* The rows on screen are live; those the GC has still to visit are live if
\* the frame is the one of the previous cycle, which a failed scan breaks.
FrameOK ==
  /\ \A k, l \in 1..Len(sorted) : sorted[k] = sorted[l] => k = l
  /\ \A k \in 1..Len(sorted) :
       /\ pc = "shown" => sorted[k] \in heap
       /\ pc = "gc" /\ k >= i /\ ~ProcMayFail => sorted[k] \in heap
  /\ pc # "gc" => i = 1

IInv == TypeOK /\ OneRecordPerPid /\ ScanOK /\ FrameOK

\* A frame is a sequence of records; taking the next row keeps it one.
LEMMA AppendRow ==
  ASSUME NEW s \in Seq(Blocks), NEW b \in Blocks
  PROVE  /\ Append(s, b) \in Seq(Blocks)
         /\ Len(Append(s, b)) = Len(s) + 1
         /\ \A k \in 1..Len(s) : Append(s, b)[k] = s[k]
         /\ Append(s, b)[Len(s) + 1] = b
  OBVIOUS

LEMMA InitIInv == Init => IInv
<1> SUFFICES ASSUME Init PROVE IInv
    OBVIOUS
<1>1. up \subseteq Pids /\ Self \in up
      BY PidsAssumption DEF Init
<1>2. inc \in [Pids -> 0..MaxIncarnation]
      BY BoundsAssumption DEF Init
<1>3. Cleared \in Records
      BY BoundsAssumption DEF Cleared, Records
<1>4. rec \in [Blocks -> Records]
      BY <1>3 DEF Init
<1>5. before \in [Pids -> 0..MaxIncarnation]
      BY BoundsAssumption DEF Init
<1>b. indexed_collection \in [Pids -> Blocks \cup {NULL}]
      BY DEF Init
<1>6. TypeOK
      BY <1>1, <1>2, <1>4, <1>5, <1>b DEF Init, TypeOK
<1>7. OneRecordPerPid
      BY DEF Init, OneRecordPerPid, Owned
<1>8. ScanOK /\ FrameOK
      BY DEF Init, ScanOK, FrameOK
<1> QED BY <1>6, <1>7, <1>8 DEF IInv

\* The record of pid p, found or allocated: the collection still owns every
\* record once, and only p's record is touched.
LEMMA RecordOfOwned ==
  ASSUME TypeOK, OneRecordPerPid, NEW p \in Pids, NEW b \in Blocks, RecordOf(p, b),
         NEW r \in Records, r.pid = p, rec' = [rec EXCEPT ![b] = r]
  PROVE  /\ OneRecordPerPid'
         /\ indexed_collection' \in [Pids -> Blocks \cup {NULL}]
         /\ heap' \subseteq Blocks /\ heap \subseteq heap' /\ b \in heap'
         /\ rec' \in [Blocks -> Records]
         /\ b \in heap => rec[b].pid = p
<1> USE DEF TypeOK, RecordOf
<1>1. CASE indexed_collection[p] # NULL
  <2>1. b = indexed_collection[p] /\ UNCHANGED <<indexed_collection, heap>>
        BY <1>1
  <2>2. b \in heap /\ rec[b].pid = p
        BY <2>1, <1>1 DEF OneRecordPerPid, Owned
  <2>3. \A q \in Pids : indexed_collection[q] # NULL => rec'[indexed_collection[q]].pid = q
    <3> SUFFICES ASSUME NEW q \in Pids, indexed_collection[q] # NULL
                 PROVE  rec'[indexed_collection[q]].pid = q
        OBVIOUS
    <3>1. CASE q = p
          BY <3>1, <2>1
    <3>2. CASE q # p
      <4>1. indexed_collection[q] # b
            BY <3>2, <2>1, <1>1 DEF OneRecordPerPid
      <4>2. indexed_collection[q] \in Blocks
            OBVIOUS
      <4> QED BY <4>1, <4>2 DEF OneRecordPerPid
    <3> QED BY <3>1, <3>2
  <2> QED BY <2>1, <2>2, <2>3 DEF OneRecordPerPid, Owned
<1>2. CASE indexed_collection[p] = NULL
  <2>1. /\ b \in Blocks \ heap
        /\ indexed_collection' = [indexed_collection EXCEPT ![p] = b]
        /\ heap' = heap \cup {b}
        BY <1>2
  <2>2. \A q \in Pids : indexed_collection[q] # b
        BY <2>1, NullAssumption DEF OneRecordPerPid, Owned
  <2>3. b # NULL
        BY NullAssumption
  <2>4. Owned' = Owned \cup {b}
    <3>1. \A q \in Pids : indexed_collection'[q] = IF q = p THEN b ELSE indexed_collection[q]
          BY <2>1
    <3> QED BY <3>1, <2>3, <1>2 DEF Owned
  <2>5. \A q, s \in Pids : indexed_collection'[q] = indexed_collection'[s] /\ q # s
                             => indexed_collection'[q] = NULL
        BY <2>1, <2>2 DEF OneRecordPerPid
  <2>6. \A q \in Pids : indexed_collection'[q] # NULL => rec'[indexed_collection'[q]].pid = q
        BY <2>1, <2>2 DEF OneRecordPerPid
  <2> QED BY <2>1, <2>4, <2>5, <2>6 DEF OneRecordPerPid
<1> QED BY <1>1, <1>2

\* The GC frees the record of a process that has gone, and only that one.
LEMMA CollectIInv == IInv /\ Collect => IInv'
<1> SUFFICES ASSUME IInv, Collect PROVE IInv'
    OBVIOUS
<1> DEFINE b == sorted[i]
<1>1. b \in heap /\ b \in Blocks /\ i \in 1..Len(sorted) /\ pc = "gc"
      BY DEF IInv, TypeOK, Collect
<1>2. PICK p \in Pids : indexed_collection[p] = b /\ rec[b].pid = p
      BY <1>1, NullAssumption DEF IInv, OneRecordPerPid, Owned, TypeOK
<1>3. CASE p \in up
      BY <1>1, <1>2, <1>3, SMTT(40) DEF Collect, IInv, TypeOK, OneRecordPerPid, Owned,
         ScanOK, FrameOK, kernel, arrays
<1>4. CASE p \notin up
  <2>1. /\ indexed_collection' = [indexed_collection EXCEPT ![p] = NULL]
        /\ heap' = heap \ {b}
        /\ rec' = [rec EXCEPT ![b] = Cleared]
        /\ i' = i + 1
        /\ UNCHANGED <<kernel, arrays, pc, unread, cursor, steady, before>>
        BY <1>2, <1>4 DEF Collect
  <2>2. Cleared \in Records
        BY BoundsAssumption DEF Cleared, Records
  <2>3. rec' \in [Blocks -> Records]
        BY <2>1, <2>2 DEF IInv, TypeOK
  <2>4. TypeOK'
        BY <2>1, <2>3 DEF IInv, TypeOK, kernel, arrays
  <2>5. \A q \in Pids : q # p => indexed_collection[q] # b
        BY <1>2, <1>1, NullAssumption DEF IInv, OneRecordPerPid
  <2>6. \A q \in Pids : indexed_collection'[q] = IF q = p THEN NULL ELSE indexed_collection[q]
        BY <2>1 DEF IInv, TypeOK
  <2>7. Owned' = Owned \ {b}
        BY <2>5, <2>6, <1>2, <1>1, NullAssumption DEF Owned
  <2>8. OneRecordPerPid'
        BY <2>1, <2>5, <2>6, <2>7 DEF IInv, TypeOK, OneRecordPerPid
  <2>9. ScanOK'
        BY <2>1, <1>1 DEF IInv, ScanOK, arrays
  <2>10. FrameOK'
    <3>1. \A k \in 1..Len(sorted) : k >= i + 1 => sorted[k] # b
          BY <1>1 DEF IInv, FrameOK, TypeOK
    <3> QED BY <2>1, <3>1, <1>1 DEF IInv, FrameOK, TypeOK, arrays
  <2> QED BY <2>4, <2>8, <2>9, <2>10 DEF IInv
<1> QED BY <1>3, <1>4

\* The record of a pid still to read is not in a row yet.
LEMMA RowsAreNew ==
  ASSUME IInv, NEW p \in unread, NEW b \in Blocks, b \in heap => rec[b].pid = p
  PROVE  \A k \in 1..Len(records) : records[k] # b
<1> SUFFICES ASSUME NEW k \in 1..Len(records), records[k] = b PROVE FALSE
    OBVIOUS
<1>1. b \in heap /\ rec[b].pid < p
      BY DEF IInv, ScanOK
<1>2. rec[b].pid = p /\ p \in Nat
      BY <1>1, PidsAssumption DEF IInv, TypeOK
<1> QED BY <1>1, <1>2

\* A row is added for a pid larger than all the rows have.
LEMMA ReadStatIInv == ASSUME IInv, NEW p \in Pids, ReadStat(p) PROVE IInv'
<1>1. PICK b \in Blocks :
        /\ RecordOf(p, b)
        /\ rec' = [rec EXCEPT ![b] =
             [pid |-> p, has_prev |-> TRUE, sampled |-> inc[p],
              base |-> IF Found(p, b).has_prev THEN Found(p, b).sampled ELSE 0]]
        /\ records' = Append(records, b)
        /\ record_slots' = IF Len(records) < record_slots THEN record_slots
                           ELSE record_slots + 1
      BY DEF ReadStat
<1>2. /\ pc = "read" /\ p \in unread /\ unread' = unread \ {p}
      /\ UNCHANGED <<kernel, sorted, sorted_slots, pc, i, cursor,
                     steady, before>>
      BY DEF ReadStat, Current
<1> DEFINE r == [pid |-> p, has_prev |-> TRUE, sampled |-> inc[p],
                 base |-> IF Found(p, b).has_prev THEN Found(p, b).sampled ELSE 0]
<1>3. Found(p, b) \in Records
      BY BoundsAssumption DEF IInv, TypeOK, Found, Cleared, Records
<1>4. r \in Records /\ r.pid = p
      BY <1>3, BoundsAssumption DEF IInv, TypeOK, Records
<1>5. rec' = [rec EXCEPT ![b] = r]
      BY <1>1
<1> HIDE DEF r
<1>6. /\ OneRecordPerPid'
      /\ indexed_collection' \in [Pids -> Blocks \cup {NULL}]
      /\ heap' \subseteq Blocks /\ heap \subseteq heap' /\ b \in heap'
      /\ rec' \in [Blocks -> Records]
      /\ b \in heap => rec[b].pid = p
      BY <1>1, <1>4, <1>5, RecordOfOwned DEF IInv
<1>7. /\ records' \in Seq(Blocks) /\ Len(records') = Len(records) + 1
      /\ \A k \in 1..Len(records) : records'[k] = records[k]
      /\ records'[Len(records) + 1] = b
      BY <1>1, AppendRow DEF IInv, TypeOK
<1>8. TypeOK'
      BY <1>1, <1>2, <1>6, <1>7 DEF IInv, TypeOK, kernel
<1>9. \A k \in 1..Len(records) : records[k] # b
      BY <1>6, <1>2, RowsAreNew
<1>10. rec'[b].pid = p /\ \A k \in 1..Len(records) : rec'[records[k]] = rec[records[k]]
      BY <1>4, <1>5, <1>9 DEF IInv, TypeOK
<1>11. ScanOK'
  <2>1. \A q \in unread' : p < q /\ q <= cursor
        BY <1>2, PidsAssumption DEF ReadStat, Current, IInv, TypeOK, ScanOK
  <2>2. p <= cursor
        BY <1>2 DEF IInv, ScanOK
  <2>3. ASSUME NEW k \in 1..Len(records')
        PROVE  /\ records'[k] \in heap'
               /\ rec'[records'[k]].pid <= cursor
               /\ \A q \in unread' : rec'[records'[k]].pid < q
               /\ \A l \in 1..Len(records') : records'[k] = records'[l] => k = l
    <3>0. Len(records) \in Nat /\ Len(records') = Len(records) + 1
          BY <1>7 DEF IInv, TypeOK
    <3>1. CASE k \in 1..Len(records)
      <4>1. /\ records'[k] = records[k] /\ records[k] \in heap
            /\ rec[records[k]].pid <= cursor
            /\ \A q \in unread : rec[records[k]].pid < q
            /\ rec'[records[k]] = rec[records[k]]
            BY <3>1, <1>7, <1>10 DEF IInv, ScanOK
      <4>2. ASSUME NEW l \in 1..Len(records'), records'[k] = records'[l]
            PROVE  k = l
        <5>1. CASE l \in 1..Len(records)
              BY <5>1, <4>2, <3>1, <1>7 DEF IInv, ScanOK
        <5>2. CASE l = Len(records) + 1
              BY <5>2, <4>1, <4>2, <3>1, <1>7, <1>9
        <5> QED BY <5>1, <5>2, <3>0
      <4> QED BY <4>1, <4>2, <1>2, <1>6
    <3>2. CASE k = Len(records) + 1
      <4>1. records'[k] = b
            BY <3>2, <1>7
      <4>2. ASSUME NEW l \in 1..Len(records'), records'[k] = records'[l]
            PROVE  k = l
        <5>1. l \notin 1..Len(records)
              BY <4>1, <4>2, <1>7, <1>9
        <5> QED BY <5>1, <3>2, <3>0
      <4> QED BY <4>1, <4>2, <1>6, <1>10, <2>1, <2>2
    <3> QED BY <3>1, <3>2, <3>0
  <2> QED BY <1>2, <2>1, <2>3 DEF ScanOK
<1>12. FrameOK'
      BY <1>2 DEF IInv, FrameOK
<1> QED BY <1>6, <1>8, <1>11, <1>12 DEF IInv

\* A pid without a row may still get a record; no row changes.
LEMMA ReadStatFailsIInv == ASSUME IInv, NEW p \in Pids, ReadStatFails(p) PROVE IInv'
<1>0. TypeOK /\ OneRecordPerPid
      BY DEF IInv
<1>1. PICK b \in Blocks :
        /\ RecordOf(p, b)
        /\ rec' = [rec EXCEPT ![b] = [Found(p, b) EXCEPT !.pid = p]]
      BY DEF ReadStatFails
<1>2. /\ pc = "read" /\ p \in unread /\ unread' = unread \ {p}
      /\ steady' = steady \ {p}
      /\ UNCHANGED <<kernel, arrays, pc, i, cursor, before>>
      BY DEF ReadStatFails, Current
<1> DEFINE r == [Found(p, b) EXCEPT !.pid = p]
<1>3. Found(p, b) \in Records
      BY BoundsAssumption DEF IInv, TypeOK, Found, Cleared, Records
<1>3a. RecordOf(p, b)
      BY <1>1
<1>4. r \in Records /\ r.pid = p
      BY <1>3 DEF Records
<1>5. rec' = [rec EXCEPT ![b] = r]
      BY <1>1
<1> HIDE DEF r
<1>6. /\ OneRecordPerPid'
      /\ indexed_collection' \in [Pids -> Blocks \cup {NULL}]
      /\ heap' \subseteq Blocks /\ heap \subseteq heap' /\ b \in heap'
      /\ rec' \in [Blocks -> Records]
      /\ b \in heap => rec[b].pid = p
      BY <1>0, <1>3a, <1>4, <1>5, RecordOfOwned
<1>7. TypeOK'
      BY <1>2, <1>6 DEF IInv, TypeOK, kernel, arrays
<1>8. \A k \in 1..Len(records) : records[k] # b
      BY <1>6, <1>2, RowsAreNew
<1>9. \A k \in 1..Len(records) : rec'[records[k]] = rec[records[k]]
      BY <1>5, <1>8 DEF IInv, TypeOK
<1>10. ScanOK'
      BY <1>2, <1>6, <1>9 DEF IInv, ScanOK, arrays
<1>11. FrameOK'
      BY <1>2 DEF IInv, FrameOK, arrays
<1> QED BY <1>6, <1>7, <1>10, <1>11 DEF IInv
\* The remaining steps of the producer move pc and the arrays.
LEMMA GCDoneIInv == IInv /\ GCDone => IInv'
<1> SUFFICES ASSUME IInv, GCDone PROVE IInv'
    OBVIOUS
<1> USE DEF IInv, GCDone, kernel, pool, arrays
<1>1. TypeOK'
      BY DEF TypeOK
<1>2. OneRecordPerPid' /\ ScanOK' /\ FrameOK'
      BY DEF OneRecordPerPid, Owned, ScanOK, FrameOK
<1> QED BY <1>1, <1>2

\* Only here may the GC meet its own freed rows again: with ~ProcMayFail there
\* is no such step.
LEMMA OpenFailsIInv == IInv /\ OpenFails => IInv'
<1> SUFFICES ASSUME IInv, OpenFails PROVE IInv'
    OBVIOUS
<1> USE DEF IInv, OpenFails, kernel, pool, arrays
<1>1. TypeOK'
      BY DEF TypeOK
<1>2. OneRecordPerPid' /\ ScanOK'
      BY DEF OneRecordPerPid, Owned, ScanOK
<1>3. FrameOK'
      BY DEF FrameOK
<1> QED BY <1>1, <1>2, <1>3

LEMMA OpenIInv == IInv /\ Open => IInv'
<1> SUFFICES ASSUME IInv, Open PROVE IInv'
    OBVIOUS
<1> USE DEF IInv, Open, kernel, pool, arrays
<1>1. TypeOK'
      BY DEF TypeOK
<1>2. OneRecordPerPid' /\ ScanOK' /\ FrameOK'
      BY DEF OneRecordPerPid, Owned, ScanOK, FrameOK, TypeOK
<1> QED BY <1>1, <1>2

\* A new stretch begins after the cursor, hence after every row.
LEMMA ListIInv == IInv /\ List => IInv'
<1> SUFFICES ASSUME IInv, List PROVE IInv'
    OBVIOUS
<1>1. PICK last \in {p \in Pids : p > cursor} :
        /\ cursor' = last
        /\ unread' = {p \in up : cursor < p /\ p <= last}
      BY DEF List
<1>2. pc = "list" /\ pc' = "read" /\ UNCHANGED <<kernel, pool, i, steady, before>>
      BY DEF List
<1>3. last \in Pids /\ last \in Nat /\ last > cursor /\ cursor \in Nat
      BY PidsAssumption DEF IInv, TypeOK
<1>4. TypeOK'
      BY <1>1, <1>2, <1>3 DEF IInv, TypeOK, kernel, pool, arrays
<1>5. OneRecordPerPid' /\ FrameOK'
      BY <1>2 DEF IInv, OneRecordPerPid, Owned, FrameOK, pool, arrays
<1>6. ASSUME NEW k \in 1..Len(records)
      PROVE  /\ rec[records[k]].pid <= last
             /\ \A q \in unread' : rec[records[k]].pid < q
  <2>0. records[k] \in Blocks /\ rec[records[k]].pid <= cursor
        BY DEF IInv, TypeOK, ScanOK
  <2>a. rec[records[k]] \in Records
        BY <2>0 DEF IInv, TypeOK
  <2>b. rec[records[k]].pid \in Pids \cup {0}
        BY <2>a DEF Records
  <2>c. Pids \cup {0} \subseteq Nat
        BY PidsAssumption
  <2>1. rec[records[k]].pid \in Nat
        BY <2>b, <2>c, Zenon
  <2>2. \A q \in unread' : q \in Nat /\ cursor < q
        BY <1>1, PidsAssumption DEF IInv, TypeOK
  <2> QED BY <2>0, <2>1, <2>2, <1>3
<1>7. ScanOK'
      BY <1>1, <1>2, <1>6 DEF IInv, ScanOK, pool, arrays
<1> QED BY <1>4, <1>5, <1>7 DEF IInv

LEMMA ReadDoneIInv == IInv /\ ReadDone => IInv'
<1> SUFFICES ASSUME IInv, ReadDone PROVE IInv'
    OBVIOUS
<1> USE DEF IInv, ReadDone, kernel, pool, arrays
<1>0. pc' = "list" \/ pc' = "build"
  <2>1. CASE \E p \in Pids : p > cursor
        BY <2>1
  <2>2. CASE ~\E p \in Pids : p > cursor
        BY <2>2
  <2> QED BY <2>1, <2>2
<1>1. TypeOK'
      BY <1>0 DEF TypeOK
<1>2. OneRecordPerPid' /\ ScanOK' /\ FrameOK'
      BY <1>0 DEF OneRecordPerPid, Owned, ScanOK, FrameOK
<1> QED BY <1>1, <1>2

\* The rows found become the frame: they are distinct and live.
LEMMA BuildIInv == IInv /\ Build => IInv'
<1> SUFFICES ASSUME IInv, Build PROVE IInv'
    OBVIOUS
<1>1. /\ pc = "build" /\ pc' = "shown" /\ sorted' = records /\ records' = <<>>
      /\ cursor' = 0
      /\ UNCHANGED <<kernel, indexed_collection, heap, rec, i, unread, steady, before>>
      BY DEF Build
<1>2. Len(records) \in Nat /\ Slack \in Nat
      BY BoundsAssumption DEF IInv, TypeOK
<1>3. record_slots' \in Nat /\ sorted_slots' \in Nat
      BY <1>2 DEF IInv, TypeOK, Build, Fit
<1>5. TypeOK'
      BY <1>1, <1>3 DEF IInv, TypeOK, kernel
<1>6. OneRecordPerPid'
      BY <1>1 DEF IInv, OneRecordPerPid, Owned
<1>7. ScanOK' /\ FrameOK'
      BY <1>1 DEF IInv, ScanOK, FrameOK
<1> QED BY <1>5, <1>6, <1>7 DEF IInv

LEMMA ShownIInv == IInv /\ Shown => IInv'
<1> SUFFICES ASSUME IInv, Shown PROVE IInv'
    OBVIOUS
<1>1. /\ pc = "shown" /\ pc' = "gc" /\ steady' = {}
      /\ UNCHANGED <<kernel, pool, i, unread, cursor>>
      BY DEF Shown
<1>2. before' \in [Pids -> 0..MaxIncarnation]
  <2>1. ASSUME NEW p \in Pids, NEW k \in 1..Len(sorted), rec[sorted[k]].pid = p
        PROVE  rec[indexed_collection[p]].sampled \in 0..MaxIncarnation
    <3>1. sorted[k] \in heap
          BY <1>1 DEF IInv, FrameOK
    <3>2. PICK q \in Pids : indexed_collection[q] = sorted[k]
          BY <3>1 DEF IInv, OneRecordPerPid, Owned
    <3>3. sorted[k] # NULL /\ sorted[k] \in Blocks
          BY <3>1, NullAssumption DEF IInv, TypeOK
    <3>4. q = p
          BY <2>1, <3>2, <3>3 DEF IInv, OneRecordPerPid
    <3> QED BY <3>2, <3>3, <3>4 DEF IInv, TypeOK, Records
  <2>2. 0 \in 0..MaxIncarnation
        BY BoundsAssumption
  <2>3. before' = [p \in Pids |->
          IF \E k \in 1..Len(sorted) : rec[sorted[k]].pid = p
          THEN rec[indexed_collection[p]].sampled ELSE 0]
        BY DEF Shown
  <2>4. ASSUME NEW p \in Pids PROVE before'[p] \in 0..MaxIncarnation
    <3>1. CASE \E k \in 1..Len(sorted) : rec[sorted[k]].pid = p
          BY <3>1, <2>1, <2>3
    <3>2. CASE ~\E k \in 1..Len(sorted) : rec[sorted[k]].pid = p
          BY <3>2, <2>2, <2>3
    <3> QED BY <3>1, <3>2
  <2> QED BY <2>3, <2>4
<1>3. TypeOK'
      BY <1>1, <1>2 DEF IInv, TypeOK, kernel, pool, arrays
<1>4. OneRecordPerPid' /\ ScanOK'
      BY <1>1 DEF IInv, OneRecordPerPid, Owned, ScanOK, pool, arrays
<1>5. FrameOK'
      BY <1>1 DEF IInv, FrameOK, TypeOK, pool, arrays
<1> QED BY <1>3, <1>4, <1>5 DEF IInv

\* Processes start and exit at any moment; the pool does not move.
LEMMA ProcessIInv == ASSUME IInv, NEW p \in Pids, Fork(p) \/ Exit(p) PROVE IInv'
<1>1. UNCHANGED <<pool, scan, before>> /\ steady' \subseteq steady
      BY DEF Fork, Exit
<1>2. up' \subseteq Pids /\ Self \in up'
      BY DEF IInv, TypeOK, Fork, Exit
<1>3. inc' \in [Pids -> 0..MaxIncarnation]
  <2>1. CASE Fork(p)
        BY <2>1, BoundsAssumption DEF IInv, TypeOK, Fork
  <2>2. CASE Exit(p)
        BY <2>2 DEF IInv, TypeOK, Exit
  <2> QED BY <2>1, <2>2
<1>4. TypeOK'
      BY <1>1, <1>2, <1>3 DEF IInv, TypeOK, pool, scan, arrays
<1>5. OneRecordPerPid' /\ ScanOK' /\ FrameOK'
      BY <1>1 DEF IInv, OneRecordPerPid, Owned, ScanOK, FrameOK, pool, scan, arrays
<1> QED BY <1>4, <1>5 DEF IInv

LEMMA StutterIInv == IInv /\ UNCHANGED vars => IInv'
<1> SUFFICES ASSUME IInv, UNCHANGED vars PROVE IInv'
    OBVIOUS
<1> USE DEF IInv, vars, kernel, pool, scan, arrays
<1>1. TypeOK'
      BY DEF TypeOK
<1>2. OneRecordPerPid' /\ ScanOK' /\ FrameOK'
      BY DEF OneRecordPerPid, Owned, ScanOK, FrameOK
<1> QED BY <1>1, <1>2

LEMMA NextIInv == IInv /\ [Next]_vars => IInv'
<1> SUFFICES ASSUME IInv, [Next]_vars PROVE IInv'
    OBVIOUS
<1>1. CASE Collect \/ GCDone \/ OpenFails \/ Open \/ List \/ ReadDone \/ Build
      BY <1>1, CollectIInv, GCDoneIInv, OpenFailsIInv, OpenIInv, ListIInv,
         ReadDoneIInv, BuildIInv
<1>2. CASE \E p \in Pids : ReadStat(p) \/ ReadStatFails(p)
      BY <1>2, ReadStatIInv, ReadStatFailsIInv
<1>3. CASE Shown
      BY <1>3, ShownIInv
<1>4. CASE \E p \in Pids : Fork(p) \/ Exit(p)
      BY <1>4, ProcessIInv
<1>5. CASE UNCHANGED vars
      BY <1>5, StutterIInv
<1> QED BY <1>1, <1>2, <1>3, <1>4, <1>5 DEF Next, Produce

LEMMA Invariance == Spec => []IInv
<1> QED BY InitIInv, NextIInv, PTL DEF Spec

-----------------------------------------------------------------------------
\* Every variable keeps its type.
THEOREM TypeCorrect == Spec => []TypeOK
<1>1. IInv => TypeOK
      BY DEF IInv
<1> QED BY <1>1, Invariance, PTL

\* indexed_collection owns every record exactly once, whatever processes do.
THEOREM RecordsOwned == Spec => []OneRecordPerPid
<1>1. IInv => OneRecordPerPid
      BY DEF IInv
<1> QED BY <1>1, Invariance, PTL

\* The display and the scan follow live pointers, even if scans fail.
THEOREM DisplayIsLive == Spec => []DisplayLive
<1>1. IInv => DisplayLive
      BY DEF IInv, FrameOK, ScanOK, DisplayLive, Followed
<1> QED BY <1>1, Invariance, PTL

\* While /proc can be opened, the GC does so too: no record is used or freed
\* after it was freed.
THEOREM NoRecordDangles ==
  ASSUME ~ProcMayFail PROVE Spec => []NoDanglingRow
<1>1. IInv => NoDanglingRow
      BY DEF IInv, FrameOK, ScanOK, NoDanglingRow, Followed
<1> QED BY <1>1, Invariance, PTL

\* The record of a process stays where it is for as long as the process lives.
THEOREM AddressesStable == Spec => StableAddress
<1>1. ASSUME IInv, [Next]_vars
      PROVE  \A p \in Pids : indexed_collection[p] # NULL /\ p \in up
               => indexed_collection'[p] = indexed_collection[p]
  <2> SUFFICES ASSUME NEW p \in Pids, indexed_collection[p] # NULL, p \in up
               PROVE  indexed_collection'[p] = indexed_collection[p]
      OBVIOUS
  <2>1. CASE Collect
    <3>1. sorted[i] \in heap /\ IF rec[sorted[i]].pid \in up
             THEN UNCHANGED indexed_collection
             ELSE indexed_collection' = [indexed_collection EXCEPT ![rec[sorted[i]].pid] = NULL]
          BY <2>1 DEF Collect
    <3> QED BY <3>1, <1>1 DEF IInv, TypeOK
  <2>2. ASSUME NEW q \in Pids, NEW b \in Blocks, RecordOf(q, b)
        PROVE  indexed_collection'[p] = indexed_collection[p]
        BY <2>2, <1>1 DEF RecordOf, IInv, TypeOK
  <2>3. CASE \E q \in Pids : ReadStat(q) \/ ReadStatFails(q)
        BY <2>2, <2>3 DEF ReadStat, ReadStatFails
  <2>4. CASE GCDone \/ OpenFails \/ Open \/ List \/ ReadDone \/ Build \/ Shown
        BY <2>4 DEF GCDone, OpenFails, Open, List, ReadDone, Build, Shown, pool
  <2>5. CASE \/ \E q \in Pids : Fork(q) \/ Exit(q)
             \/ UNCHANGED vars
        BY <2>5 DEF Fork, Exit, vars, pool
  <2> QED BY <1>1, <2>1, <2>3, <2>4, <2>5 DEF Next, Produce
<1>2. IInv /\ [Next]_vars =>
        [\A p \in Pids : indexed_collection[p] # NULL /\ p \in up
           => indexed_collection'[p] = indexed_collection[p]]_vars
      BY <1>1
<1> QED BY <1>2, Invariance, PTL DEF Spec, StableAddress
-----------------------------------------------------------------------------
(* What a read leaves in the records.                                       *)

\* The collection finds a record under the pid it says.
LEMMA OwnedRecord ==
  ASSUME IInv, NEW b \in heap
  PROVE  /\ b \in Blocks /\ b # NULL
         /\ rec[b].pid \in Pids /\ indexed_collection[rec[b].pid] = b
<1>1. b \in Blocks /\ b # NULL
      BY NullAssumption DEF IInv, TypeOK
<1>2. PICK q \in Pids : indexed_collection[q] = b
      BY DEF IInv, OneRecordPerPid, Owned
<1>3. rec[b].pid = q
      BY <1>1, <1>2 DEF IInv, OneRecordPerPid
<1> QED BY <1>1, <1>2, <1>3

\* Other pids keep their records when pid p finds or gets record b.
LEMMA OthersKeepRecord ==
  ASSUME IInv, NEW p \in Pids, NEW b \in Blocks, RecordOf(p, b),
         NEW q \in Pids, q # p
  PROVE  indexed_collection'[q] = indexed_collection[q] /\ indexed_collection[q] # b
<1>1. CASE indexed_collection[p] # NULL
      BY <1>1 DEF RecordOf, IInv, OneRecordPerPid
<1>2. CASE indexed_collection[p] = NULL
      BY <1>2, NullAssumption DEF RecordOf, IInv, TypeOK, OneRecordPerPid, Owned
<1> QED BY <1>1, <1>2

\* The row that ReadStat appends, and what it leaves of the others.
LEMMA ReadStatRow ==
  ASSUME IInv, NEW p \in Pids, ReadStat(p)
  PROVE  \E b \in Blocks :
           /\ RecordOf(p, b) /\ indexed_collection'[p] = b
           /\ Len(records') = Len(records) + 1 /\ records'[Len(records) + 1] = b
           /\ \A k \in 1..Len(records) : records'[k] = records[k]
           /\ \A k \in 1..Len(records) : rec'[records[k]] = rec[records[k]]
           /\ \A c \in Blocks \ {b} : rec'[c] = rec[c]
           /\ rec'[b] = [pid |-> p, has_prev |-> TRUE, sampled |-> inc[p],
                         base |-> IF Found(p, b).has_prev THEN Found(p, b).sampled
                                  ELSE 0]
<1>1. PICK b \in Blocks :
        /\ RecordOf(p, b)
        /\ rec' = [rec EXCEPT ![b] =
             [pid |-> p, has_prev |-> TRUE, sampled |-> inc[p],
              base |-> IF Found(p, b).has_prev THEN Found(p, b).sampled ELSE 0]]
        /\ records' = Append(records, b)
      BY DEF ReadStat
<1>2. p \in unread
      BY DEF ReadStat, Current
<1>3. b \in heap => rec[b].pid = p
  <2>1. CASE indexed_collection[p] # NULL
        BY <2>1, <1>1 DEF RecordOf, IInv, OneRecordPerPid
  <2>2. CASE indexed_collection[p] = NULL
        BY <2>2, <1>1 DEF RecordOf
  <2> QED BY <2>1, <2>2
<1>4. \A k \in 1..Len(records) : records[k] # b
      BY <1>2, <1>3, RowsAreNew
<1>5. \A k \in 1..Len(records) : records[k] \in Blocks
      BY DEF IInv, TypeOK
<1>6. /\ Len(records') = Len(records) + 1 /\ records'[Len(records) + 1] = b
      /\ \A k \in 1..Len(records) : records'[k] = records[k]
      BY <1>1, AppendRow DEF IInv, TypeOK
<1>7. rec'[b] = [pid |-> p, has_prev |-> TRUE, sampled |-> inc[p],
                 base |-> IF Found(p, b).has_prev THEN Found(p, b).sampled ELSE 0]
      BY <1>1 DEF IInv, TypeOK
<1>8. \A c \in Blocks \ {b} : rec'[c] = rec[c]
      BY <1>1 DEF IInv, TypeOK
<1>9. indexed_collection'[p] = b
      BY <1>1 DEF RecordOf, IInv, TypeOK
<1> QED BY <1>1, <1>4, <1>5, <1>6, <1>7, <1>8, <1>9

\* A failed read adds no row and leaves the rows alone.
LEMMA ReadStatFailsRow ==
  ASSUME IInv, NEW p \in Pids, ReadStatFails(p)
  PROVE  \E b \in Blocks :
           /\ RecordOf(p, b) /\ indexed_collection'[p] = b
           /\ \A k \in 1..Len(records) : rec'[records[k]] = rec[records[k]]
           /\ \A c \in Blocks \ {b} : rec'[c] = rec[c]
           /\ rec'[b] = [Found(p, b) EXCEPT !.pid = p]
<1>1. PICK b \in Blocks :
        /\ RecordOf(p, b)
        /\ rec' = [rec EXCEPT ![b] = [Found(p, b) EXCEPT !.pid = p]]
      BY DEF ReadStatFails
<1>2. p \in unread
      BY DEF ReadStatFails, Current
<1>3. b \in heap => rec[b].pid = p
  <2>1. CASE indexed_collection[p] # NULL
        BY <2>1, <1>1 DEF RecordOf, IInv, OneRecordPerPid
  <2>2. CASE indexed_collection[p] = NULL
        BY <2>2, <1>1 DEF RecordOf
  <2> QED BY <2>1, <2>2
<1>4. \A k \in 1..Len(records) : records[k] # b
      BY <1>2, <1>3, RowsAreNew
<1>5. \A k \in 1..Len(records) : records[k] \in Blocks
      BY DEF IInv, TypeOK
<1>7. rec'[b] = [Found(p, b) EXCEPT !.pid = p]
      BY <1>1 DEF IInv, TypeOK
<1>8. \A c \in Blocks \ {b} : rec'[c] = rec[c]
      BY <1>1 DEF IInv, TypeOK
<1>9. indexed_collection'[p] = b
      BY <1>1 DEF RecordOf, IInv, TypeOK
<1> QED BY <1>1, <1>4, <1>5, <1>7, <1>8, <1>9

-----------------------------------------------------------------------------
(* The capacity of the arrays.                                              *)

\* The rows found so far have their slots before the frame is built.
SlotsOK == Len(records) <= record_slots /\ ArraysFit

\* Whatever the frame before was, realloc leaves room for the rows and at most
\* Slack slots more, although the difference of the sizes is unsigned.
LEMMA FitHolds ==
  ASSUME NEW n \in Nat, NEW h \in Nat
  PROVE  h <= Fit(n, h) /\ Fit(n, h) <= h + Slack
  BY BoundsAssumption DEF Fit

\* Both arrays hold the frame and waste at most Slack slots.
THEOREM ArraysHoldFrame == Spec => []ArraysFit
<1>1. Init => SlotsOK
      BY DEF Init, SlotsOK, ArraysFit
<1>2. IInv /\ SlotsOK /\ [Next]_vars => SlotsOK'
  <2> SUFFICES ASSUME IInv, SlotsOK, [Next]_vars PROVE SlotsOK'
      OBVIOUS
  <2>0. Len(records) \in Nat /\ record_slots \in Nat /\ sorted_slots \in Nat
        BY DEF IInv, TypeOK
  <2>1. ASSUME NEW p \in Pids, ReadStat(p) PROVE SlotsOK'
    <3>1. Len(records') = Len(records) + 1
          BY <2>1, ReadStatRow
    <3> QED BY <2>0, <2>1, <3>1 DEF ReadStat, SlotsOK, ArraysFit
  <2>2. CASE Build
    <3>1. records' = <<>> /\ sorted' = records /\ record_slots' \in Nat
          BY <2>0, <2>2, BoundsAssumption DEF Build, Fit
    <3>2. CASE Len(records) = 0
          BY <3>1, <3>2, <2>2, BoundsAssumption DEF Build, Fit, SlotsOK, ArraysFit, IInv, TypeOK
    <3>3. CASE Len(records) > 0
      <4>1. /\ record_slots' = Fit(record_slots, Len(records))
            /\ sorted_slots' = Fit(sorted_slots, Len(records))
            BY <3>3, <2>2 DEF Build
      <4> QED BY <4>1, <3>1, <2>0, FitHolds DEF SlotsOK, ArraysFit
    <3> QED BY <3>2, <3>3, <2>0
  <2>3. CASE \/ Collect \/ GCDone \/ OpenFails \/ Open \/ List \/ ReadDone \/ Shown
             \/ \E p \in Pids : ReadStatFails(p)
        BY <2>3 DEF Collect, GCDone, OpenFails, Open, List, ReadDone, Shown,
           ReadStatFails, SlotsOK, ArraysFit, pool, arrays
  <2>4. CASE \/ \E p \in Pids : Fork(p) \/ Exit(p)
             \/ UNCHANGED vars
        BY <2>4 DEF Fork, Exit, vars, SlotsOK, ArraysFit, pool, arrays, scan
  <2> QED BY <2>1, <2>2, <2>3, <2>4 DEF Next, Produce
<1>3. SlotsOK => ArraysFit
      BY DEF SlotsOK
<1> QED BY <1>1, <1>2, <1>3, Invariance, PTL DEF Spec
-----------------------------------------------------------------------------
(* The rows of a frame.                                                     *)

RowOf(p) == \E k \in 1..Len(records) : rec[records[k]].pid = p

\* A process that has been there, and readable, since the scan began is ahead
\* of the cursor, in the stretch being read, or has its row.
SteadyOK ==
  /\ pc \in {"gc", "open", "shown"} => cursor = 0
  /\ pc \in {"list", "read", "build"} => steady \subseteq up
  /\ pc \in {"list", "read"} =>
       \A p \in steady : p > cursor \/ p \in unread \/ RowOf(p)
  /\ pc = "build" => \A p \in steady : RowOf(p)
  /\ pc = "shown" => steady \subseteq Rows

\* The rows there were keep their pids, and the pid read has one more.
LEMMA ReadStatRows ==
  ASSUME IInv, NEW p \in Pids, ReadStat(p)
  PROVE  RowOf(p)' /\ \A q \in Pids : RowOf(q) => RowOf(q)'
<1>1. PICK b \in Blocks :
        /\ Len(records') = Len(records) + 1 /\ records'[Len(records) + 1] = b
        /\ \A k \in 1..Len(records) : records'[k] = records[k]
        /\ \A k \in 1..Len(records) : rec'[records[k]] = rec[records[k]]
        /\ rec'[b] = [pid |-> p, has_prev |-> TRUE, sampled |-> inc[p],
                      base |-> IF Found(p, b).has_prev THEN Found(p, b).sampled
                               ELSE 0]
      BY ReadStatRow, Zenon
<1>2. Len(records) \in Nat
      BY DEF IInv, TypeOK
<1>3. RowOf(p)'
  <2>1. rec'[b].pid = p
        BY <1>1
  <2> QED BY <1>1, <1>2, <2>1 DEF RowOf
<1>4. ASSUME NEW q \in Pids, RowOf(q) PROVE RowOf(q)'
  <2>1. PICK k \in 1..Len(records) : rec[records[k]].pid = q
        BY <1>4 DEF RowOf
  <2>2. k \in 1..Len(records') /\ rec'[records'[k]].pid = q
        BY <1>1, <1>2, <2>1
  <2> QED BY <2>2 DEF RowOf
<1> QED BY <1>3, <1>4

LEMMA ReadStatFailsRows ==
  ASSUME IInv, NEW p \in Pids, ReadStatFails(p)
  PROVE  \A q \in Pids : RowOf(q)' <=> RowOf(q)
<1>1. \A k \in 1..Len(records) : rec'[records[k]] = rec[records[k]]
      BY ReadStatFailsRow
<1>2. records' = records
      BY DEF ReadStatFails, arrays
<1> QED BY <1>1, <1>2 DEF RowOf

LEMMA SteadyInvariant == Spec => []SteadyOK
<1>1. Init => SteadyOK
      BY DEF Init, SteadyOK
<1>2. IInv /\ SteadyOK /\ [Next]_vars => SteadyOK'
  <2> SUFFICES ASSUME IInv, SteadyOK, [Next]_vars PROVE SteadyOK'
      OBVIOUS
  <2>0. /\ up \subseteq Pids /\ steady \subseteq Pids /\ Pids \subseteq Nat \ {0}
        /\ cursor \in Nat /\ \A p \in Pids : p \in Nat /\ p > 0
        BY PidsAssumption DEF IInv, TypeOK
  <2>1. ASSUME NEW p \in Pids, ReadStat(p) PROVE SteadyOK'
    <3>1. /\ pc = "read" /\ pc' = "read" /\ unread' = unread \ {p}
          /\ cursor' = cursor /\ steady' = steady /\ up' = up
          BY <2>1 DEF ReadStat, kernel
    <3> QED BY <2>0, <2>1, <3>1, ReadStatRows DEF SteadyOK
  <2>2. ASSUME NEW p \in Pids, ReadStatFails(p) PROVE SteadyOK'
    <3>1. /\ pc = "read" /\ pc' = "read" /\ unread' = unread \ {p}
          /\ cursor' = cursor /\ steady' = steady \ {p} /\ up' = up
          BY <2>2 DEF ReadStatFails, kernel
    <3> QED BY <2>0, <2>2, <3>1, ReadStatFailsRows DEF SteadyOK
  <2>3. CASE Open
    <3>1. pc = "open" /\ pc' = "list" /\ steady' = up /\ up' = up /\ cursor' = 0
          BY <2>3 DEF Open, SteadyOK, kernel
    <3> QED BY <2>0, <3>1 DEF SteadyOK
  <2>4. CASE List
    <3>1. PICK last \in {p \in Pids : p > cursor} :
            /\ cursor' = last
            /\ unread' = {p \in up : cursor < p /\ p <= last}
          BY <2>4 DEF List
    <3>2. /\ pc = "list" /\ pc' = "read" /\ unread = {} /\ up' = up
          /\ steady' = steady /\ records' = records /\ rec' = rec
          BY <2>4 DEF List, kernel, pool, arrays, IInv, ScanOK
    <3>3. \A p \in Pids : RowOf(p)' <=> RowOf(p)
          BY <3>2 DEF RowOf
    <3>4. ASSUME NEW p \in steady
          PROVE  p > last \/ p \in unread' \/ RowOf(p)'
      <4>1. p \in up /\ p \in Pids /\ p \in Nat /\ last \in Nat
            BY <2>0, <3>2 DEF SteadyOK
      <4>2. p > cursor \/ RowOf(p)
            BY <3>2 DEF SteadyOK
      <4> QED BY <2>0, <3>1, <3>3, <4>1, <4>2
    <3> QED BY <3>1, <3>2, <3>4 DEF SteadyOK
  <2>5. CASE ReadDone
    <3>1. /\ pc = "read" /\ unread = {} /\ unread' = {} /\ steady' = steady /\ up' = up
          /\ cursor' = cursor /\ records' = records /\ rec' = rec
          /\ pc' = IF \E p \in Pids : p > cursor THEN "list" ELSE "build"
          BY <2>5 DEF ReadDone, kernel, pool, arrays
    <3>2. \A p \in Pids : RowOf(p)' <=> RowOf(p)
          BY <3>1 DEF RowOf
    <3>3. pc' \in {"list", "build"} /\ (pc' = "build" => \A p \in Pids : ~(p > cursor))
          BY <3>1
    <3>4. steady \subseteq up /\ \A p \in steady : p > cursor \/ RowOf(p)
          BY <3>1 DEF SteadyOK
    <3> QED BY <2>0, <3>1, <3>2, <3>3, <3>4 DEF SteadyOK
  <2>6. CASE Build
    <3>1. /\ pc = "build" /\ pc' = "shown" /\ cursor' = 0 /\ sorted' = records
          /\ rec' = rec /\ steady' = steady
          BY <2>6 DEF Build
    <3> QED BY <3>1 DEF SteadyOK, RowOf, Rows
  <2>7. CASE Collect \/ GCDone \/ OpenFails \/ Shown
        BY <2>7 DEF Collect, GCDone, OpenFails, Shown, SteadyOK, pool, arrays
  <2>8. ASSUME NEW p \in Pids, Fork(p) \/ Exit(p) PROVE SteadyOK'
    <3>1. /\ UNCHANGED <<pc, cursor, unread, records, rec, sorted>>
          /\ steady' \subseteq steady
          /\ steady \subseteq up => steady' \subseteq up'
          BY <2>8 DEF Fork, Exit, pool, scan, arrays
    <3>2. \A q \in Pids : RowOf(q)' <=> RowOf(q)
          BY <3>1 DEF RowOf
    <3>3. Rows' = Rows
          BY <3>1 DEF Rows
    <3> QED BY <2>0, <3>1, <3>2, <3>3 DEF SteadyOK
  <2>9. CASE UNCHANGED vars
        BY <2>9 DEF vars, kernel, pool, scan, arrays, SteadyOK, RowOf, Rows
  <2> QED BY <2>1, <2>2, <2>3, <2>4, <2>5, <2>6, <2>7, <2>8, <2>9 DEF Next, Produce
<1> QED BY <1>1, <1>2, Invariance, PTL DEF Spec

\* The rows of a frame are for different processes.
LEMMA RowsDistinct ==
  ASSUME IInv, pc = "shown"
  PROVE  Cardinality(Rows) = Len(sorted)
<1> DEFINE f == [k \in 1..Len(sorted) |-> rec[sorted[k]].pid]
<1>1. f \in [1..Len(sorted) -> Rows]
      BY DEF Rows
<1>2. ASSUME NEW k \in 1..Len(sorted), NEW l \in 1..Len(sorted), f[k] = f[l]
      PROVE  k = l
  <2>1. sorted[k] \in heap /\ sorted[l] \in heap
        BY DEF IInv, FrameOK
  <2>2. sorted[k] = sorted[l]
        BY <1>2, <2>1, OwnedRecord
  <2> QED BY <2>2 DEF IInv, FrameOK
<1>3. \A p \in Rows : \E k \in 1..Len(sorted) : f[k] = p
      BY DEF Rows
<1>4. f \in Bijection(1..Len(sorted), Rows)
      BY <1>1, <1>2, <1>3 DEF Bijection, Injection, Surjection, IsInjective
<1>5. Len(sorted) \in Nat
      BY DEF IInv, TypeOK
<1> QED BY <1>4, <1>5, FS_CountingElements DEF ExistsBijection

\* A frame has one row per process, and a row for every process that existed
\* and could be read from the beginning of the scan to its end.
THEOREM FramesComplete == Spec => []FrameComplete
<1>1. IInv /\ SteadyOK => FrameComplete
      BY RowsDistinct DEF SteadyOK, FrameComplete
<1> QED BY <1>1, Invariance, SteadyInvariant, PTL
-----------------------------------------------------------------------------
(* The CPU baseline of a row.                                               *)

\* A row of the frame being built: it has a sample of some process, and if
\* that process was in the last frame, the sample before is its own.
OwnSample(r) ==
  /\ r.has_prev /\ r.sampled > 0 /\ r.sampled <= inc[r.pid]
  /\ before[r.pid] = r.sampled => r.base = r.sampled

\* What is known of a process of the last frame until its pid is read again:
\* its record still has the sample, or it is gone and the pid was used again.
Remembered(p) ==
  \/ /\ indexed_collection[p] # NULL
     /\ rec[indexed_collection[p]].has_prev
     /\ rec[indexed_collection[p]].sampled = before[p]
  \/ /\ indexed_collection[p] # NULL => ~rec[indexed_collection[p]].has_prev
     /\ p \in up => inc[p] > before[p]

Incarnations == \A p \in Pids : before[p] <= inc[p] /\ (p \in up => inc[p] > 0)

BaselineOK ==
  /\ Incarnations
  /\ \A k \in 1..Len(records) : OwnSample(rec[records[k]])
  /\ pc = "shown" => \A k \in 1..Len(sorted) : OwnSample(rec[sorted[k]])
  /\ pc # "shown" => \A p \in Pids : before[p] # 0 /\ ~RowOf(p) => Remembered(p)

LEMMA InitBaseline == Init => BaselineOK
<1> SUFFICES ASSUME Init PROVE BaselineOK
    OBVIOUS
<1>1. Incarnations /\ \A p \in Pids : before[p] = 0
      BY DEF Init, Incarnations
<1> QED BY <1>1 DEF Init, BaselineOK

\* The GC forgets the sample of a process only when the process has gone.
LEMMA CollectBaseline == IInv /\ BaselineOK /\ Collect => BaselineOK'
<1> SUFFICES ASSUME IInv, BaselineOK, Collect PROVE BaselineOK'
    OBVIOUS
<1> DEFINE b == sorted[i]
           p == rec[b].pid
<1>1. /\ b \in heap /\ pc = "gc" /\ pc' = "gc" /\ records = <<>> /\ records' = <<>>
      /\ UNCHANGED <<kernel, before>>
      BY DEF Collect, IInv, ScanOK, arrays
<1>2. p \in Pids /\ indexed_collection[p] = b /\ b \in Blocks /\ b # NULL
      BY <1>1, OwnedRecord
<1>3. Incarnations'
      BY <1>1 DEF BaselineOK, Incarnations, kernel
<1>4. \A q \in Pids : ~RowOf(q) /\ ~RowOf(q)'
      BY <1>1 DEF RowOf
<1>5. ASSUME NEW q \in Pids, before[q] # 0 PROVE Remembered(q)'
  <2>1. Remembered(q)
        BY <1>1, <1>4, <1>5 DEF BaselineOK
  <2>2. CASE p \in up
        BY <2>1, <2>2, <1>1 DEF Collect, Remembered, kernel
  <2>3. CASE p \notin up
    <3>1. /\ indexed_collection' = [indexed_collection EXCEPT ![p] = NULL]
          /\ rec' = [rec EXCEPT ![b] = Cleared]
          BY <2>3 DEF Collect
    <3>2. CASE q = p
      <4>1. indexed_collection'[q] = NULL /\ q \notin up'
            BY <3>1, <3>2, <2>3, <1>1 DEF kernel, IInv, TypeOK
      <4> QED BY <4>1 DEF Remembered
    <3>3. CASE q # p
      <4>1. indexed_collection'[q] = indexed_collection[q] /\ indexed_collection[q] # b
            BY <3>1, <3>3, <1>2 DEF IInv, TypeOK, OneRecordPerPid
      <4>2. indexed_collection[q] # NULL =>
              rec'[indexed_collection[q]] = rec[indexed_collection[q]]
            BY <3>1, <4>1 DEF IInv, TypeOK
      <4> QED BY <2>1, <4>1, <4>2, <1>1 DEF Remembered, kernel
    <3> QED BY <3>2, <3>3
  <2> QED BY <2>2, <2>3
<1> QED BY <1>1, <1>3, <1>5 DEF BaselineOK

\* What pid p's read leaves of another pid's sample.
LEMMA OthersRemembered ==
  ASSUME IInv, NEW p \in Pids, NEW b \in Blocks, RecordOf(p, b),
         \A c \in Blocks \ {b} : rec'[c] = rec[c],
         UNCHANGED <<kernel, before>>,
         NEW q \in Pids, q # p, Remembered(q)
  PROVE  Remembered(q)'
<1>1. indexed_collection'[q] = indexed_collection[q] /\ indexed_collection[q] # b
      BY OthersKeepRecord
<1>2. indexed_collection[q] # NULL =>
        rec'[indexed_collection[q]] = rec[indexed_collection[q]]
      BY <1>1 DEF IInv, TypeOK
<1> QED BY <1>1, <1>2 DEF Remembered, kernel

\* The row's baseline is what the record, if there was one, last sampled.
LEMMA ReadStatBaseline ==
  ASSUME IInv, BaselineOK, NEW p \in Pids, ReadStat(p)
  PROVE  BaselineOK'
<1>1. PICK b \in Blocks :
           /\ RecordOf(p, b) /\ indexed_collection'[p] = b
           /\ Len(records') = Len(records) + 1 /\ records'[Len(records) + 1] = b
           /\ \A k \in 1..Len(records) : records'[k] = records[k]
           /\ \A k \in 1..Len(records) : rec'[records[k]] = rec[records[k]]
           /\ \A c \in Blocks \ {b} : rec'[c] = rec[c]
           /\ rec'[b] = [pid |-> p, has_prev |-> TRUE, sampled |-> inc[p],
                         base |-> IF Found(p, b).has_prev THEN Found(p, b).sampled
                                  ELSE 0]
      BY ReadStatRow, Zenon
<1>2. /\ pc = "read" /\ pc' = "read" /\ p \in up /\ p \in unread
      /\ UNCHANGED <<kernel, before>>
      BY DEF ReadStat, Current
<1>3. Incarnations'
      BY <1>2 DEF BaselineOK, Incarnations, kernel
<1>4. ~RowOf(p)
  <2> SUFFICES ASSUME NEW k \in 1..Len(records), rec[records[k]].pid = p PROVE FALSE
      BY DEF RowOf
  <2>1. p < p
        BY <1>2 DEF IInv, ScanOK
  <2> QED BY <2>1, PidsAssumption
<1>5. rec'[b].pid = p /\ rec'[b].sampled = inc[p] /\ rec'[b].has_prev
      BY <1>1
<1>6. before[p] = inc[p] => rec'[b].base = inc[p]
  <2> SUFFICES ASSUME before[p] = inc[p] PROVE rec'[b].base = inc[p]
      OBVIOUS
  <2>1. inc[p] \in Nat /\ inc[p] > 0
        BY <1>2, BoundsAssumption DEF BaselineOK, Incarnations, IInv, TypeOK
  <2>2. Remembered(p)
        BY <1>2, <1>4, <2>1 DEF BaselineOK
  <2>3. /\ indexed_collection[p] # NULL
        /\ rec[indexed_collection[p]].has_prev
        /\ rec[indexed_collection[p]].sampled = before[p]
        BY <1>2, <2>1, <2>2 DEF Remembered
  <2>4. indexed_collection[p] = b
        BY <1>1, <2>3 DEF RecordOf
  <2>5. Found(p, b) = rec[b]
        BY <2>3 DEF Found
  <2> QED BY <1>1, <2>3, <2>4, <2>5
<1>7. OwnSample(rec[b])'
  <2>1. inc'[p] = inc[p] /\ before'[p] = before[p] /\ inc[p] > 0 /\ inc[p] \in Nat
        BY <1>2, BoundsAssumption DEF kernel, BaselineOK, Incarnations, IInv, TypeOK
  <2> QED BY <1>5, <1>6, <2>1 DEF OwnSample
<1>8. ASSUME NEW k \in 1..Len(records') PROVE OwnSample(rec[records[k]])'
  <2>1. CASE k \in 1..Len(records)
    <3>1. OwnSample(rec[records[k]])
          BY <2>1 DEF BaselineOK
    <3>2. rec'[records'[k]] = rec[records[k]]
          BY <2>1, <1>1
    <3> QED BY <3>1, <3>2, <1>2 DEF OwnSample, kernel
  <2>2. CASE k = Len(records) + 1
    <3>1. records'[k] = b
          BY <2>2, <1>1
    <3> QED BY <3>1, <1>7
  <2>3. Len(records) \in Nat
        BY DEF IInv, TypeOK
  <2> QED BY <2>1, <2>2, <2>3, <1>1
<1>9. ASSUME NEW q \in Pids, before'[q] # 0, ~RowOf(q)' PROVE Remembered(q)'
  <2>1. q # p /\ ~RowOf(q)
        BY <1>9, ReadStatRows
  <2>2. Remembered(q)
        BY <1>2, <1>9, <2>1 DEF BaselineOK
  <2> QED BY <1>1, <1>2, <2>1, <2>2, OthersRemembered
<1> QED BY <1>2, <1>3, <1>8, <1>9 DEF BaselineOK

\* A failed read may add a record without a sample, and loses none.
LEMMA ReadStatFailsBaseline ==
  ASSUME IInv, BaselineOK, NEW p \in Pids, ReadStatFails(p)
  PROVE  BaselineOK'
<1>1. PICK b \in Blocks :
           /\ RecordOf(p, b) /\ indexed_collection'[p] = b
           /\ \A k \in 1..Len(records) : rec'[records[k]] = rec[records[k]]
           /\ \A c \in Blocks \ {b} : rec'[c] = rec[c]
           /\ rec'[b] = [Found(p, b) EXCEPT !.pid = p]
      BY ReadStatFailsRow, Zenon
<1>2. pc = "read" /\ pc' = "read" /\ UNCHANGED <<kernel, arrays, before>>
      BY DEF ReadStatFails
<1>3. Incarnations'
      BY <1>2 DEF BaselineOK, Incarnations, kernel
<1>4. Found(p, b) \in Records
      BY BoundsAssumption DEF IInv, TypeOK, Found, Cleared, Records
<1>5. /\ rec'[b].has_prev = Found(p, b).has_prev
      /\ rec'[b].sampled = Found(p, b).sampled
      BY <1>1, <1>4 DEF Records
<1>6. ASSUME NEW k \in 1..Len(records') PROVE OwnSample(rec[records[k]])'
  <2>1. k \in 1..Len(records) /\ OwnSample(rec[records[k]])
        BY <1>2, <1>6 DEF BaselineOK, arrays
  <2>2. rec'[records'[k]] = rec[records[k]]
        BY <2>1, <1>1, <1>2 DEF arrays
  <2> QED BY <2>1, <2>2, <1>2 DEF OwnSample, kernel
<1>7. ASSUME NEW q \in Pids, before'[q] # 0, ~RowOf(q)' PROVE Remembered(q)'
  <2>1. Remembered(q)
        BY <1>2, <1>7, ReadStatFailsRows DEF BaselineOK
  <2>2. CASE q # p
        BY <1>1, <1>2, <2>1, <2>2, OthersRemembered
  <2>3. CASE q = p
    <3>1. CASE indexed_collection[p] # NULL
      <4>1. indexed_collection[p] = b /\ Found(p, b) = rec[b]
            BY <3>1, <1>1 DEF RecordOf, Found
      <4> QED BY <2>1, <2>3, <3>1, <4>1, <1>1, <1>2, <1>5 DEF Remembered, kernel
    <3>2. CASE indexed_collection[p] = NULL
      <4>1. ~rec'[b].has_prev
            BY <3>2, <1>5 DEF Found, Cleared
      <4> QED BY <2>1, <2>3, <3>2, <4>1, <1>1, <1>2 DEF Remembered, kernel
    <3> QED BY <3>1, <3>2
  <2> QED BY <2>2, <2>3
<1> QED BY <1>2, <1>3, <1>6, <1>7 DEF BaselineOK

\* The rows on screen become the last frame: their samples are remembered.
LEMMA ShownBaseline == IInv /\ BaselineOK /\ Shown => BaselineOK'
<1> SUFFICES ASSUME IInv, BaselineOK, Shown PROVE BaselineOK'
    OBVIOUS
<1>1. /\ pc = "shown" /\ pc' = "gc" /\ records = <<>> /\ records' = <<>>
      /\ UNCHANGED <<kernel, pool>>
      BY DEF Shown, pool, arrays, IInv, ScanOK
<1>2. ASSUME NEW p \in Pids
      PROVE  \/ before'[p] = 0
             \/ \E k \in 1..Len(sorted) :
                  /\ indexed_collection[p] = sorted[k] /\ sorted[k] # NULL
                  /\ rec[sorted[k]].pid = p
                  /\ OwnSample(rec[sorted[k]])
                  /\ before'[p] = rec[sorted[k]].sampled
  <2>1. CASE \E k \in 1..Len(sorted) : rec[sorted[k]].pid = p
    <3>1. PICK k \in 1..Len(sorted) : rec[sorted[k]].pid = p
          BY <2>1
    <3>2. sorted[k] \in heap /\ OwnSample(rec[sorted[k]])
          BY <1>1 DEF IInv, FrameOK, BaselineOK
    <3>3. indexed_collection[p] = sorted[k] /\ sorted[k] # NULL
          BY <3>1, <3>2, OwnedRecord
    <3>4. before'[p] = rec[indexed_collection[p]].sampled
          BY <2>1 DEF Shown
    <3> QED BY <3>1, <3>2, <3>3, <3>4
  <2>2. CASE ~\E k \in 1..Len(sorted) : rec[sorted[k]].pid = p
        BY <2>2 DEF Shown
  <2> QED BY <2>1, <2>2
<1>3. Incarnations'
  <2> SUFFICES ASSUME NEW p \in Pids
               PROVE  before'[p] <= inc'[p] /\ (p \in up' => inc'[p] > 0)
      BY DEF Incarnations
  <2>1. inc'[p] = inc[p] /\ up' = up /\ inc[p] \in Nat
        BY <1>1, BoundsAssumption DEF kernel, IInv, TypeOK
  <2>2. p \in up => inc[p] > 0
        BY DEF BaselineOK, Incarnations
  <2>3. before'[p] <= inc[p]
        BY <1>2, <2>1 DEF OwnSample
  <2> QED BY <2>1, <2>2, <2>3
<1>4. ASSUME NEW p \in Pids, before'[p] # 0 PROVE Remembered(p)'
  <2>1. /\ indexed_collection[p] # NULL
        /\ rec[indexed_collection[p]].has_prev
        /\ rec[indexed_collection[p]].sampled = before'[p]
        BY <1>2, <1>4 DEF OwnSample
  <2> QED BY <2>1, <1>1 DEF Remembered, pool
<1> QED BY <1>1, <1>3, <1>4 DEF BaselineOK

LEMMA ProcessBaseline ==
  ASSUME IInv, BaselineOK, NEW p \in Pids, Fork(p) \/ Exit(p)
  PROVE  BaselineOK'
<1>1. UNCHANGED <<pc, records, rec, sorted, indexed_collection, before>>
      BY DEF Fork, Exit, pool, scan, arrays
<1>2. \A q \in Pids : inc[q] \in Nat /\ inc'[q] \in Nat /\ inc'[q] >= inc[q]
  <2>1. CASE Fork(p)
        BY <2>1, BoundsAssumption DEF Fork, IInv, TypeOK
  <2>2. CASE Exit(p)
        BY <2>2, BoundsAssumption DEF Exit, IInv, TypeOK
  <2> QED BY <2>1, <2>2
<1>3. \A q \in Pids : q \in up' => q \in up \/ inc'[q] > inc[q]
  <2>1. CASE Fork(p)
        BY <2>1, BoundsAssumption DEF Fork, IInv, TypeOK
  <2>2. CASE Exit(p)
        BY <2>2 DEF Exit
  <2> QED BY <2>1, <2>2
<1>4. \A q \in Pids : before[q] \in Nat
      BY BoundsAssumption DEF IInv, TypeOK
<1>5. Incarnations'
      BY <1>1, <1>2, <1>3, <1>4 DEF BaselineOK, Incarnations
<1>6. ASSUME NEW r \in Records, r.pid \in Pids, OwnSample(r) PROVE OwnSample(r)'
      BY <1>1, <1>2, <1>6, BoundsAssumption DEF OwnSample, Records
<1>7. ASSUME NEW k \in 1..Len(records) PROVE OwnSample(rec[records[k]])'
  <2>1. records[k] \in heap /\ OwnSample(rec[records[k]])
        BY DEF IInv, ScanOK, BaselineOK
  <2>2. rec[records[k]] \in Records /\ rec[records[k]].pid \in Pids
        BY <2>1, OwnedRecord DEF IInv, TypeOK
  <2> QED BY <1>1, <1>6, <2>1, <2>2
<1>8. ASSUME pc = "shown", NEW k \in 1..Len(sorted) PROVE OwnSample(rec[sorted[k]])'
  <2>1. sorted[k] \in heap /\ OwnSample(rec[sorted[k]])
        BY <1>8 DEF IInv, FrameOK, BaselineOK
  <2>2. rec[sorted[k]] \in Records /\ rec[sorted[k]].pid \in Pids
        BY <2>1, OwnedRecord DEF IInv, TypeOK
  <2> QED BY <1>1, <1>6, <2>1, <2>2
<1>9. ASSUME pc # "shown", NEW q \in Pids, before[q] # 0, ~RowOf(q)'
      PROVE  Remembered(q)'
  <2>1. ~RowOf(q)
        BY <1>1, <1>9 DEF RowOf
  <2>2. Remembered(q) /\ before[q] <= inc[q]
        BY <1>9, <2>1 DEF BaselineOK, Incarnations
  <2> QED BY <1>1, <1>2, <1>3, <1>4, <2>2 DEF Remembered
<1> QED BY <1>1, <1>5, <1>7, <1>8, <1>9 DEF BaselineOK

LEMMA BaselineInvariant == Spec => []BaselineOK
<1>1. IInv /\ BaselineOK /\ [Next]_vars => BaselineOK'
  <2> SUFFICES ASSUME IInv, BaselineOK, [Next]_vars PROVE BaselineOK'
      OBVIOUS
  <2>1. CASE GCDone \/ OpenFails \/ Open \/ List \/ ReadDone
    <3>1. /\ UNCHANGED <<kernel, before, records, rec, indexed_collection>>
          /\ pc # "shown" /\ pc' # "shown"
          BY <2>1 DEF GCDone, OpenFails, Open, List, ReadDone, pool, arrays
    <3> QED BY <3>1 DEF BaselineOK, Incarnations, OwnSample, RowOf, Remembered, kernel
  <2>2. CASE Build
    <3>1. /\ pc' = "shown" /\ sorted' = records /\ records' = <<>>
          /\ UNCHANGED <<kernel, before, rec>>
          BY <2>2 DEF Build
    <3> QED BY <3>1 DEF BaselineOK, Incarnations, OwnSample, kernel
  <2>3. CASE UNCHANGED vars
        BY <2>3 DEF vars, kernel, pool, arrays, scan, BaselineOK, Incarnations,
           OwnSample, RowOf, Remembered
  <2> QED BY <2>1, <2>2, <2>3, CollectBaseline, ReadStatBaseline,
             ReadStatFailsBaseline, ShownBaseline, ProcessBaseline
          DEF Next, Produce
<1> QED BY <1>1, InitBaseline, Invariance, PTL DEF Spec

\* "PID-stable": whatever pids are used again, whichever reads fail and frames
\* are lost, the CPU usage of a process shown in two frames running is computed
\* from its own two samples.  A process whose pid another one had until then,
\* between two GC passes, was not in the frame before: it is not spoken of, and
\* is measured against the other one's sample.
THEOREM BaselineIsOwn == Spec => []OwnBaseline
<1>1. BaselineOK => OwnBaseline
      BY DEF BaselineOK, OwnSample, OwnBaseline
<1> QED BY <1>1, BaselineInvariant, PTL
=============================================================================
