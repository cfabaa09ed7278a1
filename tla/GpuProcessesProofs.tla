-------------------------- MODULE GpuProcessesProofs -------------------------
(* Proofs about the cache of process information, for any devices, pids,    *)
(* heap and number of incarnations.                                         *)
EXTENDS GpuProcesses, TLAPS

Busy == pc \in {"device", "row", "command", "measure"}

\* Where the refresh is: the device it is at has been taken from todo.
PlaceOK ==
  /\ Busy \/ (todo = {} /\ updated = {})
  /\ pc \in {"row", "command", "measure"} <=> at # NULL
  /\ at # NULL => at \in refreshed /\ at \notin todo
  /\ todo \subseteq refreshed
  /\ pc \in {"command", "measure"} <=> row # NULL
  /\ row # NULL => row \in met
  /\ pc = "command" => row \in unread

\* The pids that have an entry are those the last refresh met, and those that
\* this one has met are in the new table.
TablesOK ==
  /\ \A e \in cached : entry[e].pid \in (IF Busy THEN metBefore \ met ELSE met)
  /\ \A e \in updated : entry[e].pid \in met
  /\ pc # "exit" => \A p \in met : \E e \in heap : entry[e].pid = p
  /\ Busy => \A p \in metBefore : \E e \in heap : entry[e].pid = p

\* The table that is not about to be freed.
Kept == IF Busy THEN updated ELSE cached

\* The row of p on d points to what an entry of p has.
PointsTo(d, p, e) ==
  /\ entry[e].pid = p
  /\ cmdline[d][p] = IF entry[e].command # 0 THEN e ELSE NULL
  /\ user_name[d][p] = IF entry[e].user # 0 THEN e ELSE NULL

\* A populated row points into that table; a pid whose command line has still to
\* be read has none.
RowsOK ==
  \A d \in refreshed : \A p \in Populated(d) :
    /\ p \in met /\ ~(pc = "command" /\ p = row)
    /\ \E e \in Kept : PointsTo(d, p, e)

\* An entry's names are those of the processes first met.
NamesOK ==
  \A e \in heap : /\ entry[e].user \in {0, firstUser[entry[e].pid]}
                  /\ entry[e].command \in {0, firstCommand[entry[e].pid]}

\* A sample of the last refresh is replaced before this one is over.
SamplesOK ==
  /\ \A e \in heap : entry[e].sample # "older"
  /\ \A e \in updated : entry[e].sample = "last" => entry[e].pid = row
  /\ \A e \in cached : entry[e].sample # "now"

IInv == /\ TypeOK /\ OneEntryPerPid /\ PlaceOK /\ TablesOK
        /\ RowsOK /\ NamesOK /\ SamplesOK

USE NullAssumption, IncarnationAssumption

LEMMA BlankContents == Blank \in Contents
BY DEF Blank, Contents, Incarnations, Ages

LEMMA InitIInv == Init => IInv
<1> SUFFICES ASSUME Init PROVE IInv
    OBVIOUS
<1>1. TypeOK
  <2>1. inc \in [Pids -> Incarnations] /\ firstUser \in [Pids -> Incarnations]
        /\ firstCommand \in [Pids -> Incarnations]
        BY DEF Init, Incarnations
  <2>2. entry \in [Entries -> Contents]
        BY BlankContents DEF Init
  <2>3. QED BY <2>1, <2>2 DEF Init, TypeOK, Places
<1>2. OneEntryPerPid /\ PlaceOK /\ TablesOK /\ NamesOK /\ SamplesOK
      BY DEF Init, OneEntryPerPid, PlaceOK, TablesOK, NamesOK, SamplesOK, Busy
<1>3. RowsOK
      BY DEF Init, RowsOK
<1>4. QED BY <1>1, <1>2, <1>3 DEF IInv

\* What a process or the user does leaves the cache and the rows alone.
LEMMA WorldIInv ==
  IInv /\ (ChangeMonitored \/ (\E p \in Pids : Fork(p) \/ Exit(p)) \/ UNCHANGED vars)
    => IInv'
<1> SUFFICES ASSUME IInv,
                    ChangeMonitored \/ (\E p \in Pids : Fork(p) \/ Exit(p))
                      \/ UNCHANGED vars
             PROVE  IInv'
    OBVIOUS
<1>1. UNCHANGED <<rows, cache, place, history>>
      BY DEF ChangeMonitored, Fork, Exit, vars
<1>2. OneEntryPerPid' /\ PlaceOK' /\ TablesOK' /\ NamesOK' /\ SamplesOK'
      BY <1>1 DEF IInv, OneEntryPerPid, PlaceOK, TablesOK, NamesOK, SamplesOK, Busy,
                  rows, cache, place, history
<1>3. RowsOK'
      BY <1>1 DEF IInv, RowsOK, PointsTo, Populated, Kept, Busy, rows, cache, place, history
<1>4. up' \subseteq Pids /\ monitored' \subseteq Devices /\ inc' \in [Pids -> Incarnations]
  <2>1. CASE ChangeMonitored
        BY <2>1 DEF ChangeMonitored, IInv, TypeOK, kernel
  <2>2. ASSUME NEW p \in Pids, Fork(p) PROVE up' \subseteq Pids /\ monitored' \subseteq Devices /\ inc' \in [Pids -> Incarnations]
    <3>1. inc[p] + 1 \in Incarnations
          BY <2>2 DEF Fork, IInv, TypeOK, Incarnations
    <3>2. QED BY <2>2, <3>1 DEF Fork, IInv, TypeOK
  <2>3. ASSUME NEW p \in Pids, Exit(p) PROVE up' \subseteq Pids /\ monitored' \subseteq Devices /\ inc' \in [Pids -> Incarnations]
        BY <2>3 DEF Exit, IInv, TypeOK
  <2>4. CASE UNCHANGED vars
        BY <2>4 DEF vars, kernel, IInv, TypeOK
  <2>5. QED BY <2>1, <2>2, <2>3, <2>4
<1>5. TypeOK'
      BY <1>1, <1>4 DEF IInv, TypeOK, rows, cache, place, history
<1>6. QED BY <1>2, <1>3, <1>5 DEF IInv

LEMMA BeginRefreshIInv == IInv /\ BeginRefresh => IInv'
<1> SUFFICES ASSUME IInv, BeginRefresh PROVE IInv'
    OBVIOUS
<1> USE DEF BeginRefresh
<1>1. UNCHANGED <<cached, updated, entry, heap>> /\ updated = {} /\ at = NULL /\ row = NULL
      BY DEF IInv, PlaceOK, Busy, cache
<1>2. TypeOK'
  <2>1. firstUser' \in [Pids -> Incarnations] /\ firstCommand' \in [Pids -> Incarnations]
        BY DEF IInv, TypeOK, Incarnations
  <2>2. QED BY <1>1, <2>1 DEF IInv, TypeOK, Places, kernel
<1>3. OneEntryPerPid'
      BY <1>1 DEF IInv, OneEntryPerPid
<1>4. PlaceOK'
      BY <1>1 DEF PlaceOK, Busy
<1>5. TablesOK'
      BY <1>1 DEF IInv, TablesOK, OneEntryPerPid, Busy
<1>6. RowsOK'
      BY DEF RowsOK, Populated
<1>7. NamesOK'
  <2>1. ASSUME NEW e \in heap
        PROVE  entry[e].pid \in met /\ entry[e].pid \in Pids
        BY <1>1 DEF IInv, TypeOK, TablesOK, OneEntryPerPid, Busy
  <2>2. QED BY <1>1, <2>1 DEF IInv, NamesOK
<1>8. SamplesOK'
      BY <1>1 DEF IInv, SamplesOK
<1>9. QED BY <1>2, <1>3, <1>4, <1>5, <1>6, <1>7, <1>8 DEF IInv

\* The rows of the device are new; those of the others stay as they are.
LEMMA RefreshRunningIInv ==
  ASSUME IInv, NEW d \in Devices, RefreshRunningProcesses(d)
  PROVE  IInv'
<1>1. PICK found \in SUBSET up :
        /\ processes' = [processes EXCEPT ![d] = found]
        /\ unread' = found
      BY DEF RefreshRunningProcesses
<1>2. /\ pc = "device" /\ pc' = "row" /\ d \in todo /\ todo' = todo \ {d} /\ at' = d
      /\ cmdline' = [cmdline EXCEPT ![d] = [p \in Pids |-> NULL]]
      /\ user_name' = [user_name EXCEPT ![d] = [p \in Pids |-> NULL]]
      /\ UNCHANGED <<up, inc, monitored, cached, updated, entry, heap, row,
                     refreshed, metBefore, met, firstUser, firstCommand>>
      BY DEF RefreshRunningProcesses, kernel, cache, history
<1>3. at = NULL /\ d # NULL /\ row = NULL /\ todo \subseteq refreshed
      BY <1>2 DEF IInv, PlaceOK
<1>4. TypeOK'
  <2>1. found \subseteq Pids
        BY DEF IInv, TypeOK
  <2>2. processes' \in [Devices -> SUBSET Pids] /\ processes'[d] = found
        BY <1>1, <2>1 DEF IInv, TypeOK
  <2>3. /\ cmdline' \in [Devices -> [Pids -> Entries \cup {NULL}]]
        /\ user_name' \in [Devices -> [Pids -> Entries \cup {NULL}]]
        BY <1>2 DEF IInv, TypeOK
  <2>4. QED BY <1>1, <1>2, <2>2, <2>3 DEF IInv, TypeOK, Places
<1>5. OneEntryPerPid' /\ NamesOK' /\ SamplesOK'
      BY <1>2 DEF IInv, OneEntryPerPid, NamesOK, SamplesOK
<1>6. PlaceOK' /\ TablesOK'
      BY <1>2, <1>3 DEF IInv, PlaceOK, TablesOK, Busy
<1>7. RowsOK'
  <2> SUFFICES ASSUME NEW c \in refreshed, NEW p \in Populated(c)'
               PROVE  p \in met /\ \E e \in Kept' : PointsTo(c, p, e)'
      BY <1>2 DEF RowsOK
  <2>1. Populated(d)' = {}
        BY <1>1, <1>2 DEF IInv, TypeOK, Populated
  <2>2. c # d /\ c \notin todo
        BY <2>1, <1>2 DEF Populated
  <2>3. c \in Devices
        BY DEF IInv, TypeOK
  <2>4. cmdline'[c] = cmdline[c] /\ user_name'[c] = user_name[c] /\ processes'[c] = processes[c]
        BY <1>1, <1>2, <2>2, <2>3 DEF IInv, TypeOK
  <2>5. p \in Populated(c)
        BY <1>2, <1>3, <2>2, <2>3, <2>4 DEF Populated, IInv, TypeOK
  <2>6. Kept' = Kept
        BY <1>2 DEF Kept, Busy
  <2>7. QED BY <1>2, <2>4, <2>5, <2>6 DEF IInv, RowsOK, PointsTo
<1>8. QED BY <1>4, <1>5, <1>6, <1>7 DEF IInv

LEMMA DeviceDoneIInv == IInv /\ DeviceDone => IInv'
<1> SUFFICES ASSUME IInv, DeviceDone PROVE IInv'
    OBVIOUS
<1>1. /\ pc = "row" /\ pc' = "device" /\ at' = NULL /\ unread = {}
      /\ UNCHANGED <<up, inc, monitored, processes, cmdline, user_name, cached, updated, entry,
                     heap, todo, unread, row, refreshed, metBefore, met, firstUser, firstCommand>>
      BY DEF DeviceDone, kernel, rows, cache, history
<1>2. TypeOK'
      BY <1>1 DEF IInv, TypeOK, Places
<1>3. OneEntryPerPid' /\ PlaceOK' /\ TablesOK' /\ NamesOK' /\ SamplesOK'
      BY <1>1 DEF IInv, OneEntryPerPid, PlaceOK, TablesOK, NamesOK, SamplesOK, Busy
<1>4. RowsOK'
      BY <1>1 DEF IInv, RowsOK, PointsTo, Populated, Kept, Busy
<1>5. QED BY <1>2, <1>3, <1>4 DEF IInv

LEMMA ClearCacheIInv == IInv /\ ClearCache => IInv'
<1> SUFFICES ASSUME IInv, ClearCache PROVE IInv'
    OBVIOUS
<1>1. /\ pc = "idle" /\ pc' = "exit" /\ heap' = heap \ cached /\ cached' = {}
      /\ entry' = [e \in Entries |-> IF e \in cached THEN Blank ELSE entry[e]]
      /\ UNCHANGED <<up, inc, monitored, processes, cmdline, user_name, updated, todo, at,
                     unread, row, refreshed, metBefore, met, firstUser, firstCommand>>
      BY DEF ClearCache, kernel, rows, history
<1>2. /\ cached = heap /\ updated = {} /\ heap' = {}
      /\ todo = {} /\ at = NULL /\ unread = {} /\ row = NULL
      BY <1>1 DEF IInv, PlaceOK, Busy, OneEntryPerPid, TypeOK
<1>3. TypeOK'
  <2>1. entry' \in [Entries -> Contents]
        BY <1>1, BlankContents DEF IInv, TypeOK
  <2>2. QED BY <1>1, <1>2, <2>1 DEF IInv, TypeOK, Places
<1>4. OneEntryPerPid' /\ PlaceOK' /\ TablesOK' /\ NamesOK' /\ SamplesOK'
      BY <1>1, <1>2 DEF OneEntryPerPid, PlaceOK, TablesOK, NamesOK, SamplesOK, Busy
<1>5. RowsOK'
      BY <1>1 DEF RowsOK, Populated
<1>6. QED BY <1>3, <1>4, <1>5 DEF IInv

\* The old table is freed, and every row points into the new one.
LEMMA CleanOldCacheIInv == IInv /\ CleanOldCache => IInv'
<1> SUFFICES ASSUME IInv, CleanOldCache PROVE IInv'
    OBVIOUS
<1>1. /\ pc = "device" /\ todo = {} /\ pc' = "idle"
      /\ heap' = heap \ cached /\ cached' = updated /\ updated' = {}
      /\ entry' = [e \in Entries |-> IF e \in cached THEN Blank
                                    ELSE [entry[e] EXCEPT !.sample = Older(@)]]
      /\ UNCHANGED <<up, inc, monitored, processes, cmdline, user_name, todo, at, unread, row,
                     refreshed, metBefore, met, firstUser, firstCommand>>
      BY DEF CleanOldCache, kernel, rows, history
<1>2. at = NULL /\ row = NULL /\ heap' = updated /\ updated \subseteq Entries
      BY <1>1 DEF IInv, PlaceOK, OneEntryPerPid, TypeOK
<1>3. ASSUME NEW e \in updated
      PROVE  /\ e \notin cached /\ entry[e] \in Contents
             /\ entry'[e].pid = entry[e].pid
             /\ entry'[e].user = entry[e].user /\ entry'[e].command = entry[e].command
             /\ entry'[e].sample \in {"none", "last"}
  <2>1. e \notin cached /\ entry[e] \in Contents /\ e \in heap
        BY <1>2 DEF IInv, OneEntryPerPid, TypeOK
  <2>2. entry'[e] = [entry[e] EXCEPT !.sample = Older(@)]
        BY <1>1, <1>2, <2>1
  <2>3. entry[e].pid \in Pids
        BY DEF IInv, TablesOK, TypeOK
  <2>4. entry[e].sample \in {"none", "now"}
        BY <1>2, <2>1, <2>3 DEF IInv, SamplesOK, Contents, Ages
  <2>5. Older(entry[e].sample) \in {"none", "last"}
        BY <2>4 DEF Older
  <2>6. QED BY <2>1, <2>2, <2>5 DEF Contents
<1>4. TypeOK'
  <2>1. ASSUME NEW e \in Entries PROVE entry'[e] \in Contents
    <3>1. CASE e \in cached
          BY <1>1, <3>1, BlankContents
    <3>2. CASE e \notin cached
      <4>1. entry[e] \in Contents /\ entry'[e] = [entry[e] EXCEPT !.sample = Older(@)]
            BY <1>1, <3>2 DEF IInv, TypeOK
      <4>2. Older(entry[e].sample) \in Ages
            BY <4>1 DEF Older, Contents, Ages
      <4>3. QED BY <4>1, <4>2 DEF Contents
    <3>3. QED BY <3>1, <3>2
  <2>2. entry' \in [Entries -> Contents]
        BY <1>1, <2>1
  <2>3. QED BY <1>1, <1>2, <2>2 DEF IInv, TypeOK, Places
<1>5. OneEntryPerPid'
      BY <1>1, <1>2, <1>3 DEF IInv, OneEntryPerPid
<1>6. PlaceOK'
      BY <1>1 DEF IInv, PlaceOK, Busy
<1>7. TablesOK'
  <2>1. ASSUME NEW p \in met PROVE \E e \in updated : entry'[e].pid = p
    <3>1. PICK e \in heap : entry[e].pid = p
          BY <1>1 DEF IInv, TablesOK
    <3>2. e \notin cached
          BY <1>1, <3>1 DEF IInv, TablesOK, Busy
    <3>3. QED BY <1>3, <3>1, <3>2 DEF IInv, OneEntryPerPid
  <2>2. QED BY <1>1, <1>2, <1>3, <2>1 DEF IInv, TablesOK, Busy
<1>8. RowsOK'
  <2> SUFFICES ASSUME NEW d \in refreshed, NEW p \in Populated(d)'
               PROVE  p \in met /\ \E e \in updated : PointsTo(d, p, e)'
      BY <1>1 DEF RowsOK, Kept, Busy
  <2>1. p \in Populated(d)
        BY <1>1 DEF Populated
  <2>2. p \in met /\ \E e \in updated : PointsTo(d, p, e)
        BY <1>1, <2>1 DEF IInv, RowsOK, Kept, Busy
  <2>3. PICK e \in updated : PointsTo(d, p, e)
        BY <2>2
  <2>4. PointsTo(d, p, e)'
        BY <1>1, <1>3, <2>3 DEF PointsTo
  <2>5. QED BY <2>2, <2>4
<1>9. NamesOK' /\ SamplesOK'
      BY <1>1, <1>2, <1>3 DEF IInv, NamesOK, SamplesOK, OneEntryPerPid
<1>10. QED BY <1>4, <1>5, <1>6, <1>7, <1>8, <1>9 DEF IInv

LEMMA MeasureIInv == IInv /\ Measure => IInv'
<1> SUFFICES ASSUME IInv, Measure PROVE IInv'
    OBVIOUS
<1>1. PICK e \in Find(heap, row), age \in {"none", "now"} : entry' = [entry EXCEPT ![e].sample = age]
      BY DEF Measure
<1>2. /\ pc = "measure" /\ pc' = "row" /\ row' = NULL
      /\ UNCHANGED <<up, inc, monitored, processes, cmdline, user_name, cached, updated, heap,
                     todo, at, unread, refreshed, metBefore, met, firstUser, firstCommand>>
      BY DEF Measure, kernel, rows, history
<1>3. e \in heap /\ e \in Entries /\ entry[e].pid = row /\ entry[e] \in Contents
      BY DEF Find, IInv, TypeOK
<1>4. entry' = [entry EXCEPT ![e] = [entry[e] EXCEPT !.sample = age]]
      BY <1>1
<1>5. age \in {"none", "now"} /\ age \in Ages
      BY DEF Ages
<1>6. entry' \in [Entries -> Contents]
  <2>1. [entry[e] EXCEPT !.sample = age] \in Contents
        BY <1>3, <1>5 DEF Contents
  <2>2. QED BY <2>1, <1>4 DEF IInv, TypeOK
<1>7. ASSUME NEW f \in Entries
      PROVE  /\ entry'[f].pid = entry[f].pid
             /\ entry'[f].user = entry[f].user /\ entry'[f].command = entry[f].command
             /\ entry'[f].sample = IF f = e THEN age ELSE entry[f].sample
  <2>1. CASE f = e
    <3>1. entry'[f] = [entry[e] EXCEPT !.sample = age]
          BY <1>3, <1>4, <2>1 DEF IInv, TypeOK
    <3>2. QED BY <3>1, <1>3, <2>1 DEF Contents
  <2>2. CASE f # e
        BY <1>4, <2>2 DEF IInv, TypeOK
  <2>3. QED BY <2>1, <2>2
<1>8. cached \subseteq Entries /\ updated \subseteq Entries /\ heap \subseteq Entries
      BY DEF IInv, TypeOK
<1>9. row \in Pids /\ row \in met
  <2>1. row \in Pids
        BY <1>2 DEF IInv, PlaceOK, TypeOK
  <2>2. QED BY <2>1, <1>2 DEF IInv, PlaceOK
<1>10. e \notin cached
      BY <1>2, <1>3, <1>9 DEF IInv, TablesOK, Busy
<1>11. TypeOK'
      BY <1>2, <1>6 DEF IInv, TypeOK, Places
<1>12. OneEntryPerPid' /\ NamesOK'
      BY <1>2, <1>7, <1>8 DEF IInv, OneEntryPerPid, NamesOK
<1>13. PlaceOK'
      BY <1>2 DEF IInv, PlaceOK, Busy
<1>14. TablesOK'
      BY <1>2, <1>7, <1>8 DEF IInv, TablesOK, Busy
<1>15. RowsOK'
      BY <1>2, <1>7, <1>8 DEF IInv, RowsOK, PointsTo, Populated, Kept, Busy
<1>16. SamplesOK'
  <2>1. \A f \in heap : entry'[f].sample # "older"
        BY <1>5, <1>7, <1>8 DEF IInv, SamplesOK
  <2>2. \A f \in cached : entry'[f].sample # "now"
        BY <1>7, <1>8, <1>10 DEF IInv, SamplesOK
  <2>3. \A f \in updated : entry'[f].sample # "last"
    <3> SUFFICES ASSUME NEW f \in updated, entry'[f].sample = "last" PROVE FALSE
        OBVIOUS
    <3>1. f # e /\ entry[f].sample = "last"
          BY <1>5, <1>7, <1>8
    <3>2. entry[f].pid = row /\ f \in heap
          BY <3>1 DEF IInv, SamplesOK, OneEntryPerPid
    <3>3. QED BY <3>1, <3>2, <1>3 DEF IInv, OneEntryPerPid
  <2>4. QED BY <1>2, <2>1, <2>2, <2>3 DEF SamplesOK
<1>17. QED BY <1>11, <1>12, <1>13, <1>14, <1>15, <1>16 DEF IInv

\* A pid that is met for the first time in an unbroken series has its history
\* written; that of the others stays.
LEMMA MetFirst ==
  ASSUME IInv, NEW p \in Pids, Meet(p)
  PROVE  /\ firstUser' \in [Pids -> Incarnations] /\ firstCommand' \in [Pids -> Incarnations]
         /\ \A q \in Pids : q # p => firstUser'[q] = firstUser[q] /\ firstCommand'[q] = firstCommand[q]
         /\ p \in metBefore \cup met => UNCHANGED <<firstUser, firstCommand>>
         /\ p \notin metBefore \cup met => firstUser'[p] = Living(p)
<1>1. Living(p) \in Incarnations
      BY DEF Living, IInv, TypeOK, Incarnations
<1>2. /\ firstUser \in [Pids -> Incarnations] /\ firstCommand \in [Pids -> Incarnations]
      /\ IF p \in metBefore \cup met THEN UNCHANGED <<firstUser, firstCommand>>
         ELSE /\ firstUser' = [firstUser EXCEPT ![p] = Living(p)]
              /\ firstCommand' = [firstCommand EXCEPT ![p] = Living(p)]
      BY DEF Meet, IInv, TypeOK
<1>3. CASE p \in metBefore \cup met
      BY <1>2, <1>3
<1>4. CASE p \notin metBefore \cup met
      BY <1>1, <1>2, <1>4
<1>5. QED BY <1>3, <1>4

\* While the refresh is at a row, the entries are those of the pids that this one
\* or the last one has met.
LEMMA EntriesOfMet ==
  ASSUME IInv, Busy
  PROVE  /\ \A q \in met \cup metBefore : \E f \in heap : entry[f].pid = q
         /\ \A f \in heap : entry[f].pid \in met \cup metBefore
         /\ heap = cached \cup updated /\ cached \subseteq Entries /\ updated \subseteq Entries
<1>1. heap = cached \cup updated /\ cached \subseteq Entries /\ updated \subseteq Entries
      BY DEF IInv, TypeOK, OneEntryPerPid
<1>2. \A q \in met \cup metBefore : \E f \in heap : entry[f].pid = q
      BY DEF IInv, TablesOK, Busy
<1>3. QED BY <1>1, <1>2 DEF IInv, TablesOK

LEMMA MeetNewIInv ==
  ASSUME IInv, NEW p \in Pids, MeetNew(p)
  PROVE  IInv'
<1>1. PICK e \in Entries : NewEntry(p, e)
      BY DEF MeetNew
<1>2. PICK u \in Reads(p) :
        entry' = [entry EXCEPT ![e] = [pid |-> p, user |-> u, command |-> 0, sample |-> "none"]]
      BY <1>1 DEF NewEntry
<1>3. /\ pc = "row" /\ pc' = "command" /\ p \in unread /\ row' = p /\ met' = met \cup {p}
      /\ UNCHANGED <<up, inc, monitored, processes, cmdline, user_name, todo, at, unread,
                     refreshed, metBefore, cached>>
      /\ e \notin heap /\ heap' = heap \cup {e} /\ updated' = updated \cup {e}
      BY <1>1 DEF MeetNew, Meet, NewEntry, kernel
<1>4. /\ \A q \in met \cup metBefore : \E f \in heap : entry[f].pid = q
      /\ \A f \in heap : entry[f].pid \in met \cup metBefore
      /\ heap = cached \cup updated /\ cached \subseteq Entries /\ updated \subseteq Entries
      BY <1>3, EntriesOfMet DEF Busy
<1>5. (\A f \in heap : entry[f].pid # p) /\ p \notin met \cup metBefore
      BY <1>1, <1>4 DEF NewEntry, Find
<1>6. /\ firstUser' \in [Pids -> Incarnations] /\ firstCommand' \in [Pids -> Incarnations]
      /\ \A q \in Pids : q # p => firstUser'[q] = firstUser[q] /\ firstCommand'[q] = firstCommand[q]
      /\ firstUser'[p] = Living(p)
      BY <1>5, MetFirst DEF MeetNew
<1>7. u \in Incarnations /\ u \in {0, Living(p)}
      BY DEF Reads, Living, IInv, TypeOK, Incarnations
<1>8. [pid |-> p, user |-> u, command |-> 0, sample |-> "none"] \in Contents
      BY <1>7 DEF Contents, Ages, Incarnations
<1>9. /\ entry' \in [Entries -> Contents]
      /\ entry'[e] = [pid |-> p, user |-> u, command |-> 0, sample |-> "none"]
      /\ \A f \in heap : f \in Entries /\ f # e /\ entry'[f] = entry[f]
      BY <1>2, <1>3, <1>4, <1>8 DEF IInv, TypeOK
<1>10. at # NULL /\ p # NULL /\ row = NULL
      BY <1>3 DEF IInv, PlaceOK
<1>11. TypeOK'
  <2>1. updated' \subseteq Entries /\ heap' \subseteq Entries
        BY <1>3, <1>4
  <2>2. QED BY <1>3, <1>6, <1>9, <2>1 DEF IInv, TypeOK, Places
<1>12. OneEntryPerPid'
  <2>1. cached' \cup updated' = heap' /\ cached' \cap updated' = {}
        BY <1>3 DEF IInv, OneEntryPerPid
  <2>2. \A f, g \in heap' : entry'[f].pid = entry'[g].pid => f = g
        BY <1>3, <1>5, <1>9 DEF IInv, OneEntryPerPid
  <2>3. QED BY <1>3, <2>1, <2>2 DEF OneEntryPerPid
<1>13. PlaceOK'
      BY <1>3, <1>10 DEF IInv, PlaceOK, Busy
<1>14. TablesOK'
  <2>1. \A f \in cached' : entry'[f].pid \in metBefore \ met'
        BY <1>3, <1>4, <1>5, <1>9 DEF IInv, TablesOK, Busy
  <2>2. \A f \in updated' : entry'[f].pid \in met'
        BY <1>3, <1>4, <1>9 DEF IInv, TablesOK
  <2>3. \A q \in met' \cup metBefore : \E f \in heap' : entry'[f].pid = q
        BY <1>3, <1>4, <1>9
  <2>4. QED BY <1>3, <2>1, <2>2, <2>3 DEF TablesOK, Busy
<1>15. RowsOK'
  <2> SUFFICES ASSUME NEW c \in refreshed, NEW q \in Populated(c)'
               PROVE  q \in met' /\ q # p /\ \E f \in updated' : PointsTo(c, q, f)'
      BY <1>3 DEF RowsOK, Kept, Busy
  <2>1. q \in Populated(c)
        BY <1>3 DEF Populated
  <2>2. q \in met /\ \E f \in updated : PointsTo(c, q, f)
        BY <1>3, <2>1 DEF IInv, RowsOK, Kept, Busy
  <2>3. PICK f \in updated : PointsTo(c, q, f)
        BY <2>2
  <2>4. PointsTo(c, q, f)'
        BY <1>3, <1>4, <1>9, <2>3 DEF PointsTo
  <2>5. QED BY <1>3, <1>5, <2>2, <2>4
<1>16. NamesOK'
  <2>1. ASSUME NEW f \in heap
        PROVE  entry[f].pid \in Pids /\ entry[f].pid # p
        BY <1>4, <1>5 DEF IInv, TypeOK
  <2>2. QED BY <1>3, <1>6, <1>7, <1>9, <2>1 DEF IInv, NamesOK
<1>17. SamplesOK'
  <2>1. \A f \in heap' : entry'[f].sample # "older"
        BY <1>3, <1>9 DEF IInv, SamplesOK
  <2>2. \A f \in updated : entry[f].sample # "last"
    <3> SUFFICES ASSUME NEW f \in updated, entry[f].sample = "last" PROVE FALSE
        OBVIOUS
    <3>1. entry[f].pid = NULL /\ entry[f].pid \in Pids
          BY <1>4, <1>10 DEF IInv, SamplesOK, TypeOK
    <3>2. QED BY <3>1
  <2>3. \A f \in updated' : entry'[f].sample # "last"
        BY <1>3, <1>4, <1>9, <2>2
  <2>4. \A f \in cached' : entry'[f].sample # "now"
        BY <1>3, <1>4, <1>9 DEF IInv, SamplesOK
  <2>5. QED BY <2>1, <2>3, <2>4 DEF SamplesOK
<1>18. QED BY <1>11, <1>12, <1>13, <1>14, <1>15, <1>16, <1>17 DEF IInv

\* The row that is populated points to what the entry has; the others have not
\* changed.
LEMMA PointedIs ==
  ASSUME IInv, NEW p \in Pids, NEW e \in Entries, NEW d \in Devices, d = at,
         PointTo(p, e), entry'[e].pid = p
  PROVE  /\ PointsTo(d, p, e)'
         /\ cmdline' \in [Devices -> [Pids -> Entries \cup {NULL}]]
         /\ user_name' \in [Devices -> [Pids -> Entries \cup {NULL}]]
         /\ \A c \in Devices, q \in Pids : c # d \/ q # p =>
              cmdline'[c][q] = cmdline[c][q] /\ user_name'[c][q] = user_name[c][q]
<1> DEFINE command == IF entry'[e].command # 0 THEN e ELSE NULL
           user == IF entry'[e].user # 0 THEN e ELSE NULL
<1>1. command \in Entries \cup {NULL} /\ user \in Entries \cup {NULL}
      OBVIOUS
<1>2. PointTo(p, e) <=> /\ cmdline' = [cmdline EXCEPT ![d][p] = command]
                        /\ user_name' = [user_name EXCEPT ![d][p] = user]
      BY DEF PointTo
<1> HIDE DEF command, user
<1>3. /\ cmdline'[d][p] = command /\ user_name'[d][p] = user
      /\ cmdline' \in [Devices -> [Pids -> Entries \cup {NULL}]]
      /\ user_name' \in [Devices -> [Pids -> Entries \cup {NULL}]]
      /\ \A c \in Devices, q \in Pids : c # d \/ q # p =>
           cmdline'[c][q] = cmdline[c][q] /\ user_name'[c][q] = user_name[c][q]
  <2>1. /\ cmdline \in [Devices -> [Pids -> Entries \cup {NULL}]]
        /\ user_name \in [Devices -> [Pids -> Entries \cup {NULL}]]
        /\ cmdline' = [cmdline EXCEPT ![d][p] = command]
        /\ user_name' = [user_name EXCEPT ![d][p] = user]
        BY <1>2 DEF IInv, TypeOK
  <2>2. /\ cmdline'[d][p] = command
        /\ cmdline' \in [Devices -> [Pids -> Entries \cup {NULL}]]
        /\ \A c \in Devices, q \in Pids : c # d \/ q # p => cmdline'[c][q] = cmdline[c][q]
        BY <1>1, <2>1
  <2>3. /\ user_name'[d][p] = user
        /\ user_name' \in [Devices -> [Pids -> Entries \cup {NULL}]]
        /\ \A c \in Devices, q \in Pids : c # d \/ q # p => user_name'[c][q] = user_name[c][q]
        BY <1>1, <2>1
  <2>4. QED BY <2>2, <2>3
<1>4. PointsTo(d, p, e)' <=> cmdline'[d][p] = command /\ user_name'[d][p] = user
      BY DEF PointsTo, command, user
<1>5. QED BY <1>3, <1>4

\* The rows stay right when one more is populated, with an entry of the new table,
\* and no entry that others point to changes.
LEMMA RowPopulated ==
  ASSUME IInv, pc = "row" \/ pc = "command", pc' = "measure",
         NEW p \in Pids, NEW e \in Entries, NEW d \in Devices, d = at,
         PointTo(p, e), entry'[e].pid = p, e \in updated', updated \subseteq updated',
         unread' = unread \ {p}, p \in met', met \subseteq met',
         \/ entry' = entry
         \/ pc = "command" /\ p = row /\ \A f \in updated : entry[f].pid # p => entry'[f] = entry[f],
         UNCHANGED <<processes, todo, at, refreshed>>
  PROVE  RowsOK'
<1> SUFFICES ASSUME NEW c \in refreshed, NEW q \in Populated(c)'
             PROVE  q \in met' /\ \E f \in updated' : PointsTo(c, q, f)'
    BY DEF RowsOK, Kept, Busy
<1>1. /\ PointsTo(d, p, e)'
      /\ \A b \in Devices, r \in Pids : b # d \/ r # p =>
           cmdline'[b][r] = cmdline[b][r] /\ user_name'[b][r] = user_name[b][r]
      BY PointedIs
<1>2. c \in Devices /\ q \in Pids
      BY DEF IInv, TypeOK, Populated
<1>3. CASE c = d /\ q = p
      BY <1>1, <1>3
<1>4. CASE ~(c = d /\ q = p)
  <2>1. q \in Populated(c)
        BY <1>4 DEF Populated
  <2>2. q \in met /\ ~(pc = "command" /\ q = row) /\ \E f \in updated : PointsTo(c, q, f)
        BY <2>1 DEF IInv, RowsOK, Kept, Busy
  <2>3. PICK f \in updated : PointsTo(c, q, f)
        BY <2>2
  <2>4. entry'[f] = entry[f]
        BY <2>2, <2>3 DEF PointsTo
  <2>5. cmdline'[c][q] = cmdline[c][q] /\ user_name'[c][q] = user_name[c][q]
        BY <1>1, <1>2, <1>4
  <2>6. PointsTo(c, q, f)'
        BY <2>3, <2>4, <2>5 DEF PointsTo
  <2>7. QED BY <2>2, <2>6
<1>5. QED BY <1>3, <1>4

LEMMA ReadCommandIInv == IInv /\ ReadCommand => IInv'
<1> SUFFICES ASSUME IInv, ReadCommand PROVE IInv'
    OBVIOUS
<1>1. PICK e \in Find(updated, row), c \in Reads(row) :
        entry' = [entry EXCEPT ![e].command = c] /\ PointTo(row, e)
      BY DEF ReadCommand
<1>2. /\ pc = "command" /\ pc' = "measure" /\ unread' = unread \ {row}
      /\ firstCommand' = [firstCommand EXCEPT ![row] = Living(row)]
      /\ UNCHANGED <<up, inc, monitored, processes, cached, updated, heap, todo, at, row,
                     refreshed, metBefore, met, firstUser>>
      BY DEF ReadCommand, kernel
<1>3. /\ at # NULL /\ at \in Devices /\ row # NULL /\ row \in Pids /\ row \in met
      /\ Busy /\ Busy'
  <2>1. at # NULL /\ row # NULL /\ row \in met
        BY <1>2 DEF IInv, PlaceOK
  <2>2. QED BY <1>2, <2>1 DEF IInv, TypeOK, Busy
<1>4. e \in updated /\ e \in heap /\ e \in Entries /\ entry[e].pid = row /\ entry[e] \in Contents
      BY DEF Find, IInv, TypeOK, OneEntryPerPid
<1>5. c \in Incarnations /\ Living(row) \in Incarnations /\ c \in {0, Living(row)}
      BY <1>3 DEF Reads, Living, IInv, TypeOK, Incarnations
<1>6. entry' = [entry EXCEPT ![e] = [entry[e] EXCEPT !.command = c]]
      BY <1>1
<1>7. [entry[e] EXCEPT !.command = c] \in Contents
      BY <1>4, <1>5 DEF Contents
<1>8. /\ entry' \in [Entries -> Contents]
      /\ entry'[e].pid = row /\ entry'[e].user = entry[e].user /\ entry'[e].command = c
      /\ entry'[e].sample = entry[e].sample
      /\ \A f \in Entries : f # e => entry'[f] = entry[f]
  <2>1. /\ entry' \in [Entries -> Contents] /\ entry'[e] = [entry[e] EXCEPT !.command = c]
        /\ \A f \in Entries : f # e => entry'[f] = entry[f]
        BY <1>4, <1>6, <1>7 DEF IInv, TypeOK
  <2>2. QED BY <1>4, <2>1 DEF Contents
<1>9. \A f \in Entries : entry'[f].pid = entry[f].pid /\ entry'[f].user = entry[f].user
                         /\ entry'[f].sample = entry[f].sample
      BY <1>4, <1>8
<1>10. cached \subseteq Entries /\ updated \subseteq Entries /\ heap \subseteq Entries
      BY DEF IInv, TypeOK
<1>11. PICK d \in Devices : d = at
      BY <1>3
<1>12. /\ cmdline' \in [Devices -> [Pids -> Entries \cup {NULL}]]
       /\ user_name' \in [Devices -> [Pids -> Entries \cup {NULL}]]
      BY <1>1, <1>3, <1>4, <1>8, <1>11, PointedIs
<1>13. firstCommand' \in [Pids -> Incarnations] /\ firstCommand'[row] = Living(row)
       /\ \A q \in Pids : q # row => firstCommand'[q] = firstCommand[q]
      BY <1>2, <1>3, <1>5 DEF IInv, TypeOK
<1>14. TypeOK'
      BY <1>2, <1>8, <1>12, <1>13 DEF IInv, TypeOK, Places
<1>15. OneEntryPerPid'
      BY <1>2, <1>9, <1>10 DEF IInv, OneEntryPerPid
<1>16. PlaceOK' /\ TablesOK'
      BY <1>2, <1>3, <1>9, <1>10 DEF IInv, PlaceOK, TablesOK, Busy
<1>17. RowsOK'
  <2>1. \A f \in updated : entry[f].pid # row => entry'[f] = entry[f]
        BY <1>4, <1>8, <1>10
  <2>2. QED BY <1>1, <1>2, <1>3, <1>4, <1>8, <1>11, <2>1, RowPopulated
<1>18. NamesOK'
  <2>1. ASSUME NEW f \in heap, f # e
        PROVE  entry[f].pid # row /\ entry[f].pid \in Pids
        BY <1>3, <1>4, <2>1, EntriesOfMet DEF IInv, OneEntryPerPid, TypeOK
  <2>2. ASSUME NEW f \in heap
        PROVE  /\ entry'[f].user \in {0, firstUser[entry'[f].pid]}
               /\ entry'[f].command \in {0, firstCommand'[entry'[f].pid]}
    <3>1. CASE f = e
          BY <1>4, <1>5, <1>8, <1>13, <3>1 DEF IInv, NamesOK
    <3>2. CASE f # e
          BY <1>8, <1>10, <1>13, <2>1, <3>2 DEF IInv, NamesOK
    <3>3. QED BY <3>1, <3>2
  <2>3. QED BY <1>2, <2>2 DEF NamesOK
<1>19. SamplesOK'
      BY <1>2, <1>9, <1>10 DEF IInv, SamplesOK
<1>20. QED BY <1>14, <1>15, <1>16, <1>17, <1>18, <1>19 DEF IInv

LEMMA MeetKnownIInv ==
  ASSUME IInv, NEW p \in Pids, MeetKnown(p)
  PROVE  IInv'
<1>1. PICK e \in Entries : (KeepEntry(p, e) \/ ShareEntry(p, e)) /\ PointTo(p, e)
      BY DEF MeetKnown
<1>2. /\ pc = "row" /\ pc' = "measure" /\ p \in unread /\ unread' = unread \ {p}
      /\ row' = p /\ met' = met \cup {p}
      /\ UNCHANGED <<up, inc, monitored, processes, todo, at, refreshed, metBefore>>
      BY DEF MeetKnown, Meet, kernel
<1>3. /\ \A q \in met \cup metBefore : \E f \in heap : entry[f].pid = q
      /\ \A f \in heap : entry[f].pid \in met \cup metBefore
      /\ heap = cached \cup updated /\ cached \subseteq Entries /\ updated \subseteq Entries
      BY <1>2, EntriesOfMet DEF Busy
<1>4. /\ e \in heap /\ entry[e].pid = p /\ heap' = heap /\ entry' = entry
      /\ updated' = updated \cup {e} /\ cached' = cached \ {e}
  <2>1. CASE KeepEntry(p, e)
        BY <2>1, <1>3 DEF KeepEntry, Find
  <2>2. CASE ShareEntry(p, e)
        BY <2>2, <1>3 DEF ShareEntry, Find, cache
  <2>3. QED BY <1>1, <2>1, <2>2
<1>5. firstUser' = firstUser /\ firstCommand' = firstCommand
      BY <1>3, <1>4, MetFirst DEF MeetKnown
<1>6. at # NULL /\ p # NULL /\ row = NULL /\ at \in Devices
  <2>1. at # NULL /\ row = NULL
        BY <1>2 DEF IInv, PlaceOK
  <2>2. QED BY <2>1 DEF IInv, TypeOK
<1>7. PICK d \in Devices : d = at
      BY <1>6
<1>8. /\ cmdline' \in [Devices -> [Pids -> Entries \cup {NULL}]]
      /\ user_name' \in [Devices -> [Pids -> Entries \cup {NULL}]]
      BY <1>1, <1>4, <1>7, PointedIs
<1>9. TypeOK'
  <2>1. updated' \subseteq Entries /\ heap' \subseteq Entries /\ cached' \subseteq Entries
        BY <1>3, <1>4
  <2>2. QED BY <1>2, <1>4, <1>5, <1>8, <2>1 DEF IInv, TypeOK, Places
<1>10. OneEntryPerPid'
  <2>1. cached' \cup updated' = heap' /\ cached' \cap updated' = {}
        BY <1>4 DEF IInv, OneEntryPerPid
  <2>2. QED BY <1>2, <1>4, <2>1 DEF IInv, OneEntryPerPid
<1>11. PlaceOK'
      BY <1>2, <1>6 DEF IInv, PlaceOK, Busy
<1>12. TablesOK'
  <2>1. \A f \in cached' : entry'[f].pid \in metBefore \ met'
        BY <1>2, <1>3, <1>4 DEF IInv, TablesOK, OneEntryPerPid, Busy
  <2>2. \A f \in updated' : entry'[f].pid \in met'
        BY <1>2, <1>4 DEF IInv, TablesOK
  <2>3. \A q \in met' \cup metBefore : \E f \in heap' : entry'[f].pid = q
        BY <1>2, <1>3, <1>4
  <2>4. QED BY <1>2, <2>1, <2>2, <2>3 DEF TablesOK, Busy
<1>13. RowsOK'
      BY <1>1, <1>2, <1>4, <1>7, RowPopulated
<1>14. NamesOK'
      BY <1>4, <1>5 DEF IInv, NamesOK
<1>15. SamplesOK'
  <2>1. \A f \in updated : entry[f].sample # "last"
    <3> SUFFICES ASSUME NEW f \in updated, entry[f].sample = "last" PROVE FALSE
        OBVIOUS
    <3>1. entry[f].pid = NULL /\ entry[f].pid \in Pids
          BY <1>3, <1>6 DEF IInv, SamplesOK, TypeOK
    <3>2. QED BY <3>1
  <2>2. QED BY <1>2, <1>4, <2>1 DEF IInv, SamplesOK
<1>16. QED BY <1>9, <1>10, <1>11, <1>12, <1>13, <1>14, <1>15 DEF IInv

LEMMA Invariance == Spec => []IInv
<1>1. ASSUME IInv, [Next]_vars PROVE IInv'
  <2>1. CASE Refresh
        BY <1>1, <2>1, BeginRefreshIInv, RefreshRunningIInv, MeetNewIInv, MeetKnownIInv,
           ReadCommandIInv, MeasureIInv,
           DeviceDoneIInv, CleanOldCacheIInv DEF Refresh
  <2>2. CASE ClearCache
        BY <1>1, <2>2, ClearCacheIInv
  <2>3. CASE ChangeMonitored \/ (\E p \in Pids : Fork(p) \/ Exit(p)) \/ UNCHANGED vars
        BY <1>1, <2>3, WorldIInv
  <2>4. QED BY <1>1, <2>1, <2>2, <2>3 DEF Next
<1>2. QED BY <1>1, InitIInv, PTL DEF Spec

\* The variables keep their types, and populate stays within processes_count.
THEOREM TypeCorrect == Spec => []TypeOK
<1>1. IInv => TypeOK
      BY DEF IInv
<1>2. QED BY <1>1, Invariance, PTL

\* A pid never has two entries in the two tables together, none is lost, and
\* none is left when the program ends.
THEOREM CacheOwnsEntries == Spec => []OneEntryPerPid
<1>1. IInv => OneEntryPerPid
      BY DEF IInv
<1>2. QED BY <1>1, Invariance, PTL

\* No row of a device that took part in the last refresh points to a freed
\* entry, while a refresh is under way or between two of them.
THEOREM RefreshedAreLive == Spec => []RefreshedRowsLive
<1>1. IInv => RefreshedRowsLive
  <2> SUFFICES ASSUME IInv, NEW d \in refreshed, NEW p \in Populated(d)
               PROVE  Live(d, p)
      BY DEF RefreshedRowsLive
  <2>1. PICK e \in Kept : PointsTo(d, p, e)
        BY DEF IInv, RowsOK
  <2>2. e \in heap
        BY DEF IInv, Kept, OneEntryPerPid
  <2>3. QED BY <2>1, <2>2 DEF PointsTo, Live
<1>2. QED BY <1>1, Invariance, PTL

\* A row shows the user and the command line of the processes there were when its
\* pid was first met since a refresh last missed it.
THEOREM NamesAreOfFirstMet == Spec => []NameOfFirstMet
<1>1. IInv => NameOfFirstMet
  <2> SUFFICES ASSUME IInv, NEW d \in refreshed, NEW p \in Populated(d)
               PROVE  \E e \in Find(heap, p) :
                        /\ cmdline[d][p] = IF entry[e].command # 0 THEN e ELSE NULL
                        /\ user_name[d][p] = IF entry[e].user # 0 THEN e ELSE NULL
                        /\ entry[e].command \in {0, firstCommand[p]}
                        /\ entry[e].user \in {0, firstUser[p]}
      BY DEF NameOfFirstMet
  <2>1. PICK e \in Kept : PointsTo(d, p, e)
        BY DEF IInv, RowsOK
  <2>2. e \in heap
        BY DEF IInv, Kept, OneEntryPerPid
  <2>3. QED BY <2>1, <2>2 DEF PointsTo, Find, IInv, NamesOK
<1>2. QED BY <1>1, Invariance, PTL

\* A CPU usage is taken over one interval at most.
THEOREM UsageIsOfOneInterval == Spec => []UsageOfOneInterval
<1>1. IInv => UsageOfOneInterval
      BY DEF IInv, UsageOfOneInterval, SamplesOK
<1>2. QED BY <1>1, Invariance, PTL
=============================================================================
