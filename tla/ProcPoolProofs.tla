--------------------------- MODULE ProcPoolProofs ---------------------------
(* What ProcPool guarantees for every set of fields, whether or not threads *)
(* can be created, /proc can be opened and processes can be read.           *)
EXTENDS ProcPool, TLAPS

\* OneOwner is inductive once we know where the UI can be with and without a
\* pool, and that a pool that does not exist holds no token: otherwise Start
\* could add a second one, or DrainPost post a token that was freed.
PlacesOK ==
  /\ proc_pool <=> th # "none"
  /\ ui \in {"show", "done", "drain", "drained", "join"} => proc_pool
  /\ ui \in {"start", "gone", "exit"} => ~proc_pool
  /\ ~proc_pool => frame_ready = 0 /\ frame_done = 0 /\ sorted = NoFrame

IInv == TypeOK /\ PlacesOK /\ Tokens <= 1

\* Reading or writing one option at a time still yields an order.
LEMMA MixedOrder ==
  ASSUME NEW a \in Orders, NEW b \in Orders
  PROVE  /\ [a EXCEPT !.by = b.by] \in Orders
         /\ [a EXCEPT !.dir = b.dir] \in Orders
  BY DEF Orders

LEMMA ChangedOrder ==
  ASSUME NEW a \in Orders
  PROVE  /\ \A f \in Fields : [a EXCEPT !.by = f] \in Orders
         /\ \A d \in Directions : [a EXCEPT !.dir = d] \in Orders
  BY DEF Orders

LEMMA ZeroedType == Zeroed \in Orders
  BY FieldsAssumption DEF Zeroed, Orders, Directions

LEMMA FrameTypes == /\ NoFrame \in Frames /\ EmptyFrame \in Frames
                    /\ \A o \in Orders : o \in Frames
  BY DEF Frames

USE DEF ProducerPlaces, UIPlaces, SettleFrames, SampleFrames

LEMMA InitIInv == Init => IInv
<1> SUFFICES ASSUME Init PROVE IInv
    OBVIOUS
<1>1. TypeOK
  <2>1. FlagsOK
        BY Zenon DEF Init, FlagsOK
  <2> QED BY <2>1, ZeroedType, FrameTypes DEF Init, TypeOK
<1>2. PlacesOK
      BY DEF Init, PlacesOK
<1>3. Tokens <= 1
      BY DEF Init, Tokens, Bit, Filling, Holding
<1> QED BY <1>1, <1>2, <1>3 DEF IInv

\* The producer's steps keep the places of the two threads consistent and move
\* its token from frame_done through the critical section to frame_ready.
LEMMA ProducerIInv == IInv /\ Producer => IInv'
<1> SUFFICES ASSUME IInv, Producer PROVE IInv'
    OBVIOUS
<1> USE DEF IInv, TypeOK, FlagsOK, PlacesOK, Tokens, Bit, Filling, Holding, poolVars,
            ifaceVars, history
<1>1. CASE TestRunning
      BY <1>1 DEF TestRunning
<1>2. CASE CheckStats
      BY <1>2 DEF CheckStats
<1>3. CASE SampleStats
      BY <1>3 DEF SampleStats
<1>4. CASE ReadSortBy
  <2>1. OptionsSeen \in Orders
        BY ZeroedType DEF OptionsSeen
  <2>2. args' \in Orders
        BY <1>4, <2>1, MixedOrder, Zenon DEF ReadSortBy
  <2> QED BY <1>4, <2>2 DEF ReadSortBy
<1>5. CASE ReadSortDesc
  <2>1. OptionsSeen \in Orders
        BY ZeroedType DEF OptionsSeen
  <2>2. args' \in Orders
        BY <1>5, <2>1, MixedOrder, Zenon DEF ReadSortDesc
  <2> QED BY <1>5, <2>2 DEF ReadSortDesc
<1>6. CASE WaitFrameDone
      BY <1>6 DEF WaitFrameDone
<1>7. CASE OpenProc
      BY <1>7 DEF OpenProc
<1>8. CASE GiveBack
      BY <1>8 DEF GiveBack
<1>9. CASE FillFrame
      BY <1>9, FrameTypes DEF FillFrame
<1>10. CASE PostFrameReady
      BY <1>10 DEF PostFrameReady
<1> QED BY <1>1, <1>2, <1>3, <1>4, <1>5, <1>6, <1>7, <1>8, <1>9, <1>10
        DEF Producer

\* The same for drawing, for the keys, and for stopping and starting.
LEMMA UIIInv == IInv /\ UI => IInv'
<1> SUFFICES ASSUME IInv, UI PROVE IInv'
    OBVIOUS
<1> USE DEF IInv, TypeOK, FlagsOK, PlacesOK, Tokens, Bit, Filling, Holding, poolVars,
            ifaceVars, history
<1>1. CASE Start
  <2>1. FlagsOK'
        BY <1>1, Zenon DEF Start, FlagsOK
  <2> QED BY <1>1, <2>1, FrameTypes DEF Start
<1>2. CASE Rebuild
      BY <1>2 DEF Rebuild
<1>3. CASE BeginDraw
      BY <1>3 DEF BeginDraw
<1>4. CASE DrawStats
      BY <1>4 DEF DrawStats
<1>5. CASE DrawWithoutFrame
      BY <1>5 DEF DrawWithoutFrame
<1>6. CASE FrameBegin
      BY <1>6 DEF FrameBegin
<1>7. CASE ShowFrame
      BY <1>7 DEF ShowFrame
<1>8. CASE FrameDone
      BY <1>8 DEF FrameDone
<1>9. CASE Key
  <2>1. CASE NoKey
        BY <2>1 DEF NoKey
  <2>2. CASE ChangeOrder
    <3>1. options' \in Orders
      <4>1. ASSUME NEW f \in Fields, options' = [options EXCEPT !.by = f]
            PROVE  options' \in Orders
            BY <4>1, ChangedOrder
      <4>2. ASSUME NEW d \in Directions, options' = [options EXCEPT !.dir = d]
            PROVE  options' \in Orders
            BY <4>2, ChangedOrder
      <4> QED BY <2>2, <4>1, <4>2 DEF ChangeOrder
    <3> QED BY <2>2, <3>1 DEF ChangeOrder
  <2>3. CASE ChangeView
        BY <2>3 DEF ChangeView
  <2>4. CASE ToggleDevice
        BY <2>4 DEF ToggleDevice
  <2>5. CASE Quit
        BY <2>5 DEF Quit
  <2> QED BY <1>9, <2>1, <2>2, <2>3, <2>4, <2>5 DEF Key
<1>10. CASE Stop
  <2>1. CASE Halt
        BY <2>1 DEF Halt
  <2>2. CASE DrainTake
        BY <2>2 DEF DrainTake
  <2>3. CASE DrainPost
        BY <2>3 DEF DrainPost
  <2>4. CASE JoinAndFree
    <3>1. FlagsOK'
          BY <2>4, Zenon DEF JoinAndFree, FlagsOK
    <3> QED BY <2>4, <3>1, FrameTypes DEF JoinAndFree
  <2>5. CASE Leave
        BY <2>5 DEF Leave
  <2> QED BY <1>10, <2>1, <2>2, <2>3, <2>4, <2>5 DEF Stop
<1> QED BY <1>1, <1>2, <1>3, <1>4, <1>5, <1>6, <1>7, <1>8, <1>9, <1>10 DEF UI

LEMMA StutterIInv == IInv /\ UNCHANGED vars => IInv'
  BY DEF IInv, TypeOK, FlagsOK, PlacesOK, Tokens, Bit, Filling, Holding, vars, poolVars,
         ifaceVars, history

\* IInv is an invariant of the pool, of its thread and of the main loop.
THEOREM Invariance == SafetySpec => []IInv
<1>1. IInv /\ [Next]_vars => IInv'
      BY ProducerIInv, UIIInv, StutterIInv DEF Next, Terminated
<1> QED BY InitIInv, <1>1, PTL DEF SafetySpec

\* Every variable keeps its type: in particular no semaphore is ever posted
\* or taken into a value sem_t does not have.
THEOREM TypeCorrect == SafetySpec => []TypeOK
  BY Invariance, PTL DEF IInv

\* The producer and the UI are never in the frame together, in any number of
\* rebuilds, failed scans and lost frames.
THEOREM MutualExclusion == SafetySpec => []OneOwner
<1>1. IInv => OneOwner
      BY DEF IInv, TypeOK, OneOwner, Tokens, Bit
<1> QED BY Invariance, <1>1, PTL

\* Nothing the thread uses is freed before it has been joined.
THEOREM ThreadSafeTeardown == SafetySpec => []PoolOutlivesThread
<1>1. IInv => PoolOutlivesThread
      BY DEF IInv, PlacesOK, PoolOutlivesThread
<1> QED BY Invariance, <1>1, PTL

-----------------------------------------------------------------------------
(* The exchange of frames.                                                  *)

\* Every step of the pool, its thread and the main loop is a step of the
\* abstract exchange of one frame or leaves it alone: the frame is written
\* only by its owner, and what is offered is what is taken.
THEOREM Refinement == SafetySpec => HandoffSpec
<1>1. Init => Handoff!Init
      BY DEF Init, Handoff!Init, Owner, Holding
<1>2. IInv /\ Producer => [Handoff!Next]_(Handoff!vars)
  <2> SUFFICES ASSUME IInv, Producer PROVE [Handoff!Next]_(Handoff!vars)
      OBVIOUS
  <2> USE DEF IInv, TypeOK, Tokens, Bit, Filling, Holding, Owner, Handoff!vars,
              poolVars, ifaceVars, history
  <2>1. CASE FillFrame
    <3>1. Owner = "producer" /\ Owner' = "producer"
          BY <2>1 DEF FillFrame
    <3>2. sorted' = sorted \/ sorted' \in Orders \cup {EmptyFrame}
          BY <2>1 DEF FillFrame
    <3> QED BY <3>1, <3>2 DEF Handoff!Next, Handoff!Fill
  <2>2. CASE PostFrameReady
    <3>1. Owner = "producer" /\ Owner' = "offered"
          BY <2>2 DEF PostFrameReady
    <3> QED BY <2>2, <3>1 DEF PostFrameReady, Handoff!Next, Handoff!Offer
  <2>3. CASE TestRunning \/ CheckStats \/ SampleStats \/ ReadSortBy
             \/ ReadSortDesc \/ WaitFrameDone \/ OpenProc \/ GiveBack
        BY <2>3 DEF TestRunning, CheckStats, SampleStats, ReadSortBy,
                    ReadSortDesc, WaitFrameDone, OpenProc, GiveBack
  <2> QED BY <2>1, <2>2, <2>3 DEF Producer
<1>3. IInv /\ UI => [Handoff!Next]_(Handoff!vars)
  <2> SUFFICES ASSUME IInv, UI PROVE [Handoff!Next]_(Handoff!vars)
      OBVIOUS
  <2> USE DEF IInv, TypeOK, PlacesOK, Tokens, Bit, Filling, Holding, Owner,
              Handoff!vars, poolVars, ifaceVars, history
  <2>1. CASE Start
        BY <2>1 DEF Start
  <2>2. CASE FrameBegin
    <3>1. Owner = "offered" /\ sorted' = sorted
          BY <2>2 DEF FrameBegin
    <3>2. CASE sorted = NoFrame
      <4>1. Owner' = "producer"
            BY <2>2, <3>2 DEF FrameBegin
      <4> QED BY <3>1, <3>2, <4>1 DEF Handoff!Next, Handoff!Destroy
    <3>3. CASE sorted # NoFrame
      <4>1. Owner' = "consumer"
            BY <2>2, <3>3 DEF FrameBegin
      <4> QED BY <3>1, <4>1 DEF Handoff!Next, Handoff!Take
    <3> QED BY <3>2, <3>3
  <2>3. CASE FrameDone
    <3>1. Owner = "consumer" /\ Owner' = "producer" /\ sorted' = sorted
          BY <2>3 DEF FrameDone
    <3> QED BY <3>1 DEF Handoff!Next, Handoff!Release
  <2>4. CASE DrainTake
    <3>1. CASE frame_ready > 0
      <4>1. Owner = "offered" /\ Owner' = "consumer" /\ sorted' = sorted
            BY <2>4, <3>1 DEF DrainTake
      <4> QED BY <4>1 DEF Handoff!Next, Handoff!Take
    <3>2. CASE ~(frame_ready > 0)
          BY <2>4, <3>2 DEF DrainTake
    <3> QED BY <3>1, <3>2
  <2>5. CASE DrainPost
    <3>1. Owner = "consumer" /\ Owner' = "producer" /\ sorted' = sorted
          BY <2>5 DEF DrainPost
    <3> QED BY <3>1 DEF Handoff!Next, Handoff!Release
  <2>6. CASE JoinAndFree
    <3>1. Owner # "consumer" /\ Owner' = "producer" /\ sorted' = NoFrame
          BY <2>6 DEF JoinAndFree
    <3> QED BY <3>1 DEF Handoff!Next, Handoff!Destroy
  <2>7. CASE Rebuild \/ BeginDraw \/ DrawStats \/ DrawWithoutFrame \/ ShowFrame
        BY <2>7 DEF Rebuild, BeginDraw, DrawStats, DrawWithoutFrame, ShowFrame
  <2>8. CASE Key
        BY <2>8 DEF Key, NoKey, ChangeOrder, ChangeView, ToggleDevice, Quit
  <2>9. CASE Halt \/ Leave
        BY <2>9 DEF Halt, Leave
  <2> QED BY <2>1, <2>2, <2>3, <2>4, <2>5, <2>6, <2>7, <2>8, <2>9 DEF UI, Stop
<1>4. UNCHANGED vars => UNCHANGED Handoff!vars
      BY DEF vars, poolVars, Handoff!vars, Owner, Holding
<1>5. IInv /\ [Next]_vars => [Handoff!Next]_(Handoff!vars)
      BY <1>2, <1>3, <1>4 DEF Next, Terminated
<1> QED BY <1>1, <1>5, Invariance, PTL DEF SafetySpec, HandoffSpec, Handoff!Spec

-----------------------------------------------------------------------------
(* No token is lost as long as scans find processes.                        *)

\* What is offered has rows: the frame is filled before it is posted, so
\* sys_proc_pool_frame_begin never takes the token and returns NULL.
NonEmpty == frame_ready > 0 \/ th = "post" \/ Holding => sorted # NoFrame

\* If every scan reads some process, exactly one token exists while there is a
\* pool: whoever waits on a semaphore waits for somebody who will post it.
THEOREM NoTokenIsLost ==
  ASSUME ~ProcMayBeEmpty
  PROVE  SafetySpec => []NoTokenLost
<1> DEFINE J == NonEmpty /\ NoTokenLost
<1> USE DEF Tokens, Bit, Filling, Holding, NonEmpty, NoTokenLost
<1>1. Init => J
      BY DEF Init
<1>2. IInv /\ J /\ Producer => J'
  <2> SUFFICES ASSUME IInv, J, Producer PROVE J'
      OBVIOUS
  <2> USE DEF IInv, TypeOK, FlagsOK, PlacesOK, poolVars, ifaceVars, history
  <2>1. CASE FillFrame
    <3>1. sorted' # NoFrame
          BY <2>1, FramesAssumption DEF FillFrame
    <3> QED BY <2>1, <3>1 DEF FillFrame
  <2>2. CASE WaitFrameDone \/ OpenProc \/ GiveBack \/ PostFrameReady
        BY <2>2 DEF WaitFrameDone, OpenProc, GiveBack, PostFrameReady
  <2>3. CASE TestRunning \/ CheckStats \/ SampleStats \/ ReadSortBy \/ ReadSortDesc
        BY <2>3 DEF TestRunning, CheckStats, SampleStats, ReadSortBy, ReadSortDesc
  <2> QED BY <2>1, <2>2, <2>3 DEF Producer
<1>3. IInv /\ J /\ UI => J'
  <2> SUFFICES ASSUME IInv, J, UI PROVE J'
      OBVIOUS
  <2> USE DEF IInv, TypeOK, FlagsOK, PlacesOK, poolVars, ifaceVars, history
  <2>1. CASE Start
        BY <2>1 DEF Start
  <2>2. CASE Rebuild \/ BeginDraw \/ DrawStats \/ DrawWithoutFrame
        BY <2>2 DEF Rebuild, BeginDraw, DrawStats, DrawWithoutFrame
  <2>3. CASE FrameBegin \/ ShowFrame \/ FrameDone
        BY <2>3 DEF FrameBegin, ShowFrame, FrameDone
  <2>4. CASE Key
        BY <2>4 DEF Key, NoKey, ChangeOrder, ChangeView, ToggleDevice, Quit
  <2>5. CASE Stop
        BY <2>5 DEF Stop, Halt, DrainTake, DrainPost, JoinAndFree, Leave
  <2> QED BY <2>1, <2>2, <2>3, <2>4, <2>5 DEF UI
<1>4. IInv /\ J /\ UNCHANGED vars => J'
      BY DEF vars, poolVars, ifaceVars
<1>5. IInv /\ J /\ [Next]_vars => J'
      BY <1>2, <1>3, <1>4 DEF Next, Terminated
<1>6. J => NoTokenLost
      OBVIOUS
<1> HIDE DEF J
<1> QED BY <1>1, <1>5, <1>6, Invariance, PTL DEF SafetySpec
-----------------------------------------------------------------------------
(* The order on screen.                                                     *)

\* What the thread has captured of the user's order, at the place it is at.
ArgsSettled ==
  /\ th \in {"desc", "wait", "gc", "fill"} => args.by = options.by
  /\ th \in {"wait", "gc", "fill"} => args.dir = options.dir

\* Only a thread that is about to be joined reads the zeroed options.
ZeroedWhileStopping ==
  stopping = "reinit" =>
    ui \in {"halt", "drain", "drained", "join", "gone", "start"}

\* After a change of the order the frame on offer and the one being filled may
\* both be old.  By the time the second is offered the thread has captured its
\* arguments again, so the third is in the new order.
ArgsSettle ==
  stopping # "reinit" /\ (lag >= 2 \/ (lag = 1 /\ frame_ready > 0)) => ArgsSettled

FrameSettles ==
  /\ stopping # "reinit"
  /\ \/ lag >= 2 /\ (frame_ready > 0 \/ th = "post")
     \/ lag = 3 /\ ui = "show"
  => sorted \in {options, EmptyFrame, NoFrame}

\* The UI never draws a frame that was not allocated yet.
ShownExists == ui = "show" => sorted # NoFrame

Settling == ZeroedWhileStopping /\ ArgsSettle /\ FrameSettles /\ ShownExists

LEMMA SameOrder ==
  ASSUME NEW a \in Orders, NEW b \in Orders, a.by = b.by, a.dir = b.dir
  PROVE  a = b
  BY DEF Orders

LEMMA MixedFields ==
  ASSUME NEW a \in Orders, NEW b \in Orders
  PROVE  /\ [a EXCEPT !.by = b.by].by = b.by
         /\ [a EXCEPT !.dir = b.dir].dir = b.dir
         /\ [a EXCEPT !.dir = b.dir].by = a.by
  BY DEF Orders

LEMMA InitSettling == Init => Settling
  BY DEF Init, Settling, ZeroedWhileStopping, ArgsSettle, FrameSettles, ShownExists

LEMMA ProducerSettling == IInv /\ Settling /\ Producer => Settling'
<1> SUFFICES ASSUME IInv, Settling, Producer PROVE Settling'
    OBVIOUS
<1> USE DEF Settling, ZeroedWhileStopping, ArgsSettle, ArgsSettled, FrameSettles,
            ShownExists
<1>a. args \in Orders /\ options \in Orders /\ lag \in 0..3
      BY DEF IInv, TypeOK
<1>b. Tokens <= 1 /\ frame_ready \in Nat /\ frame_done \in Nat
      BY DEF IInv, TypeOK
<1> USE DEF poolVars, ifaceVars, history
<1>1. CASE TestRunning \/ CheckStats \/ SampleStats
      BY <1>1 DEF TestRunning, CheckStats, SampleStats
<1>2. CASE ReadSortBy
  <2>1. stopping # "reinit" => args'.by = options.by
        BY <1>2, <1>a, MixedFields DEF ReadSortBy, OptionsSeen
  <2> QED BY <1>2, <2>1 DEF ReadSortBy
<1>3. CASE ReadSortDesc
  <2>1. stopping # "reinit" => args'.dir = options.dir /\ args'.by = args.by
        BY <1>3, <1>a, MixedFields DEF ReadSortDesc, OptionsSeen
  <2> QED BY <1>3, <2>1 DEF ReadSortDesc
<1>4. CASE WaitFrameDone \/ OpenProc \/ GiveBack
      BY <1>4 DEF WaitFrameDone, OpenProc, GiveBack
<1>5. CASE FillFrame
  <2>1. frame_ready = 0 /\ ui # "show"
        BY <1>5, <1>b DEF FillFrame, Tokens, Bit, Filling, Holding
  <2>2. ArgsSettled => args = options
        BY <1>5, <1>a, SameOrder DEF FillFrame
  <2>3. sorted' \in {args, EmptyFrame, NoFrame}
        BY <1>5 DEF FillFrame
  <2> QED BY <1>5, <2>1, <2>2, <2>3 DEF FillFrame
<1>6. CASE PostFrameReady
      BY <1>6, <1>b DEF PostFrameReady
<1> QED BY <1>1, <1>2, <1>3, <1>4, <1>5, <1>6 DEF Producer

LEMMA UISettling == IInv /\ Settling /\ UI => Settling'
<1> SUFFICES ASSUME IInv, Settling, UI PROVE Settling'
    OBVIOUS
<1> USE DEF Settling, ZeroedWhileStopping, ArgsSettle, ArgsSettled, FrameSettles,
            ShownExists
<1>b. lag \in 0..3 /\ Tokens <= 1 /\ frame_ready \in Nat /\ frame_done \in Nat
      BY DEF IInv, TypeOK
<1> USE DEF poolVars, ifaceVars, history
<1>1. CASE Start
      BY <1>1 DEF Start
<1>2. CASE Rebuild \/ BeginDraw \/ DrawStats \/ DrawWithoutFrame
      BY <1>2 DEF Rebuild, BeginDraw, DrawStats, DrawWithoutFrame
<1>3. CASE FrameBegin
  <2>1. frame_ready = 1 /\ ~Filling
        BY <1>3, <1>b DEF FrameBegin, Tokens, Bit
  <2>2. frame_ready' = 0 /\ th # "post"
        BY <1>3, <2>1 DEF FrameBegin, Filling
  <2> QED BY <1>3, <1>b, <2>1, <2>2 DEF FrameBegin
<1>4. CASE ShowFrame \/ FrameDone
      BY <1>4 DEF ShowFrame, FrameDone
<1>5. CASE Key
      BY <1>5 DEF Key, NoKey, ChangeOrder, ChangeView, ToggleDevice, Quit
<1>6. CASE Stop
      BY <1>6, <1>b DEF Stop, Halt, DrainTake, DrainPost, JoinAndFree, Leave
<1> QED BY <1>1, <1>2, <1>3, <1>4, <1>5, <1>6 DEF UI

\* From the third frame after a change of the sort order on, the table on
\* screen is in the user's order, wherever the thread was when it changed.
THEOREM OrderReachesScreen == SafetySpec => []OrderSettles
<1>1. IInv /\ Settling /\ [Next]_vars => Settling'
  <2>1. Settling /\ UNCHANGED vars => Settling'
        BY DEF Settling, ZeroedWhileStopping, ArgsSettle, ArgsSettled, FrameSettles,
               ShownExists, vars, poolVars, ifaceVars, history
  <2> QED BY <2>1, ProducerSettling, UISettling DEF Next, Terminated
<1>2. Settling => OrderSettles
      BY DEF Settling, FrameSettles, ShownExists, ZeroedWhileStopping, OrderSettles
<1> QED BY InitSettling, Invariance, <1>1, <1>2, PTL DEF SafetySpec

-----------------------------------------------------------------------------
(* The age of the statistics on screen.                                     *)

\* A frame that the UI will release.
Offered == frame_ready > 0 \/ ui \in {"show", "done"}

\* How many frames may still be released before the next sample begins.  Once
\* the invalidation has been seen to be missing, at most what is offered and,
\* if the test was passed, one frame more.  An invalidation that a sample
\* overwrites costs a whole round.
ToRelease ==
  CASE th = "sample" -> 2 + Bit(Offered)
    [] th # "sample" /\ sys_stats_valid -> 2 + Bit(ui = "done")
    [] th # "sample" /\ ~sys_stats_valid ->
         Bit(Offered) + Bit(th \in {"by", "desc", "wait", "gc", "fill", "post"})

Sampling == unsampled + ToRelease < SampleFrames

LEMMA ProducerSampling == IInv /\ Sampling /\ Producer => Sampling'
<1> SUFFICES ASSUME IInv, Sampling, Producer PROVE Sampling'
    OBVIOUS
<1> USE DEF Sampling, ToRelease, Offered, Bit, poolVars, ifaceVars, history
<1>b. unsampled \in 0..4 /\ Tokens <= 1 /\ frame_ready \in Nat /\ frame_done \in Nat
      BY DEF IInv, TypeOK
<1>1. CASE TestRunning
      BY <1>1, <1>b DEF TestRunning
<1>2. CASE CheckStats
      BY <1>2, <1>b DEF CheckStats
<1>3. CASE SampleStats
  <2>1. sys_stats_valid'
        BY <1>3, Zenon DEF SampleStats
  <2> QED BY <1>3, <1>b, <2>1 DEF SampleStats
<1>4. CASE ReadSortBy \/ ReadSortDesc
      BY <1>4, <1>b DEF ReadSortBy, ReadSortDesc
<1>5. CASE WaitFrameDone \/ OpenProc \/ GiveBack \/ FillFrame \/ PostFrameReady
      BY <1>5, <1>b DEF WaitFrameDone, OpenProc, GiveBack, FillFrame, PostFrameReady,
         Tokens, Filling, Holding
<1> QED BY <1>1, <1>2, <1>3, <1>4, <1>5 DEF Producer

LEMMA UISampling == IInv /\ Sampling /\ UI => Sampling'
<1> SUFFICES ASSUME IInv, Sampling, UI PROVE Sampling'
    OBVIOUS
<1> USE DEF Sampling, ToRelease, Offered, Bit, poolVars, ifaceVars, history
<1>b. unsampled \in 0..4 /\ Tokens <= 1 /\ frame_ready \in Nat /\ frame_done \in Nat
      BY DEF IInv, TypeOK
<1>1. CASE Start
  <2>1. ~sys_stats_valid'
        BY <1>1, Zenon DEF Start
  <2> QED BY <1>1, <1>b, <2>1 DEF Start, IInv, PlacesOK
<1>2. CASE Rebuild \/ BeginDraw \/ DrawStats \/ DrawWithoutFrame
      BY <1>2 DEF Rebuild, BeginDraw, DrawStats, DrawWithoutFrame
<1>3. CASE FrameBegin
  <2>1. th' = th /\ unsampled' = unsampled /\ frame_ready > 0
        BY <1>3 DEF FrameBegin
  <2>2. sys_stats_valid' <=> sys_stats_valid
        BY <1>3, Zenon DEF FrameBegin
  <2>3. ui # "done" /\ ui' # "done"
        BY <1>3 DEF FrameBegin
  <2> QED BY <1>b, <2>1, <2>2, <2>3
<1>4. CASE ShowFrame
  <2>1. ~sys_stats_valid'
        BY <1>4, Zenon DEF ShowFrame
  <2> QED BY <1>4, <1>b, <2>1 DEF ShowFrame, Tokens, Filling, Holding
<1>5. CASE FrameDone
      BY <1>5, <1>b DEF FrameDone, Tokens, Filling, Holding
<1>6. CASE Key
      BY <1>6 DEF Key, NoKey, ChangeOrder, ChangeView, ToggleDevice, Quit
<1>7. CASE Stop
      BY <1>7, <1>b DEF Stop, Halt, DrainTake, DrainPost, JoinAndFree, Leave
<1> QED BY <1>1, <1>2, <1>3, <1>4, <1>5, <1>6, <1>7 DEF UI

\* However the test of sys_stats_valid, the sample that sets it and the release
\* that clears it interleave, a sample begins within three released frames.
THEOREM StatsStayFresh == SafetySpec => []StatsOfLastFrames
<1>1. Init => Sampling
  <2>1. ASSUME Init PROVE ~sys_stats_valid
        BY <2>1, Zenon DEF Init
  <2> QED BY <2>1 DEF Init, Sampling, ToRelease, Offered, Bit
<1>2. IInv /\ Sampling /\ [Next]_vars => Sampling'
  <2>1. Sampling /\ UNCHANGED vars => Sampling'
        BY DEF Sampling, ToRelease, Offered, Bit, vars, poolVars, ifaceVars, history
  <2> QED BY <2>1, ProducerSampling, UISampling DEF Next, Terminated
<1>3. IInv /\ Sampling => StatsOfLastFrames
      BY DEF IInv, TypeOK, FlagsOK, Sampling, ToRelease, Bit, StatsOfLastFrames
<1> QED BY Invariance, <1>1, <1>2, <1>3, PTL DEF SafetySpec
=============================================================================
