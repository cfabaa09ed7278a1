---------------------------- MODULE FrameHandoff ----------------------------
(* What the process pool promises its two users (djeti/sys_proc_pool.h,     *)
(* lines 41-63): one display frame, which belongs at any time to exactly    *)
(* one side.  Only the side that owns the frame may write it, the reader    *)
(* sees exactly what was offered, and what the reader takes it gives back.  *)
CONSTANT Contents,   \* what a frame may hold
         NoFrame     \* the frame of a pool that has produced nothing yet

VARIABLES owner,     \* "producer", "offered" (nobody yet) or "consumer"
          frame      \* what the frame holds

vars == <<owner, frame>>

TypeOK == /\ owner \in {"producer", "offered", "consumer"}
          /\ frame \in Contents \cup {NoFrame}

Init == owner = "producer" /\ frame = NoFrame

\* The producer fills its frame, possibly several times before it offers it.
Fill == /\ owner = "producer"
        /\ frame' \in Contents
        /\ UNCHANGED owner

Offer == /\ owner = "producer"
         /\ owner' = "offered"
         /\ UNCHANGED frame

\* The reader takes the offered frame, to draw it or only to drain it.
Take == /\ owner = "offered"
        /\ owner' = "consumer"
        /\ UNCHANGED frame

Release == /\ owner = "consumer"
           /\ owner' = "producer"
           /\ UNCHANGED frame

\* A pool that is destroyed takes its frame with it.
Destroy == /\ owner # "consumer"
           /\ owner' = "producer"
           /\ frame' = NoFrame

Next == Fill \/ Offer \/ Take \/ Release \/ Destroy

Spec == Init /\ [][Next]_vars
=============================================================================
