------------------------------ MODULE VideoFeed ------------------------------
(***************************************************************************)
(* What the receiving end promises the video decoder, whatever the radio   *)
(* does: frames come in the order of their ids, each at most once, and     *)
(* only frames of which enough blocks were received.  Delivery implements  *)
(* it.                                                                     *)
(***************************************************************************)
EXTENDS Integers

CONSTANTS
  Frames,        \* the ids of the frames
  Blocks,        \* the blocks of all frames
  Enough(_, _),  \* Enough(i, got): the blocks got are enough of frame i
  Nothing        \* no frame

VARIABLES
  got,   \* blocks received
  last   \* the frame the decoder was given last

Init == got = {} /\ last = Nothing

Receive == got' \in SUBSET Blocks /\ got \subseteq got' /\ UNCHANGED last

Give(i) ==
  /\ last # Nothing => i > last
  /\ Enough(i, got)
  /\ last' = i /\ UNCHANGED got

\* The numbering starts over.
Renumber == last' = Nothing /\ UNCHANGED got

Next == Receive \/ (\E i \in Frames : Give(i)) \/ Renumber

Spec == Init /\ [][Next]_<<got, last>>

=============================================================================
