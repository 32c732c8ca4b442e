------------------------------ MODULE Playout ------------------------------
(***************************************************************************)
(* From the decoder to the screen (nyx-rx): demod_loop pushes pictures     *)
(* into a short queue, the thread playout takes them out on its tick, the  *)
(* newest at once or one a period when the operator smooths, and gives     *)
(* them to the screen unless the window holds the screen's lock; then the  *)
(* picture goes back to the head of the queue, in which demod_loop may     *)
(* have pushed meanwhile.  A picture is its place in the order of pushes.  *)
(***************************************************************************)
EXTENDS Naturals, Sequences, SequencesExt

CONSTANTS
  Pictures,  \* bound: pictures pushed
  CAP,       \* the queue's limit (16)
  DEPTH      \* pictures kept when smoothing (target + 3)

PlayoutAssumption == Pictures \in Nat /\ CAP \in Nat \ {0} /\ DEPTH \in Nat

VARIABLES
  made,    \* pictures pushed so far
  queue,   \* shared.playout
  hand,    \* the picture playout is about to publish, at most one
  shown,   \* rx_id: the picture on the screen
  window,  \* the window's thread holds the screen's lock
  smooth,  \* jitter_ms > 0
  drags    \* the window may still hold the lock for long

vars == <<made, queue, hand, shown, window, smooth, drags>>

Init ==
  /\ made = 0 /\ queue = << >> /\ hand = {} /\ shown = 0
  /\ window = FALSE /\ smooth \in BOOLEAN /\ drags = TRUE

Newest(q, n) == IF Len(q) > n THEN SubSeq(q, Len(q) - n + 1, Len(q)) ELSE q

\* demod_loop: the oldest leave a full queue.
Push ==
  /\ made < Pictures
  /\ made' = made + 1 /\ queue' = Newest(Append(queue, made + 1), CAP)
  /\ UNCHANGED <<hand, shown, window, smooth, drags>>

\* A tick without smoothing: the newest, and the rest is dropped.
TakeNewest ==
  /\ ~smooth /\ hand = {} /\ queue # << >>
  /\ hand' = {Last(queue)} /\ queue' = << >>
  /\ UNCHANGED <<made, shown, window, smooth, drags>>

\* A tick with it: what is too deep goes ...
Trim ==
  /\ smooth /\ hand = {} /\ Len(queue) > DEPTH
  /\ queue' = Newest(queue, DEPTH)
  /\ UNCHANGED <<made, hand, shown, window, smooth, drags>>

\* ... and, once the period is over, the oldest is due.
TakeOldest ==
  /\ smooth /\ hand = {} /\ queue # << >>
  /\ hand' = {Head(queue)} /\ queue' = Tail(queue)
  /\ UNCHANGED <<made, shown, window, smooth, drags>>

\* (faulty variant: behind what came meanwhile)
PutBackLast(f) == Append(queue, f)
\* (faulty variant: the picture is given up)
GiveUp(f) == queue
\* publish: never wait for the screen's lock.
PutBack(f) == <<f>> \o queue

Publish ==
  \E f \in hand :
    /\ hand' = {}
    /\ IF window THEN shown' = shown /\ queue' = PutBack(f)
                 ELSE shown' = f /\ queue' = queue
    /\ UNCHANGED <<made, window, smooth, drags>>

Window == /\ drags /\ window' = ~window /\ UNCHANGED <<made, queue, hand, shown, smooth, drags>>
Slider == /\ drags /\ smooth' = ~smooth /\ UNCHANGED <<made, queue, hand, shown, window, drags>>
LetGo == /\ drags /\ drags' = FALSE /\ window' = FALSE /\ UNCHANGED <<made, queue, hand, shown, smooth>>

Tick == TakeNewest \/ Trim \/ TakeOldest \/ Publish
Next == Push \/ Tick \/ Window \/ Slider \/ LetGo

-----------------------------------------------------------------------------

\* The screen never goes back to an older picture, whatever was put back and pushed meanwhile
\* (spawn_playout's push_front).
ShownInOrder == [][shown' >= shown]_shown

\* Once the window lets go of the lock and no more is pushed, the screen holds the last picture
\* pushed: neither the trimming nor a failed publish loses it.
LastShown == <>[](~drags /\ made = Pictures) => <>[](shown = Pictures)
=============================================================================
