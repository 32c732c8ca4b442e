------------------------------ MODULE Reorder ------------------------------
(***************************************************************************)
(* The reorder stage of nyx-rx (demod_loop in apps/video/nyx-rx/src/       *)
(* lib.rs): between the reassembly funnel, which completes frames in any   *)
(* order, and the video decoder, which must see them in the order of their *)
(* ids, because a predicted picture refers to the ones before it.          *)
(*                                                                         *)
(* Ids count frames and wrap; an id may have no frame (the transmitter     *)
(* takes one at every tick, even when it sends nothing: a phantom).  The   *)
(* stage keeps a cursor, the id the decoder needs next.  When the cursor   *)
(* stands at a hole it is skipped at once if nothing suggests that the     *)
(* frame exists, and otherwise when frames behind it have waited `hold`.   *)
(*                                                                         *)
(* One capture is handled by one thread from start to end; `phase` is      *)
(* where that thread is: taking a capture, queueing what it completed,     *)
(* releasing what is ready.  What the funnel says of the hole at the       *)
(* cursor (has_partial, progressing) is an input here; Delivery computes   *)
(* it.  Ages are counted in ticks of a clock that stands still within a    *)
(* handler.                                                                *)
(***************************************************************************)
EXTENDS Integers, Sequences, FiniteSets

CONSTANTS
  MaxId,      \* the ids the transmitter uses are 0 .. MaxId
  IdMod,      \* ids wrap here (2^32)
  AHEAD,      \* an id this far ahead of the cursor is queued (1000)
  BEHIND,     \* an id this far behind is a late repair (256)
  Holds,      \* the values `hold` takes: two-way, camera pass-through, one-way
  MaxAge,     \* bound: ages are not counted further
  MaxBatch,   \* bound: frames one capture completes
  None        \* no id

Ids == 0 .. MaxId
Cursors == 0 .. IdMod - 1

ASSUME ReorderAssumption ==
  /\ MaxId \in Nat /\ IdMod \in Nat /\ MaxId < IdMod
  /\ AHEAD \in Nat \ {0} /\ BEHIND \in Nat
  /\ MaxAge \in Nat /\ Holds \subseteq 0 .. MaxAge - 1
  /\ MaxBatch \in Nat
  /\ None \notin Int

VARIABLES
  phase,      \* "recv", "insert" or "release"
  completed,  \* frames this capture completed and that are not queued yet
  next,       \* next_deliver_id
  queue,      \* pending: ids of the frames that wait
  age,        \* how long each has waited
  asked,      \* outstanding_nacks is not empty
  hold,       \* how long this capture lets a hole hold the line up
  out,        \* history: the last id given to the decoder since the numbering began
  base,       \* history: the cursor when the numbering began
  released,   \* history: frames given to the decoder since then
  framesLost, \* frames_lost, counted since then
  phantoms    \* history: holes skipped as phantoms since then

counts == <<released, framesLost, phantoms>>
vars == <<phase, completed, next, queue, age, asked, hold, out, base, counts>>

Init ==
  /\ phase = "recv" /\ completed = <<>>
  /\ next = None /\ queue = {} /\ age = [i \in Ids |-> 0]
  /\ asked = FALSE /\ hold \in Holds
  /\ out = None /\ base = None
  /\ released = 0 /\ framesLost = 0 /\ phantoms = 0

\* u32 arithmetic.
WrappingSub(i, j) == IF i >= j THEN i - j ELSE i + IdMod - j
WrappingInc(i) == IF i + 1 = IdMod THEN 0 ELSE i + 1

\* A capture is demodulated: it completes some frames, and the state of the NACKs and
\* of the line decide how long holes are held this time.
Batches == UNION {[1 .. n -> Ids] : n \in 0 .. MaxBatch}
Capture(c, a, h) ==
  /\ phase = "recv"
  /\ phase' = "insert" /\ completed' = c /\ asked' = a /\ hold' = h
  /\ UNCHANGED <<next, queue, age, out, base, counts>>

\* At or ahead of the cursor: queued, unless it is there already.
Enqueue(i) ==
  /\ queue' = queue \cup {i}
  /\ UNCHANGED age   \* a frame already there keeps its age, a new one has none
  /\ UNCHANGED <<asked, out, counts>>
  /\ IF next = None THEN next' = i /\ base' = i ELSE UNCHANGED <<next, base>>

\* A wild jump: the transmitter restarted its numbering, everything starts over.
Resync(i) ==
  /\ queue' = {i} /\ age' = [j \in Ids |-> 0]
  /\ next' = i /\ base' = i
  /\ asked' = FALSE
  /\ out' = None /\ released' = 0 /\ framesLost' = 0 /\ phantoms' = 0

\* How far ahead of the cursor an id is; a repair that came after its frame was skipped
\* is a little behind (faulty variant: it is queued like any other).
Ahead(i) == IF next = None THEN 0 ELSE WrappingSub(i, next)
TooLate(i) == Ahead(i) > IdMod - 1 - BEHIND
EvenTooLate(i) == Ahead(i) <= AHEAD \/ TooLate(i)
InReach(i) == Ahead(i) <= AHEAD

Insert ==
  /\ phase = "insert" /\ completed # <<>>
  /\ completed' = Tail(completed)
  /\ LET i == Head(completed) IN
       \/ InReach(i) /\ Enqueue(i)
       \/ ~InReach(i) /\ TooLate(i) /\ UNCHANGED <<next, queue, age, asked, out, base, counts>>
       \/ ~InReach(i) /\ ~TooLate(i) /\ Resync(i)
  /\ UNCHANGED <<phase, hold>>

Inserted ==
  /\ phase = "insert" /\ completed = <<>>
  /\ phase' = "release"
  /\ UNCHANGED <<completed, next, queue, age, asked, hold, out, base, counts>>

\* The frame at the cursor is there.
Deliver ==
  /\ phase = "release" /\ next \in queue
  /\ queue' = queue \ {next} /\ age' = [age EXCEPT ![next] = 0]
  /\ out' = next /\ released' = released + 1
  /\ next' = WrappingInc(next)
  /\ UNCHANGED <<phase, completed, asked, hold, base, framesLost, phantoms>>

\* What the funnel knows of the hole at the cursor: no fragment, fragments that still
\* come, or fragments none of which came lately.
Holes == {"unseen", "progressing", "stalled"}
AtHole == phase = "release" /\ next # None /\ next \notin queue

PhantomWhileAsked(hole) == queue # {} /\ hole = "unseen"
Phantom(hole) == queue # {} /\ hole = "unseen" /\ ~asked
SkipPhantom(hole) ==
  /\ AtHole /\ Phantom(hole)
  /\ next' = WrappingInc(next)
  /\ phantoms' = phantoms + 1
  /\ UNCHANGED <<phase, completed, queue, age, asked, hold, out, base, released, framesLost>>

\* The oldest frame there.
FirstQueued == CHOOSE i \in queue : \A j \in queue : i <= j
TimedOutUnseen(hole) == (\E i \in queue : age[i] > hold) /\ hole = "unseen"
TimedOut(hole) == (\E i \in queue : age[i] > hold) /\ hole # "progressing"

\* Skip to it and count what was skipped (faulty variant: one hole, one loss).
SkipOne(hole) ==
  /\ AtHole /\ ~Phantom(hole) /\ TimedOut(hole)
  /\ framesLost' = framesLost + 1
  /\ next' = FirstQueued
  /\ UNCHANGED <<phase, completed, queue, age, asked, hold, out, base, released, phantoms>>
SkipLost(hole) ==
  /\ AtHole /\ ~Phantom(hole) /\ TimedOut(hole)
  /\ framesLost' = framesLost + WrappingSub(FirstQueued, next)
  /\ next' = FirstQueued
  /\ UNCHANGED <<phase, completed, queue, age, asked, hold, out, base, released, phantoms>>

\* Nothing more is ready.
Wait(hole) ==
  /\ phase = "release" /\ next \notin queue
  /\ next # None => ~Phantom(hole) /\ ~TimedOut(hole)
  /\ phase' = "recv"
  /\ UNCHANGED <<completed, next, queue, age, asked, hold, out, base, counts>>

Tick ==
  /\ phase = "recv"
  /\ age' = [i \in Ids |-> IF i \in queue /\ age[i] < MaxAge THEN age[i] + 1 ELSE age[i]]
  /\ UNCHANGED <<phase, completed, next, queue, asked, hold, out, base, counts>>

Release ==
  \/ Deliver
  \/ \E hole \in Holes : SkipPhantom(hole) \/ SkipLost(hole) \/ Wait(hole)

Next ==
  \/ \E c \in Batches, a \in BOOLEAN, h \in Holds : Capture(c, a, h)
  \/ Insert \/ Inserted
  \/ Release
  \/ Tick

Spec == Init /\ [][Next]_vars

-----------------------------------------------------------------------------
TypeOK ==
  /\ phase \in {"recv", "insert", "release"} /\ completed \in Seq(Ids)
  /\ next \in Cursors \cup {None} /\ queue \subseteq Ids /\ age \in [Ids -> 0 .. MaxAge]
  /\ asked \in BOOLEAN /\ hold \in Holds
  /\ out \in Ids \cup {None} /\ base \in Ids \cup {None}
  /\ released \in Nat /\ framesLost \in Nat /\ phantoms \in Nat

\* Every frame that waits is at the cursor or ahead of it, and no further than an id may
\* run ahead: a frame behind the cursor would never leave, and its age would turn every
\* later hole into a loss.
QueueAhead ==
  next # None => \A i \in queue : WrappingSub(i, next) <= AHEAD

\* The decoder gets frames in the order of their ids, each once, whatever order the
\* funnel completes them in, until the transmitter restarts its numbering.
InOrder == [][out' # out /\ out # None /\ out' # None => out < out']_vars

\* Every id the cursor has passed was shown, counted as lost (which asks for a repair of
\* the picture), or skipped as a phantom.
Accounted == next # None => next = base + released + framesLost + phantoms

=============================================================================
