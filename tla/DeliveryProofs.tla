--------------------------- MODULE DeliveryProofs ---------------------------
(***************************************************************************)
(* Proofs about the way from the air to the video decoder: the reorder     *)
(* stage by itself, for every window, every way the funnel completes       *)
(* frames and every restart of the numbering; and the reorder stage with   *)
(* the funnel and the block numbers, which keep what VideoFeed promises,   *)
(* for every stream of frames and every loss.  All as long as the ids do   *)
(* not come near the point where they wrap.                                *)
(***************************************************************************)
EXTENDS Delivery, SequenceTheorems, FiniteSetTheorems, WellFoundedInduction, TLAPS

\* The hypothesis of the results: fewer than 2^32 - 1000 frames were numbered.
NoWrap == MaxId + 1 + AHEAD < IdMod

\* The oldest frame of the queue exists (BTreeMap: the first key).
LEMMA FirstQueuedExists ==
  ASSUME queue \subseteq Ids, queue # {}
  PROVE  FirstQueued \in queue /\ \A i \in queue : FirstQueued <= i
<1>1. queue \subseteq Nat
  BY ReorderAssumption DEF Ids
<1>2. PICK x \in queue : \A y \in queue : <<y, x>> \notin OpToRel(<, Nat)
  BY <1>1, WFMin, NatLessThanWellFounded
<1>3. ASSUME NEW y \in queue PROVE x <= y
  <2>1. x \in Nat /\ y \in Nat
    BY <1>1
  <2>2. ~(y < x)
    BY <1>2, <2>1 DEF OpToRel
  <2>3. QED
    BY <2>1, <2>2
<1>4. QED
  BY <1>3 DEF FirstQueued

-----------------------------------------------------------------------------
(* The inductive invariant.                                                *)

\* QueueAhead without the wrap.
Straight ==
  next # None =>
    /\ next \in 0 .. MaxId + 1
    /\ \A i \in queue : next <= i /\ i <= next + AHEAD

\* What the decoder was given last is behind the cursor; nothing waits before a first frame.
OutBehind ==
  /\ next # None => (out # None => out < next) /\ base # None
  /\ next = None => /\ queue = {} /\ out = None
                    /\ released = 0 /\ framesLost = 0 /\ phantoms = 0

IInv == TypeOK /\ Straight /\ OutBehind /\ Accounted

\* Where the cursor is, for the arithmetic.
LEMMA Cursor ==
  ASSUME IInv, NoWrap, next # None
  PROVE  /\ next \in Nat /\ next <= MaxId + 1 /\ MaxId + 1 < IdMod /\ IdMod \in Nat /\ MaxId \in Nat
         /\ next \in Int /\ next \in Cursors /\ AHEAD \in Nat /\ AHEAD > 0
         /\ base \in Nat /\ released \in Nat /\ framesLost \in Nat /\ phantoms \in Nat
         /\ next = base + released + framesLost + phantoms
<1>1. MaxId \in Nat /\ IdMod \in Nat /\ AHEAD \in Nat /\ AHEAD > 0
  BY ReorderAssumption
<1>2. next \in 0 .. MaxId + 1 /\ base \in Ids
  BY DEF IInv, Straight, OutBehind, TypeOK
<1>3. QED
  BY <1>1, <1>2 DEF IInv, TypeOK, Accounted, NoWrap, Cursors, Ids

\* Ids are small numbers, and none of them is None.
LEMMA IdsFacts ==
  /\ MaxId \in Nat /\ IdMod \in Nat /\ MaxId < IdMod /\ None \notin Ids /\ None \notin Cursors
  /\ \A i \in Ids : i \in Nat /\ i <= MaxId /\ i \in Cursors
BY ReorderAssumption DEF Ids, Cursors

\* Before the first frame.
LEMMA InitIInv == NoWrap /\ Init => IInv
<1> SUFFICES ASSUME Init PROVE IInv
  OBVIOUS
<1>1. completed \in Seq(Ids) /\ age \in [Ids -> 0 .. MaxAge]
  BY ReorderAssumption DEF Init
<1>2. TypeOK
  BY <1>1 DEF Init, TypeOK
<1>3. QED
  BY <1>2 DEF Init, IInv, Straight, OutBehind, Accounted

-----------------------------------------------------------------------------
(* One lemma per action.                                                   *)

\* What a capture completes is a sequence of frames.
LEMMA BatchesAreSeqs == Batches \subseteq Seq(Ids)
BY ReorderAssumption DEF Batches

\* The steps that leave the cursor, the queue and the counts alone.
LEMMA QuietStep ==
  ASSUME IInv, UNCHANGED <<next, queue, out, base, counts>>,
         phase' \in {"recv", "insert", "release"}, completed' \in Seq(Ids),
         age' \in [Ids -> 0 .. MaxAge], asked' \in BOOLEAN, hold' \in Holds
  PROVE  IInv'
<1>1. /\ next' = next /\ queue' = queue /\ out' = out /\ base' = base
      /\ released' = released /\ framesLost' = framesLost /\ phantoms' = phantoms
  BY DEF counts
<1>2. TypeOK'
  BY <1>1 DEF IInv, TypeOK
<1>3. Straight' /\ OutBehind' /\ Accounted'
  BY <1>1 DEF IInv, Straight, OutBehind, Accounted
<1>4. QED
  BY <1>2, <1>3 DEF IInv

\* A capture completes some frames.
LEMMA CaptureStep ==
  ASSUME IInv, NEW c \in Seq(Ids), NEW a \in BOOLEAN, NEW h \in Holds, Capture(c, a, h)
  PROVE  IInv'
BY QuietStep DEF Capture, IInv, TypeOK

\* All that was completed is queued.
LEMMA InsertedStep == IInv /\ Inserted => IInv'
BY QuietStep DEF Inserted, IInv, TypeOK

\* Nothing more is ready.
LEMMA WaitStep == ASSUME IInv, NEW hole \in Holes, Wait(hole) PROVE IInv'
BY QuietStep DEF Wait, IInv, TypeOK

\* Time passes.
LEMMA TickStep == IInv /\ Tick => IInv'
<1> SUFFICES ASSUME IInv, Tick PROVE IInv'
  OBVIOUS
<1>1. age' \in [Ids -> 0 .. MaxAge]
  BY ReorderAssumption DEF Tick, IInv, TypeOK
<1>2. QED
  BY <1>1, QuietStep DEF Tick, IInv, TypeOK

\* A completed frame is queued, is too late, or starts the numbering over.
LEMMA InsertStep == NoWrap /\ IInv /\ Insert => IInv'
<1> SUFFICES ASSUME NoWrap, IInv, Insert PROVE IInv'
  OBVIOUS
<1> DEFINE i == Head(completed)
<1>1. i \in Ids /\ completed' \in Seq(Ids) /\ phase' = phase /\ hold' = hold
  BY DEF Insert, IInv, TypeOK
<1>2. i \in Nat /\ i <= MaxId /\ MaxId \in Nat /\ i \in Cursors /\ i # None
  BY <1>1, IdsFacts
<1>3. \/ InReach(i) /\ Enqueue(i)
      \/ UNCHANGED <<next, queue, age, asked, out, base, counts>>
      \/ Resync(i)
  BY DEF Insert
<1> HIDE DEF i
<1>4. CASE InReach(i) /\ Enqueue(i) /\ next = None
  <2>1. /\ queue' = {i} /\ next' = i /\ base' = i /\ age' = age /\ asked' = asked
        /\ out' = None /\ released' = released /\ framesLost' = framesLost
        /\ phantoms' = phantoms
    BY <1>4 DEF Enqueue, counts, IInv, OutBehind
  <2>2. released = 0 /\ framesLost = 0 /\ phantoms = 0
    BY <1>4 DEF IInv, OutBehind
  <2>3. TypeOK'
    BY <1>1, <1>2, <2>1 DEF IInv, TypeOK
  <2>4. Straight' /\ OutBehind' /\ Accounted'
    BY <1>2, <2>1, <2>2, ReorderAssumption DEF Straight, OutBehind, Accounted
  <2>5. QED
    BY <2>3, <2>4 DEF IInv
<1>5. CASE InReach(i) /\ Enqueue(i) /\ next # None
  <2>1. /\ queue' = queue \cup {i} /\ next' = next /\ base' = base /\ age' = age
        /\ asked' = asked /\ out' = out /\ released' = released
        /\ framesLost' = framesLost /\ phantoms' = phantoms
    BY <1>5 DEF Enqueue, counts
  <2>2. next <= i /\ i <= next + AHEAD
    BY <1>2, <1>5, Cursor DEF InReach, Ahead, WrappingSub, NoWrap
  <2>3. TypeOK'
    BY <1>1, <2>1 DEF IInv, TypeOK
  <2>4. Straight' /\ OutBehind' /\ Accounted'
    BY <1>5, <2>1, <2>2 DEF IInv, Straight, OutBehind, Accounted
  <2>5. QED
    BY <2>3, <2>4 DEF IInv
<1>6. CASE UNCHANGED <<next, queue, age, asked, out, base, counts>>
  BY <1>1, <1>6, QuietStep DEF IInv, TypeOK
<1>7. CASE Resync(i)
  <2>1. /\ queue' = {i} /\ next' = i /\ base' = i /\ asked' = FALSE /\ out' = None
        /\ released' = 0 /\ framesLost' = 0 /\ phantoms' = 0
        /\ age' \in [Ids -> 0 .. MaxAge]
    BY <1>7, ReorderAssumption DEF Resync
  <2>2. TypeOK'
    BY <1>1, <1>2, <2>1 DEF IInv, TypeOK
  <2>3. Straight' /\ OutBehind' /\ Accounted'
    BY <1>2, <2>1, ReorderAssumption DEF Straight, OutBehind, Accounted
  <2>4. QED
    BY <2>2, <2>3 DEF IInv
<1>8. QED
  BY <1>3, <1>4, <1>5, <1>6, <1>7

\* The frame at the cursor is released.
LEMMA DeliverStep == NoWrap /\ IInv /\ Deliver => IInv'
<1> SUFFICES ASSUME NoWrap, IInv, Deliver PROVE IInv'
  OBVIOUS
<1>1. /\ next \in queue /\ queue' = queue \ {next} /\ age' = [age EXCEPT ![next] = 0]
      /\ out' = next /\ released' = released + 1 /\ next' = WrappingInc(next)
      /\ phase' = phase /\ completed' = completed /\ asked' = asked /\ hold' = hold
      /\ base' = base /\ framesLost' = framesLost /\ phantoms' = phantoms
  BY DEF Deliver
<1>2. next \in Ids /\ next # None /\ next \in Nat /\ next <= MaxId
  BY <1>1, IdsFacts DEF IInv, TypeOK
<1>3. next' = next + 1 /\ next' # None /\ next' \in Cursors /\ next' \in 0 .. MaxId + 1
  BY <1>1, <1>2, Cursor, ReorderAssumption DEF WrappingInc, Cursors
<1>4. TypeOK'
  <2>1. age' \in [Ids -> 0 .. MaxAge]
    BY <1>1, ReorderAssumption DEF IInv, TypeOK
  <2>2. QED
    BY <1>1, <1>2, <1>3, <2>1 DEF IInv, TypeOK
<1>5. Straight'
  <2>1. ASSUME NEW i \in queue' PROVE next' <= i /\ i <= next' + AHEAD
    <3>1. i \in queue /\ i # next /\ i \in Nat
      BY <1>1, <2>1, IdsFacts DEF IInv, TypeOK
    <3>2. next <= i /\ i <= next + AHEAD
      BY <1>2, <3>1 DEF IInv, Straight
    <3>3. QED
      BY <1>2, <1>3, <3>1, <3>2, Cursor
  <2>2. QED
    BY <1>3, <2>1 DEF Straight
<1>6. OutBehind'
  BY <1>1, <1>2, <1>3 DEF IInv, OutBehind
<1>7. Accounted'
  BY <1>1, <1>2, <1>3, Cursor DEF Accounted
<1>8. QED
  BY <1>4, <1>5, <1>6, <1>7 DEF IInv

\* A hole is skipped at once.
LEMMA SkipPhantomStep ==
  ASSUME NoWrap, IInv, NEW hole \in Holes, SkipPhantom(hole)
  PROVE  IInv'
<1>1. /\ next # None /\ next \notin queue /\ queue # {}
      /\ next' = WrappingInc(next) /\ phantoms' = phantoms + 1
      /\ queue' = queue /\ age' = age /\ out' = out /\ released' = released
      /\ phase' = phase /\ completed' = completed /\ asked' = asked /\ hold' = hold
      /\ base' = base /\ framesLost' = framesLost
  BY DEF SkipPhantom, AtHole, Phantom
<1>2. ASSUME NEW i \in queue
      PROVE  i \in Nat /\ i <= MaxId /\ next + 1 <= i /\ i <= next + AHEAD
  <2>1. i \in Nat /\ i <= MaxId /\ i # next
    BY <1>1, IdsFacts DEF IInv, TypeOK
  <2>2. next <= i /\ i <= next + AHEAD
    BY <1>1 DEF IInv, Straight
  <2>3. next \in Nat
    BY <1>1, Cursor
  <2>4. QED
    BY <2>1, <2>2, <2>3
<1>3. next + 1 <= MaxId
  BY <1>1, <1>2, Cursor
<1>4. next' = next + 1 /\ next' # None /\ next' \in Cursors /\ next' \in 0 .. MaxId + 1
  BY <1>1, <1>3, Cursor, ReorderAssumption DEF WrappingInc, Cursors
<1>5. TypeOK'
  BY <1>1, <1>4 DEF IInv, TypeOK
<1>6. Straight'
  BY <1>1, <1>2, <1>4, Cursor DEF Straight
<1>7. OutBehind'
  <2>1. out # None => out < next
    BY <1>1 DEF IInv, OutBehind
  <2>2. out # None => out \in Nat
    BY IdsFacts DEF IInv, TypeOK
  <2>3. out # None => out < next + 1
    BY <1>1, <2>1, <2>2, Cursor
  <2>4. QED
    BY <1>1, <1>4, <2>3 DEF IInv, OutBehind
<1>8. Accounted'
  BY <1>1, <1>4, Cursor DEF Accounted
<1>9. QED
  BY <1>5, <1>6, <1>7, <1>8 DEF IInv

\* Holes are skipped as lost.
LEMMA SkipLostStep ==
  ASSUME NoWrap, IInv, NEW hole \in Holes, SkipLost(hole)
  PROVE  IInv'
<1> DEFINE f == FirstQueued
<1>1. /\ next # None /\ next \notin queue /\ queue # {}
      /\ next' = f /\ framesLost' = framesLost + WrappingSub(f, next)
      /\ queue' = queue /\ age' = age /\ out' = out /\ released' = released
      /\ phase' = phase /\ completed' = completed /\ asked' = asked /\ hold' = hold
      /\ base' = base /\ phantoms' = phantoms
  BY DEF SkipLost, AtHole, TimedOut
<1>2. f \in queue /\ \A i \in queue : f <= i
  BY <1>1, FirstQueuedExists DEF IInv, TypeOK
<1> HIDE DEF f
<1>3. /\ f \in Nat /\ f <= MaxId /\ f # None /\ f \in Cursors /\ f \in 0 .. MaxId + 1
      /\ next <= f
  <2>1. f \in Ids
    BY <1>2 DEF IInv, TypeOK
  <2>2. next <= f
    BY <1>1, <1>2 DEF IInv, Straight
  <2>3. QED
    BY <2>1, <2>2, IdsFacts
<1>4. WrappingSub(f, next) = f - next /\ f - next \in Nat
  BY <1>1, <1>3, Cursor DEF WrappingSub
<1>5. TypeOK'
  <2>1. framesLost' \in Nat
    BY <1>1, <1>4 DEF IInv, TypeOK
  <2>2. QED
    BY <1>1, <1>3, <2>1 DEF IInv, TypeOK
<1>6. Straight'
  <2>1. ASSUME NEW i \in queue PROVE f <= i /\ i <= f + AHEAD
    <3>1. i \in Nat /\ i <= next + AHEAD
      BY <1>1, IdsFacts DEF IInv, TypeOK, Straight
    <3>2. QED
      BY <1>1, <1>2, <1>3, <3>1, Cursor
  <2>2. QED
    BY <1>1, <1>3, <2>1 DEF Straight
<1>7. OutBehind'
  <2>1. out # None => out < next /\ out \in Nat
    BY <1>1, IdsFacts DEF IInv, TypeOK, OutBehind
  <2>2. out # None => out < f
    BY <1>1, <1>3, <2>1, Cursor
  <2>3. QED
    BY <1>1, <1>3, <2>2 DEF IInv, OutBehind
<1>8. Accounted'
  BY <1>1, <1>3, <1>4, Cursor DEF Accounted
<1>9. QED
  BY <1>5, <1>6, <1>7, <1>8 DEF IInv

\* Every step of the stage keeps the invariant.
LEMMA NextIInv == NoWrap /\ IInv /\ [Next]_vars => IInv'
<1> SUFFICES ASSUME NoWrap, IInv, [Next]_vars PROVE IInv'
  OBVIOUS
<1>1. CASE \E c \in Batches, a \in BOOLEAN, h \in Holds : Capture(c, a, h)
  BY <1>1, CaptureStep, BatchesAreSeqs
<1>2. CASE Insert \/ Inserted
  BY <1>2, InsertStep, InsertedStep
<1>3. CASE Release
  BY <1>3, DeliverStep, SkipPhantomStep, SkipLostStep, WaitStep DEF Release
<1>4. CASE Tick
  BY <1>4, TickStep
<1>5. CASE UNCHANGED vars
  BY <1>5, QuietStep DEF vars, IInv, TypeOK
<1>6. QED
  BY <1>1, <1>2, <1>3, <1>4, <1>5 DEF Next

\* The invariant holds in every behaviour of the stage.
THEOREM Inductive == NoWrap => (Spec => []IInv)
<1> SUFFICES ASSUME NoWrap PROVE Spec => []IInv
  OBVIOUS
<1>1. Init => IInv
  BY InitIInv
<1>2. IInv /\ [Next]_vars => IInv'
  BY NextIInv
<1>3. QED
  BY <1>1, <1>2, PTL DEF Spec

-----------------------------------------------------------------------------
(* The results.                                                            *)

\* Every variable keeps its type: the cursor and the queue hold ids, the counts do not
\* go below zero.
THEOREM TypeCorrect == NoWrap => (Spec => []TypeOK)
<1> SUFFICES ASSUME NoWrap PROVE Spec => []TypeOK
  OBVIOUS
<1>1. IInv => TypeOK
  BY DEF IInv
<1>2. QED
  BY <1>1, Inductive, PTL

\* No frame is queued behind the cursor or further ahead than the window, whatever ids
\* arrive: the queue is bounded and every frame in it can still be released.
THEOREM QueueStaysAhead == NoWrap => (Spec => []QueueAhead)
<1> SUFFICES ASSUME NoWrap PROVE Spec => []QueueAhead
  OBVIOUS
<1>1. IInv => QueueAhead
  <2> SUFFICES ASSUME IInv, next # None, NEW i \in queue
               PROVE  WrappingSub(i, next) <= AHEAD
    BY DEF QueueAhead
  <2>1. next <= i /\ i <= next + AHEAD /\ i \in Nat
    BY IdsFacts DEF IInv, TypeOK, Straight
  <2>2. QED
    BY <2>1, Cursor DEF WrappingSub
<1>2. QED
  BY <1>1, Inductive, PTL

\* The release loop passes no id silently: each is delivered, counted lost or skipped as a
\* phantom.
THEOREM EveryIdAccounted == NoWrap => (Spec => []Accounted)
<1> SUFFICES ASSUME NoWrap PROVE Spec => []Accounted
  OBVIOUS
<1>1. IInv => Accounted
  BY DEF IInv
<1>2. QED
  BY <1>1, Inductive, PTL

\* The video decoder is given frames in the order of their ids, each once, until the
\* numbering restarts, whatever the order in which the funnel completes them.
THEOREM DecoderOrder == NoWrap => (Spec => InOrder)
<1> SUFFICES ASSUME NoWrap PROVE Spec => InOrder
  OBVIOUS
<1>1. ASSUME IInv, [Next]_vars, out' # out, out # None, out' # None PROVE out < out'
  <2>1. Deliver
    <3>1. CASE Insert
      BY <1>1, <3>1 DEF Insert, Enqueue, Resync
    <3>2. CASE Inserted \/ Tick \/ UNCHANGED vars
      BY <1>1, <3>2 DEF Inserted, Tick, vars
    <3>3. CASE \E c \in Batches, a \in BOOLEAN, h \in Holds : Capture(c, a, h)
      BY <1>1, <3>3 DEF Capture
    <3>4. CASE \E hole \in Holes : SkipPhantom(hole) \/ SkipLost(hole) \/ Wait(hole)
      BY <1>1, <3>4 DEF SkipPhantom, SkipLost, Wait
    <3>5. QED
      BY <1>1, <3>1, <3>2, <3>3, <3>4 DEF Next, Release
  <2>2. out' = next /\ next # None
    BY <2>1, <1>1, IdsFacts DEF Deliver, IInv, TypeOK
  <2>3. QED
    BY <1>1, <2>2 DEF IInv, OutBehind
<1>2. IInv /\ [Next]_vars => [out' # out /\ out # None /\ out' # None => out < out']_vars
  BY <1>1
<1>3. QED
  BY <1>2, Inductive, PTL DEF Spec, InOrder

-----------------------------------------------------------------------------
(* The stream of blocks.                                                   *)

Parts == [id : Ids, par : BOOLEAN, idx : Nat]
Streams(f) == f = [n \in 0 .. MaxId + 1 |-> IF n = 0 THEN <<>> ELSE f[n - 1] \o BlocksOf(n - 1)]

\* A set of numbers has a smallest one.
LEMMA Smallest ==
  ASSUME NEW S \in SUBSET Nat, S # {}
  PROVE  \E x \in S : \A y \in S : x <= y
<1>1. PICK x \in S : \A y \in S : <<y, x>> \notin OpToRel(<, Nat)
  BY WFMin, NatLessThanWellFounded
<1>2. ASSUME NEW y \in S PROVE x <= y
  <2>1. ~(y < x) BY <1>1 DEF OpToRel
  <2>2. x \in Nat /\ y \in Nat OBVIOUS
  <2>3. QED BY <2>1, <2>2
<1>3. QED BY <1>2

\* A frame is cut into blocks of its own.
LEMMA BlocksTyped ==
  ASSUME NEW i \in Ids
  PROVE  BlocksOf(i) \in Seq(Parts) /\ Data[i] \in Nat /\ Parity[i] \in Nat
<1>1. Data[i] \in Nat /\ Parity[i] \in Nat BY DeliveryAssumption, ReassemblerAssumption
<1>2. [n \in 1 .. Data[i] |-> [id |-> i, par |-> FALSE, idx |-> n - 1]] \in Seq(Parts)
  <2>1. ASSUME NEW n \in 1 .. Data[i] PROVE [id |-> i, par |-> FALSE, idx |-> n - 1] \in Parts
    BY <1>1 DEF Parts
  <2>2. QED BY <1>1, <2>1
<1>3. [n \in 1 .. Parity[i] |-> [id |-> i, par |-> TRUE, idx |-> n - 1]] \in Seq(Parts)
  <2>1. ASSUME NEW n \in 1 .. Parity[i] PROVE [id |-> i, par |-> TRUE, idx |-> n - 1] \in Parts
    BY <1>1 DEF Parts
  <2>2. QED BY <1>1, <2>1
<1>4. QED BY <1>1, <1>2, <1>3, ConcatProperties DEF BlocksOf

\* The recursion of Stream defines a function, and its values are sequences of blocks.
LEMMA StreamsExist == \E f \in [0 .. MaxId + 1 -> Seq(Parts)] : Streams(f)
<1> DEFINE T == Seq(Parts)
           Good(m, f) == /\ f \in [0 .. m -> T] /\ f[0] = <<>>
                         /\ \A n \in 1 .. m : f[n] = f[n - 1] \o BlocksOf(n - 1)
           Bad == {m \in 0 .. MaxId + 1 : ~\E f \in [0 .. m -> T] : Good(m, f)}
<1>0. MaxId \in Nat BY ReorderAssumption
<1>1. <<>> \in T BY EmptySeq
<1>2. \A a, b \in T : a \o b \in T BY ConcatProperties
<1>3. \A n \in 1 .. MaxId + 1 : BlocksOf(n - 1) \in T
  <2>1. ASSUME NEW n \in 1 .. MaxId + 1 PROVE n - 1 \in Ids BY <1>0 DEF Ids
  <2>2. QED BY <2>1, BlocksTyped
<1> HIDE DEF T
<1>4. Bad = {}
  <2> SUFFICES ASSUME Bad # {} PROVE FALSE OBVIOUS
  <2>1. Bad \in SUBSET Nat
    <3>1. Bad \subseteq 0 .. MaxId + 1 OBVIOUS
    <3>2. 0 .. MaxId + 1 \subseteq Nat BY <1>0
    <3> HIDE DEF Bad
    <3>3. QED BY <3>1, <3>2
  <2>2. PICK m \in Bad : \A y \in Bad : m <= y BY <2>1, Smallest
  <2>3. m \in Nat /\ m <= MaxId + 1 BY <1>0
  <2>4. CASE m = 0
    <3> DEFINE g == [n \in 0 .. 0 |-> <<>>]
    <3>1. g \in [0 .. 0 -> T] /\ g[0] = <<>> BY <1>1
    <3>2. Good(0, g) BY <3>1
    <3>3. QED BY <2>4, <3>1, <3>2
  <2>5. CASE m # 0
    <3>1. m - 1 \in 0 .. MaxId + 1 /\ ~(m <= m - 1) /\ m \in 1 .. MaxId + 1 BY <1>0, <2>3, <2>5
    <3>2. m - 1 \notin Bad BY <2>2, <3>1
    <3>3. PICK f \in [0 .. m - 1 -> T] : Good(m - 1, f) BY <3>1, <3>2
    <3>4. BlocksOf(m - 1) \in T BY <1>3, <3>1
    <3>5. m - 1 \in 0 .. m - 1 BY <3>1, <2>3
    <3>6. f[m - 1] \o BlocksOf(m - 1) \in T BY <1>2, <3>3, <3>4, <3>5
    <3> DEFINE g == [n \in 0 .. m |-> IF n = m THEN f[m - 1] \o BlocksOf(m - 1) ELSE f[n]]
    <3>7. g \in [0 .. m -> T]
      <4>1. ASSUME NEW n \in 0 .. m, n # m PROVE f[n] \in T
        <5>1. n \in 0 .. m - 1 BY <4>1, <2>3
        <5>2. QED BY <5>1
      <4>2. QED BY <4>1, <3>6
    <3>8. g[0] = <<>>
      <4>1. 0 \in 0 .. m BY <2>3
      <4>2. QED BY <4>1, <2>5, <3>3
    <3>9. ASSUME NEW n \in 1 .. m PROVE g[n] = g[n - 1] \o BlocksOf(n - 1)
      <4>1. n \in 0 .. m /\ n - 1 \in 0 .. m /\ n - 1 # m BY <2>3
      <4>2. g[n - 1] = f[n - 1] BY <4>1
      <4>3. CASE n = m BY <4>1, <4>2, <4>3
      <4>4. CASE n # m
        <5>1. n \in 1 .. m - 1 BY <4>4, <2>3
        <5>2. f[n] = f[n - 1] \o BlocksOf(n - 1) BY <5>1, <3>3
        <5>3. g[n] = f[n] BY <4>1, <4>4
        <5>4. QED BY <4>2, <5>2, <5>3
      <4>5. QED BY <4>3, <4>4
    <3>10. Good(m, g) BY <3>7, <3>8, <3>9
    <3> HIDE DEF g
    <3>11. QED BY <3>7, <3>10
  <2>6. QED BY <2>4, <2>5
<1>5. MaxId + 1 \in 0 .. MaxId + 1 BY <1>0
<1>6. PICK f \in [0 .. MaxId + 1 -> T] : Good(MaxId + 1, f) BY <1>4, <1>5
<1> DEFINE h == [n \in 0 .. MaxId + 1 |-> IF n = 0 THEN <<>> ELSE f[n - 1] \o BlocksOf(n - 1)]
<1>7. ASSUME NEW n \in 0 .. MaxId + 1 PROVE h[n] = f[n]
  <2>1. CASE n = 0 BY <2>1, <1>6
  <2>2. CASE n # 0
    <3>1. n \in 1 .. MaxId + 1 BY <2>2, <1>0
    <3>2. QED BY <2>2, <3>1, <1>6
  <2>3. QED BY <2>1, <2>2
<1>8. f = h BY <1>7
<1>9. Streams(f) BY <1>8 DEF Streams
<1>10. QED BY <1>9 DEF T

\* What is sent is the last value of that function.
LEMMA StreamOf ==
  \E g \in [0 .. MaxId + 1 -> Seq(Parts)] : Streams(g) /\ Stream = g[MaxId + 1]
<1>0. MaxId \in Nat /\ MaxId + 1 \in 0 .. MaxId + 1 BY ReorderAssumption
<1> DEFINE f == CHOOSE g : Streams(g)
<1>1. Streams(f) BY StreamsExist
<1>2. Stream = f[MaxId + 1] BY DEF Stream, Streams
<1> HIDE DEF f
<1>3. PICK g \in [0 .. MaxId + 1 -> Seq(Parts)] : Streams(g) BY StreamsExist
<1> DEFINE Bad == {m \in 0 .. MaxId + 1 : f[m] # g[m]}
<1>4. Bad = {}
  <2> SUFFICES ASSUME Bad # {} PROVE FALSE OBVIOUS
  <2>1. Bad \in SUBSET Nat
    <3>1. Bad \subseteq 0 .. MaxId + 1 OBVIOUS
    <3>2. 0 .. MaxId + 1 \subseteq Nat BY <1>0
    <3> HIDE DEF Bad
    <3>3. QED BY <3>1, <3>2
  <2>2. PICK m \in Bad : \A y \in Bad : m <= y BY <2>1, Smallest
  <2>3. m \in 0 .. MaxId + 1 /\ m \in Nat BY <1>0
  <2>4. f[m] = (IF m = 0 THEN <<>> ELSE f[m - 1] \o BlocksOf(m - 1)) BY <1>1, <2>3 DEF Streams
  <2>5. g[m] = (IF m = 0 THEN <<>> ELSE g[m - 1] \o BlocksOf(m - 1)) BY <1>3, <2>3 DEF Streams
  <2>6. m # 0 BY <2>4, <2>5
  <2>7. m - 1 \in 0 .. MaxId + 1 /\ ~(m <= m - 1) BY <1>0, <2>3, <2>6
  <2>8. f[m - 1] = g[m - 1] BY <2>2, <2>7
  <2>9. QED BY <2>4, <2>5, <2>8
<1>5. QED BY <1>0, <1>2, <1>3, <1>4

\* It is a sequence of blocks.
LEMMA StreamTyped ==
  /\ Stream \in Seq(Parts) /\ Len(Stream) \in Nat
  /\ \A s \in Seqs : Stream[s] \in Parts
  /\ IsFiniteSet(Seqs)
<1>1. MaxId + 1 \in 0 .. MaxId + 1 BY ReorderAssumption
<1>2. Stream \in Seq(Parts) BY <1>1, StreamOf
<1>3. Len(Stream) \in Nat /\ \A s \in 1 .. Len(Stream) : Stream[s] \in Parts BY <1>2
<1>4. 1 \in Int /\ Len(Stream) \in Int BY <1>3
<1>5. IsFiniteSet(1 .. Len(Stream)) BY <1>4, FS_Interval
<1>6. QED BY <1>2, <1>3, <1>5 DEF Seqs

\* Behind blocks of earlier frames the blocks of the next one are in order with them.
FrameByFrame(q) == \A s, t \in 1 .. Len(q) : q[s].id < q[t].id => s < t
LEMMA NextFrame ==
  ASSUME NEW a \in Seq(Parts), NEW n \in Ids, FrameByFrame(a), \A s \in 1 .. Len(a) : a[s].id < n
  PROVE  /\ FrameByFrame(a \o BlocksOf(n))
         /\ \A s \in 1 .. Len(a \o BlocksOf(n)) : (a \o BlocksOf(n))[s].id < n + 1
<1> DEFINE b == BlocksOf(n)
           q == a \o b
<1>1. n \in Nat BY IdsFacts
<1>2. b \in Seq(Parts) /\ \A s \in 1 .. Len(b) : b[s].id = n
  <2>1. Data[n] \in Nat /\ Parity[n] \in Nat /\ b \in Seq(Parts) BY BlocksTyped
  <2>2. QED BY <2>1 DEF BlocksOf
<1> HIDE DEF b
<1>3. /\ Len(q) = Len(a) + Len(b) /\ Len(a) \in Nat /\ Len(b) \in Nat
      /\ \A s \in 1 .. Len(q) : q[s] = IF s <= Len(a) THEN a[s] ELSE b[s - Len(a)]
  BY <1>2, ConcatProperties
<1> HIDE DEF q
<1>4. ASSUME NEW s \in 1 .. Len(q)
      PROVE  \/ s \in 1 .. Len(a) /\ q[s] = a[s]
             \/ s > Len(a) /\ q[s].id = n
  <2>1. CASE s <= Len(a) BY <1>3, <2>1
  <2>2. CASE ~(s <= Len(a))
    <3>1. s - Len(a) \in 1 .. Len(b) BY <1>3, <2>2
    <3>2. QED BY <1>2, <1>3, <2>2, <3>1
  <2>3. QED BY <2>1, <2>2
<1>5. ASSUME NEW s \in 1 .. Len(a) PROVE a[s].id \in Nat /\ a[s].id < n
  <2>1. a[s] \in Parts OBVIOUS
  <2>2. QED BY <2>1, IdsFacts DEF Parts
<1>6. ASSUME NEW s \in 1 .. Len(q) PROVE q[s].id < n + 1
  BY <1>1, <1>4, <1>5
<1>7. ASSUME NEW s \in 1 .. Len(q), NEW t \in 1 .. Len(q), q[s].id < q[t].id PROVE s < t
  <2>1. CASE s \in 1 .. Len(a) /\ q[s] = a[s]
    <3>1. CASE t \in 1 .. Len(a) /\ q[t] = a[t] BY <1>7, <2>1, <3>1 DEF FrameByFrame
    <3>2. CASE t > Len(a) BY <1>3, <2>1, <3>2
    <3>3. QED BY <1>4, <3>1, <3>2
  <2>2. CASE q[s].id = n
    <3>1. q[t].id < n + 1 /\ q[t].id \in Nat BY <1>1, <1>4, <1>5
    <3>2. QED BY <1>1, <1>7, <2>2, <3>1
  <2>3. QED BY <1>4, <2>1, <2>2
<1>8. QED BY <1>6, <1>7 DEF FrameByFrame, q, b

\* The blocks of a frame are sent behind those of the frames before it.
LEMMA StreamInOrder == FrameByFrame(Stream)
<1>0. MaxId \in Nat /\ MaxId + 1 \in 0 .. MaxId + 1 BY ReorderAssumption
<1>1. PICK g \in [0 .. MaxId + 1 -> Seq(Parts)] : Streams(g) /\ Stream = g[MaxId + 1] BY StreamOf
<1> DEFINE Good(m) == FrameByFrame(g[m]) /\ \A s \in 1 .. Len(g[m]) : g[m][s].id < m
           Bad == {m \in 0 .. MaxId + 1 : ~Good(m)}
<1>2. Bad = {}
  <2> SUFFICES ASSUME Bad # {} PROVE FALSE OBVIOUS
  <2>1. Bad \in SUBSET Nat
    <3>1. Bad \subseteq 0 .. MaxId + 1 OBVIOUS
    <3>2. 0 .. MaxId + 1 \subseteq Nat BY <1>0
    <3> HIDE DEF Bad
    <3>3. QED BY <3>1, <3>2
  <2>2. PICK m \in Bad : \A y \in Bad : m <= y BY <2>1, Smallest
  <2>3. m \in 0 .. MaxId + 1 /\ m \in Nat /\ ~Good(m) BY <1>0
  <2>4. g[m] = (IF m = 0 THEN <<>> ELSE g[m - 1] \o BlocksOf(m - 1)) BY <1>1, <2>3 DEF Streams
  <2>5. CASE m = 0
    <3>1. g[m] = <<>> BY <2>4, <2>5
    <3>2. Good(m) BY <3>1 DEF FrameByFrame
    <3>3. QED BY <2>3, <3>2
  <2>6. CASE m # 0
    <3>1. /\ m - 1 \in 0 .. MaxId + 1 /\ m - 1 \in Ids /\ ~(m <= m - 1) /\ (m - 1) + 1 = m
      BY <1>0, <2>3, <2>6 DEF Ids
    <3>2. Good(m - 1) BY <2>2, <3>1
    <3>3. g[m - 1] \in Seq(Parts) BY <3>1
    <3>4. g[m] = g[m - 1] \o BlocksOf(m - 1) BY <2>4, <2>6
    <3>5. /\ FrameByFrame(g[m - 1] \o BlocksOf(m - 1))
          /\ \A s \in 1 .. Len(g[m - 1] \o BlocksOf(m - 1)) :
               (g[m - 1] \o BlocksOf(m - 1))[s].id < (m - 1) + 1
      BY <3>1, <3>2, <3>3, NextFrame
    <3>6. Good(m) BY <3>1, <3>4, <3>5
    <3>7. QED BY <2>3, <3>6
  <2>7. QED BY <2>5, <2>6
<1>3. QED BY <1>0, <1>1, <1>2

-----------------------------------------------------------------------------
(* The funnel hands over what was read.                                    *)

\* What was read of the data of frame i, and of its parity.
DataRead(i, had) == {s \in SeqsOf(i) \cap had : ~Stream[s].par}
RowsRead(i, had) == {s \in SeqsOf(i) \cap had : Stream[s].par}

Entries == [data : SUBSET Nat, rows : SUBSET Nat, born : Nat, last : Nat]
EntryBacked(i, e, had) ==
  /\ e \in Entries
  /\ e.data \subseteq {Stream[s].idx : s \in DataRead(i, had)}
  /\ e.rows \subseteq {Stream[s].idx : s \in RowsRead(i, had)}
FunnelBacked(f, had) ==
  /\ f = [pending |-> f.pending, done |-> f.done]
  /\ DOMAIN f.pending \subseteq Ids
  /\ \A i \in DOMAIN f.pending : EntryBacked(i, f.pending[i], had)

\* Numbers of blocks are no more than the blocks.
LEMMA FewerNumbers ==
  ASSUME NEW S \in SUBSET Seqs, NEW T, T \subseteq {Stream[s].idx : s \in S}
  PROVE  /\ IsFiniteSet(S) /\ IsFiniteSet(T)
         /\ Cardinality(S) \in Nat /\ Cardinality(T) \in Nat
         /\ Cardinality(T) <= Cardinality(S)
<1> DEFINE R == {s \in S : Stream[s].idx \in T}
           f == [s \in R |-> Stream[s].idx]
<1>1. IsFiniteSet(S) /\ Cardinality(S) \in Nat BY StreamTyped, FS_Subset, FS_CardinalityType
<1>2. R \in SUBSET S OBVIOUS
<1>3. IsFiniteSet(R) /\ Cardinality(R) <= Cardinality(S) BY <1>1, <1>2, FS_Subset
<1>4. f \in Surjection(R, T) BY DEF Surjection
<1>5. IsFiniteSet(T) /\ Cardinality(T) <= Cardinality(R) BY <1>3, <1>4, FS_Surjection
<1>6. Cardinality(R) \in Nat /\ Cardinality(T) \in Nat BY <1>3, <1>5, FS_CardinalityType
<1> HIDE DEF R, f
<1>7. Cardinality(T) <= Cardinality(S) BY <1>1, <1>3, <1>5, <1>6
<1>8. QED BY <1>1, <1>5, <1>6, <1>7

\* The data and the parity that were read are what was read.
LEMMA ReadParts ==
  ASSUME NEW i, NEW had
  PROVE  LET here == SeqsOf(i) \cap had IN
         /\ DataRead(i, had) \in SUBSET Seqs /\ RowsRead(i, had) \in SUBSET Seqs
         /\ IsFiniteSet(here) /\ Cardinality(here) \in Nat
         /\ Cardinality(here) = Cardinality(DataRead(i, had)) + Cardinality(RowsRead(i, had))
         /\ Cardinality(DataRead(i, had)) \in Nat /\ Cardinality(RowsRead(i, had)) \in Nat
<1> DEFINE here == SeqsOf(i) \cap had
           D == DataRead(i, had)
           R == RowsRead(i, had)
<1>1. D \in SUBSET Seqs /\ R \in SUBSET Seqs /\ here \in SUBSET Seqs
  BY DEF DataRead, RowsRead, SeqsOf
<1>2. here = D \cup R /\ D \cap R = {} BY DEF DataRead, RowsRead
<1> HIDE DEF here, D, R
<1>3. IsFiniteSet(D) /\ IsFiniteSet(R) /\ IsFiniteSet(here) BY <1>1, StreamTyped, FS_Subset
<1>4. Cardinality(D) \in Nat /\ Cardinality(R) \in Nat /\ Cardinality(here) \in Nat
  BY <1>3, FS_CardinalityType
<1>5. Cardinality(D \cup R) = Cardinality(D) + Cardinality(R) - Cardinality(D \cap R)
  BY <1>3, FS_Union
<1>6. Cardinality(D \cap R) = 0 BY <1>2, FS_EmptySet
<1>7. Cardinality(here) = Cardinality(D) + Cardinality(R) BY <1>2, <1>4, <1>5, <1>6
<1>8. QED BY <1>1, <1>3, <1>4, <1>7 DEF here, D, R

\* A frame the parity completes is one of which enough was read.
LEMMA SolvableEnough ==
  ASSUME NEW i \in Ids, NEW e, NEW had, EntryBacked(i, e, had), Solvable(i, e)
  PROVE  EnoughRead(i, had)
<1> DEFINE here == SeqsOf(i) \cap had
           A == 0 .. Data[i] - 1
           D == DataRead(i, had)
           R == RowsRead(i, had)
<1>1. Data[i] \in Nat BY BlocksTyped
<1>2. IsFiniteSet(A) /\ Cardinality(A) = Data[i]
  <2>1. 0 \in Int /\ Data[i] - 1 \in Int BY <1>1
  <2>2. /\ IsFiniteSet(0 .. Data[i] - 1)
        /\ Cardinality(0 .. Data[i] - 1) = (IF 0 > Data[i] - 1 THEN 0 ELSE Data[i] - 1 - 0 + 1)
    BY <2>1, FS_Interval
  <2>3. QED BY <1>1, <2>2
<1>3. /\ Cardinality(here) = Cardinality(D) + Cardinality(R) /\ Cardinality(here) \in Nat
      /\ Cardinality(D) \in Nat /\ Cardinality(R) \in Nat
      /\ D \in SUBSET Seqs /\ R \in SUBSET Seqs
  BY ReadParts
<1>4. e.data \subseteq {Stream[s].idx : s \in D} /\ e.rows \subseteq {Stream[s].idx : s \in R}
  BY DEF EntryBacked
<1>5. Cardinality(A \ e.data) <= Cardinality(e.rows) BY DEF Solvable, Missing
<1> HIDE DEF A, D, R, here
<1>6. Cardinality(e.rows) \in Nat /\ Cardinality(e.rows) <= Cardinality(R)
  BY <1>3, <1>4, FewerNumbers
<1>7. A \cap e.data \subseteq {Stream[s].idx : s \in D} BY <1>4
<1>8. Cardinality(A \cap e.data) \in Nat /\ Cardinality(A \cap e.data) <= Cardinality(D)
  BY <1>3, <1>7, FewerNumbers
<1>9. Cardinality(A \ e.data) = Cardinality(A) - Cardinality(A \cap e.data)
  BY <1>2, FS_Difference
<1>10. Cardinality(here) >= Data[i] BY <1>1, <1>2, <1>3, <1>5, <1>6, <1>8, <1>9
<1>11. QED BY <1>10 DEF here, EnoughRead

\* So is one that is handed over in part.
LEMMA WorthwhileEnough ==
  ASSUME NEW i \in Ids, NEW e, NEW had, EntryBacked(i, e, had), Worthwhile(i, e)
  PROVE  EnoughRead(i, had)
<1>1. Data[i] \in Nat BY BlocksTyped
<1>2. DataRead(i, had) \in SUBSET Seqs /\ Cardinality(DataRead(i, had)) \in Nat BY ReadParts
<1>3. Cardinality(e.data) \in Nat /\ Cardinality(e.data) <= Cardinality(DataRead(i, had))
  BY <1>2, FewerNumbers DEF EntryBacked
<1>4. 10 * Cardinality(e.data) >= 6 * Data[i] BY DEF Worthwhile
<1>5. 10 * Cardinality(DataRead(i, had)) >= 6 * Data[i] BY <1>1, <1>2, <1>3, <1>4
<1>6. QED BY <1>5 DEF EnoughRead, DataRead

\* Enough stays enough.
LEMMA EnoughGrows ==
  ASSUME NEW i \in Ids, NEW had, NEW more, had \subseteq more, EnoughRead(i, had)
  PROVE  EnoughRead(i, more)
<1>1. /\ Cardinality(SeqsOf(i) \cap had) \in Nat /\ Cardinality(SeqsOf(i) \cap more) \in Nat
      /\ Cardinality(DataRead(i, had)) \in Nat /\ Cardinality(DataRead(i, more)) \in Nat
      /\ IsFiniteSet(SeqsOf(i) \cap more) /\ DataRead(i, more) \in SUBSET Seqs
  BY ReadParts
<1>2. IsFiniteSet(DataRead(i, more)) BY <1>1, StreamTyped, FS_Subset
<1>3. /\ SeqsOf(i) \cap had \in SUBSET (SeqsOf(i) \cap more)
      /\ DataRead(i, had) \in SUBSET DataRead(i, more)
  BY DEF DataRead
<1>4. /\ Cardinality(SeqsOf(i) \cap had) <= Cardinality(SeqsOf(i) \cap more)
      /\ Cardinality(DataRead(i, had)) <= Cardinality(DataRead(i, more))
  BY <1>1, <1>2, <1>3, FS_Subset
<1>5. Data[i] \in Nat BY BlocksTyped
<1>6. CASE Cardinality(SeqsOf(i) \cap had) >= Data[i]
  <2>1. Cardinality(SeqsOf(i) \cap more) >= Data[i] BY <1>1, <1>4, <1>5, <1>6
  <2>2. QED BY <2>1 DEF EnoughRead
<1>7. CASE 10 * Cardinality(DataRead(i, had)) >= 6 * Data[i]
  <2>1. 10 * Cardinality(DataRead(i, more)) >= 6 * Data[i] BY <1>1, <1>4, <1>5, <1>7
  <2>2. QED BY <2>1 DEF EnoughRead, DataRead
<1>8. QED BY <1>6, <1>7 DEF EnoughRead, DataRead

\* What backs an entry backs it still when more was read.
LEMMA BackedGrows ==
  ASSUME NEW f, NEW had, NEW more, had \subseteq more, FunnelBacked(f, had)
  PROVE  FunnelBacked(f, more)
<1>1. \A i : /\ DataRead(i, had) \subseteq DataRead(i, more)
             /\ RowsRead(i, had) \subseteq RowsRead(i, more)
  BY DEF DataRead, RowsRead
<1>2. QED BY <1>1 DEF FunnelBacked, EntryBacked

\* A block that was read fills in its entry.
LEMMA FilledBacked ==
  ASSUME NEW had, NEW s \in Seqs, s \in had, NEW e, EntryBacked(Stream[s].id, e, had)
  PROVE  EntryBacked(Stream[s].id, Filled(e, Stream[s]), had)
<1> DEFINE b == Stream[s]
<1>1. b \in Parts BY StreamTyped
<1>2. b.idx \in Nat /\ s \in SeqsOf(b.id) BY <1>1 DEF Parts, SeqsOf
<1>3. e \in Entries /\ 0 \in Nat BY DEF EntryBacked
<1>4. CASE b.par
  <2>1. e.rows \cup {b.idx} \in SUBSET Nat BY <1>2, <1>3 DEF Entries
  <2>2. Filled(e, b) = [e EXCEPT !.rows = e.rows \cup {b.idx}, !.last = 0] BY <1>4 DEF Filled
  <2>3. /\ Filled(e, b) \in Entries
        /\ Filled(e, b).data = e.data /\ Filled(e, b).rows = e.rows \cup {b.idx}
    BY <1>3, <2>1, <2>2 DEF Entries
  <2>4. s \in RowsRead(b.id, had) BY <1>2, <1>4 DEF RowsRead
  <2>5. QED BY <2>3, <2>4 DEF EntryBacked
<1>5. CASE ~b.par
  <2>1. e.data \cup {b.idx} \in SUBSET Nat BY <1>2, <1>3 DEF Entries
  <2>2. Filled(e, b) = [e EXCEPT !.data = e.data \cup {b.idx}, !.last = 0] BY <1>5 DEF Filled
  <2>3. /\ Filled(e, b) \in Entries
        /\ Filled(e, b).rows = e.rows /\ Filled(e, b).data = e.data \cup {b.idx}
    BY <1>3, <2>1, <2>2 DEF Entries
  <2>4. s \in DataRead(b.id, had) BY <1>2, <1>5 DEF DataRead
  <2>5. QED BY <2>3, <2>4 DEF EntryBacked
<1>6. QED BY <1>4, <1>5

\* push.
LEMMA PushBacked ==
  ASSUME NEW f, NEW had, FunnelBacked(f, had), NEW s \in Seqs, s \in had
  PROVE  LET pushed == Push(f, Stream[s]) IN
         /\ FunnelBacked(pushed.funnel, had) /\ pushed.out \subseteq {Stream[s].id}
         /\ \A i \in pushed.out : EnoughRead(i, had)
<1> DEFINE b == Stream[s]
           e == Filled(EntryOf(f, b.id), b)
           pushed == Push(f, b)
<1>1. b.id \in Ids BY StreamTyped DEF Parts
<1>2. EntryBacked(b.id, NewEntry, had)
  <2>1. NewEntry \in Entries BY DEF NewEntry, Entries
  <2>2. NewEntry.data = {} /\ NewEntry.rows = {} BY DEF NewEntry
  <2>3. QED BY <2>1, <2>2 DEF EntryBacked
<1>3. EntryBacked(b.id, EntryOf(f, b.id), had)
  BY <1>2 DEF EntryOf, HasPartial, FunnelBacked
<1>4. EntryBacked(b.id, e, had) BY <1>3, FilledBacked
<1> HIDE DEF e
<1>5. \/ pushed = [funnel |-> f, out |-> {}]
      \/ Solvable(b.id, e) /\ pushed = [funnel |-> Completed(f, b.id), out |-> {b.id}]
      \/ pushed = [funnel |-> SetEntry(f, b.id, e), out |-> {}]
  BY DEF Push, e
<1> HIDE DEF pushed
<1>6. FunnelBacked(Completed(f, b.id), had)
  BY DEF Completed, FunnelBacked, Restrict
<1>7. FunnelBacked(SetEntry(f, b.id, e), had)
  <2> DEFINE p == [j \in DOMAIN f.pending \cup {b.id} |-> IF j = b.id THEN e ELSE f.pending[j]]
  <2>1. SetEntry(f, b.id, e) = [f EXCEPT !.pending = p] BY DEF SetEntry
  <2>2. f = [pending |-> f.pending, done |-> f.done] BY DEF FunnelBacked
  <2> HIDE DEF p
  <2>3. SetEntry(f, b.id, e) = [pending |-> p, done |-> f.done] BY <2>1, <2>2
  <2>4. DOMAIN p \subseteq Ids /\ \A i \in DOMAIN p : EntryBacked(i, p[i], had)
    BY <1>1, <1>4 DEF p, FunnelBacked
  <2>5. QED BY <2>3, <2>4 DEF FunnelBacked
<1>8. Solvable(b.id, e) => EnoughRead(b.id, had) BY <1>1, <1>4, SolvableEnough
<1>9. QED BY <1>5, <1>6, <1>7, <1>8 DEF pushed

\* take_stale.
LEMMA TakeStaleBacked ==
  ASSUME NEW f, NEW had, FunnelBacked(f, had), NEW newest
  PROVE  LET taken == TakeStale(f, newest) IN
         /\ FunnelBacked(taken.funnel, had) /\ taken.out \subseteq Ids
         /\ \A i \in taken.out : EnoughRead(i, had)
<1> DEFINE p == Restrict(f.pending, DOMAIN f.pending \ Stale(f, newest))
           taken == TakeStale(f, newest)
<1>1. taken = [funnel |-> [f EXCEPT !.pending = p],
               out |-> {i \in Stale(f, newest) : Worthwhile(i, f.pending[i])}]
  BY DEF TakeStale
<1>2. f = [pending |-> f.pending, done |-> f.done] BY DEF FunnelBacked
<1>3. DOMAIN p \subseteq Ids /\ \A i \in DOMAIN p : EntryBacked(i, p[i], had)
  BY DEF Restrict, FunnelBacked
<1>4. Stale(f, newest) \subseteq DOMAIN f.pending BY DEF Stale
<1> HIDE DEF p, taken
<1>5. taken.funnel = [pending |-> p, done |-> f.done] BY <1>1, <1>2
<1>6. FunnelBacked(taken.funnel, had) BY <1>3, <1>5 DEF FunnelBacked
<1>7. ASSUME NEW i \in taken.out PROVE i \in Ids /\ EnoughRead(i, had)
  <2>1. i \in DOMAIN f.pending /\ Worthwhile(i, f.pending[i]) BY <1>1, <1>4
  <2>2. i \in Ids /\ EntryBacked(i, f.pending[i], had) BY <2>1 DEF FunnelBacked
  <2>3. QED BY <2>1, <2>2, WorthwhileEnough
<1>8. QED BY <1>6, <1>7 DEF taken

\* What the receiver does with a block.
LEMMA FeedBacked ==
  ASSUME NEW f, NEW had, FunnelBacked(f, had), NEW s \in Seqs, s \in had
  PROVE  LET fed == Feed(f, Stream[s]) IN
         /\ FunnelBacked(fed.funnel, had)
         /\ fed.whole \subseteq Ids /\ fed.torn \subseteq Ids
         /\ \A i \in fed.whole \cup fed.torn : EnoughRead(i, had)
<1> DEFINE b == Stream[s]
           pushed == Push(f, b)
           taken == TakeStale(pushed.funnel, b.id)
           fed == Feed(f, b)
<1>1. b.id \in Ids BY StreamTyped DEF Parts
<1>2. /\ FunnelBacked(pushed.funnel, had) /\ pushed.out \subseteq {b.id}
      /\ \A i \in pushed.out : EnoughRead(i, had)
  BY PushBacked
<1>3. /\ FunnelBacked(taken.funnel, had) /\ taken.out \subseteq Ids
      /\ \A i \in taken.out : EnoughRead(i, had)
  BY <1>2, TakeStaleBacked
<1>4. \/ fed = [funnel |-> taken.funnel, whole |-> pushed.out, torn |-> taken.out]
      \/ fed = [funnel |-> pushed.funnel, whole |-> pushed.out, torn |-> {}]
  BY DEF Feed
<1> HIDE DEF pushed, taken, fed
<1>5. QED BY <1>1, <1>2, <1>3, <1>4 DEF fed

\* Time passes.
LEMMA OlderBacked ==
  ASSUME NEW f, NEW had, FunnelBacked(f, had)
  PROVE  FunnelBacked(Older(f), had)
<1> DEFINE p == [i \in DOMAIN f.pending |-> OlderEntry(f.pending[i])]
<1>1. Older(f) = [f EXCEPT !.pending = p] BY DEF Older
<1>2. f = [pending |-> f.pending, done |-> f.done] BY DEF FunnelBacked
<1>3. ASSUME NEW i \in DOMAIN f.pending PROVE EntryBacked(i, OlderEntry(f.pending[i]), had)
  <2> DEFINE e == f.pending[i]
  <2>1. EntryBacked(i, e, had) /\ e \in Entries BY DEF FunnelBacked, EntryBacked
  <2>2. e.born \in Nat /\ e.last \in Nat BY <2>1 DEF Entries
  <2>3. \A n, m \in Nat : Aged(n, m) \in Nat BY DEF Aged
  <2>4. Aged(e.born, PARTIAL_MAX) \in Nat /\ Aged(e.last, QUIET) \in Nat
    BY <2>2, <2>3, ReassemblerAssumption
  <2> HIDE DEF e
  <2>5. /\ OlderEntry(e) \in Entries /\ OlderEntry(e).data = e.data /\ OlderEntry(e).rows = e.rows
    BY <2>1, <2>4 DEF Entries, OlderEntry
  <2>6. EntryBacked(i, OlderEntry(e), had) BY <2>1, <2>5 DEF EntryBacked
  <2>7. QED BY <2>6 DEF e
<1>4. DOMAIN p \subseteq Ids /\ \A i \in DOMAIN p : EntryBacked(i, p[i], had)
  BY <1>3 DEF FunnelBacked
<1> HIDE DEF p
<1>5. Older(f) = [pending |-> p, done |-> f.done] BY <1>1, <1>2
<1>6. QED BY <1>4, <1>5 DEF FunnelBacked

-----------------------------------------------------------------------------
(* Every frame on its way to the decoder is backed by enough blocks.       *)

Backed ==
  /\ got \subseteq Seqs
  /\ FunnelBacked(funnel, got)
  /\ \A n \in 1 .. Len(completed) : EnoughRead(completed[n], got)
  /\ \A i \in queue : EnoughRead(i, got)

AirInv == IInv /\ Backed

\* An order of a set's elements.
LEMMA OrdersOf ==
  ASSUME NEW S \in SUBSET Ids, NEW s \in SetToSeqs(S)
  PROVE  s \in Seq(S) /\ s \in Seq(Ids)
<1>1. MaxId \in Nat BY ReorderAssumption
<1>2. IsFiniteSet(Ids)
  <2>1. 0 \in Int /\ MaxId \in Int BY <1>1
  <2>2. QED BY <2>1, FS_Interval DEF Ids
<1>3. Cardinality(S) \in Nat BY <1>2, FS_Subset, FS_CardinalityType
<1>4. s \in [1 .. Cardinality(S) -> S] BY DEF SetToSeqs
<1>5. QED BY <1>3, <1>4

\* The steps that read no block and complete no frame.
LEMMA StillBacked ==
  ASSUME AirInv, got' = got, FunnelBacked(funnel', got), queue' \subseteq queue,
         completed' = completed \/ completed' = <<>>
  PROVE  Backed'
BY DEF AirInv, Backed

\* Nothing was read yet.
LEMMA InitAir == ASSUME NoWrap, DeliveryInit PROVE AirInv
<1>1. IInv BY InitIInv DEF DeliveryInit
<1>2. got = {} /\ completed = <<>> /\ queue = {} /\ funnel = NewFunnel BY DEF DeliveryInit, Init
<1>3. FunnelBacked(NewFunnel, {}) BY DEF FunnelBacked, NewFunnel
<1>4. QED BY <1>1, <1>2, <1>3 DEF AirInv, Backed

\* Block s is read.
LEMMA ReadAir ==
  ASSUME AirInv, NEW s \in Seqs, NEW h \in Holds, Read(s, h)
  PROVE  AirInv' /\ out' = out /\ got \subseteq got'
<1> DEFINE fed == Feed(funnel, Stream[s])
<1>1. got' = got \cup {s} /\ funnel' = fed.funnel /\ phase = "recv" BY DEF Read
<1>2. PICK torn \in SetToSeqs(fed.torn), whole \in SetToSeqs(fed.whole) :
        Capture(whole \o torn, DOMAIN nacks' # {}, h)
  BY DEF Read
<1>3. got' \subseteq Seqs /\ FunnelBacked(funnel, got') /\ s \in got'
  BY <1>1, BackedGrows DEF AirInv, Backed
<1>4. /\ FunnelBacked(funnel', got')
      /\ fed.whole \in SUBSET Ids /\ fed.torn \in SUBSET Ids
      /\ \A i \in fed.whole \cup fed.torn : EnoughRead(i, got')
  BY <1>1, <1>3, FeedBacked
<1> HIDE DEF fed
<1>5. /\ whole \in Seq(fed.whole) /\ whole \in Seq(Ids)
      /\ torn \in Seq(fed.torn) /\ torn \in Seq(Ids)
  BY <1>2, <1>4, OrdersOf
<1>6. whole \o torn \in Seq(Ids) BY <1>5, ConcatProperties
<1>7. completed' = whole \o torn /\ queue' = queue /\ out' = out BY <1>2 DEF Capture
<1>8. IInv' BY <1>2, <1>6, CaptureStep DEF AirInv
<1>9. ASSUME NEW n \in 1 .. Len(completed') PROVE EnoughRead(completed'[n], got')
  <2> DEFINE U == fed.whole \cup fed.torn
  <2>1. whole \in Seq(U) /\ torn \in Seq(U) BY <1>5
  <2>2. whole \o torn \in Seq(U) BY <2>1, ConcatProperties
  <2>3. completed'[n] \in U BY <1>7, <1>9, <2>2
  <2>4. QED BY <1>4, <2>3
<1>10. ASSUME NEW i \in queue' PROVE EnoughRead(i, got')
  <2>1. i \in Ids /\ EnoughRead(i, got) BY <1>7, <1>10 DEF AirInv, Backed, IInv, TypeOK
  <2>2. QED BY <1>1, <2>1, EnoughGrows
<1>11. QED BY <1>1, <1>3, <1>4, <1>7, <1>8, <1>9, <1>10 DEF AirInv, Backed

\* Nothing is read.
LEMMA NothingAir ==
  ASSUME AirInv, NEW h \in Holds, Junk(h) \/ \E s \in Seqs : Garbled(s, h)
  PROVE  AirInv' /\ out' = out /\ got' = got
<1>1. \E a \in BOOLEAN : Capture(<<>>, a, h) BY DEF Junk, Garbled
<1>2. got' = got /\ funnel' = funnel BY DEF Junk, Garbled
<1>3. completed' = <<>> /\ queue' = queue /\ out' = out BY <1>1 DEF Capture
<1>4. <<>> \in Seq(Ids) BY EmptySeq
<1>5. IInv' BY <1>1, <1>4, CaptureStep DEF AirInv
<1>6. QED BY <1>2, <1>3, <1>5, StillBacked DEF AirInv, Backed

\* A completed frame is queued, dropped as too late, or starts the numbering over.
LEMMA InsertAir ==
  ASSUME NoWrap, AirInv, InsertCompleted
  PROVE  AirInv' /\ got' = got /\ (out' = out \/ out' = None)
<1> DEFINE i == Head(completed)
<1>1. Insert /\ IInv' BY InsertStep DEF InsertCompleted, AirInv
<1>2. completed \in Seq(Ids) /\ completed # <<>> /\ completed' = Tail(completed)
  BY <1>1 DEF Insert, AirInv, IInv, TypeOK
<1>3. i = completed[1] /\ 1 \in 1 .. Len(completed) BY <1>2
<1>4. EnoughRead(i, got) BY <1>3 DEF AirInv, Backed
<1>5. queue' \subseteq queue \cup {i} /\ (out' = out \/ out' = None)
  BY <1>1 DEF Insert, Enqueue, Resync
<1>6. got' = got /\ (funnel' = funnel \/ funnel' = NewFunnel) BY DEF InsertCompleted, air
<1>7. FunnelBacked(NewFunnel, got) BY DEF FunnelBacked, NewFunnel
<1>8. ASSUME NEW n \in 1 .. Len(completed') PROVE EnoughRead(completed'[n], got)
  <2>1. n + 1 \in 1 .. Len(completed) /\ completed'[n] = completed[n + 1]
    BY <1>2, <1>8, HeadTailProperties
  <2>2. QED BY <2>1 DEF AirInv, Backed
<1> HIDE DEF i
<1>9. Backed' BY <1>4, <1>5, <1>6, <1>7, <1>8 DEF AirInv, Backed
<1>10. QED BY <1>1, <1>5, <1>6, <1>9 DEF AirInv

\* A frame is released, or a hole is skipped.
LEMMA ReleaseAir ==
  ASSUME NoWrap, AirInv, ReleaseStep
  PROVE  /\ AirInv' /\ got' = got
         /\ out' = out \/ (next \in Ids /\ (out # None => next > out) /\ EnoughRead(next, got)
                           /\ out' = next)
<1>1. HoleAtCursor \in Holes BY DEF HoleAtCursor, Holes
<1>2. got' = got /\ funnel' = funnel BY DEF ReleaseStep, air
<1>3. CASE Deliver
  <2>1. IInv' BY <1>3, DeliverStep DEF AirInv
  <2>2. next \in queue /\ out' = next /\ queue' \subseteq queue /\ completed' = completed
    BY <1>3 DEF Deliver
  <2>3. next \in Ids /\ next # None BY <2>2, IdsFacts DEF AirInv, IInv, TypeOK
  <2>4. out # None => out < next /\ out \in Ids BY <2>3 DEF AirInv, IInv, OutBehind, TypeOK
  <2>5. out # None => next > out BY <2>3, <2>4, IdsFacts
  <2>6. EnoughRead(next, got) BY <2>2 DEF AirInv, Backed
  <2>7. Backed' BY <1>2, <2>2, StillBacked DEF AirInv, Backed
  <2>8. QED BY <1>2, <2>1, <2>2, <2>3, <2>5, <2>6, <2>7 DEF AirInv
<1>4. CASE SkipPhantom(HoleAtCursor) \/ SkipLost(HoleAtCursor) \/ Wait(HoleAtCursor)
  <2>1. IInv' BY <1>1, <1>4, SkipPhantomStep, SkipLostStep, WaitStep DEF AirInv
  <2>2. out' = out /\ queue' = queue /\ completed' = completed
    BY <1>4 DEF SkipPhantom, SkipLost, Wait
  <2>3. Backed' BY <1>2, <2>2, StillBacked DEF AirInv, Backed
  <2>4. QED BY <1>2, <2>1, <2>2, <2>3 DEF AirInv
<1>5. QED BY <1>3, <1>4 DEF ReleaseStep

\* Time passes.
LEMMA TimeAir ==
  ASSUME AirInv, TimePasses
  PROVE  AirInv' /\ got' = got /\ out' = out
<1>1. IInv' BY TickStep DEF TimePasses, AirInv
<1>2. /\ got' = got /\ funnel' = Older(funnel) /\ out' = out /\ queue' = queue
      /\ completed' = completed
  BY DEF TimePasses, Tick
<1>3. FunnelBacked(funnel', got) BY <1>2, OlderBacked DEF AirInv, Backed
<1>4. QED BY <1>1, <1>2, <1>3, StillBacked DEF AirInv

\* Every step keeps the invariant and is one that VideoFeed allows.
LEMMA DeliveryStep ==
  ASSUME NoWrap, AirInv, [DeliveryNext]_allVars
  PROVE  AirInv' /\ [Feed1!Next]_<<got, out>>
<1> USE DEF Feed1!Next
<1>1. CASE \E h \in Holds, s \in Seqs : Read(s, h)
  <2>1. AirInv' /\ out' = out /\ got \subseteq got' BY <1>1, ReadAir
  <2>2. Feed1!Receive BY <2>1 DEF Feed1!Receive, AirInv, Backed
  <2>3. QED BY <2>1, <2>2
<1>2. CASE \E h \in Holds : Junk(h) \/ \E s \in Seqs : Garbled(s, h)
  BY <1>2, NothingAir
<1>3. CASE InsertCompleted
  <2>1. AirInv' /\ got' = got /\ (out' = out \/ out' = None) BY <1>3, InsertAir
  <2>2. QED BY <2>1 DEF Feed1!Renumber
<1>4. CASE Inserted /\ UNCHANGED air
  <2>1. IInv' BY <1>4, InsertedStep DEF AirInv
  <2>2. /\ got' = got /\ funnel' = funnel /\ out' = out /\ queue' = queue
        /\ completed' = completed
    BY <1>4 DEF Inserted, air
  <2>3. QED BY <2>1, <2>2, StillBacked DEF AirInv, Backed
<1>5. CASE ReleaseStep
  <2>1. /\ AirInv' /\ got' = got
        /\ out' = out \/ (next \in Ids /\ (out # None => next > out) /\ EnoughRead(next, got)
                          /\ out' = next)
    BY <1>5, ReleaseAir
  <2>2. CASE out' = out BY <2>1, <2>2
  <2>3. CASE /\ next \in Ids /\ (out # None => next > out)
             /\ EnoughRead(next, got) /\ out' = next
    <3>1. Feed1!Give(next) BY <2>1, <2>3 DEF Feed1!Give
    <3>2. QED BY <2>1, <2>3, <3>1
  <2>4. QED BY <2>1, <2>2, <2>3
<1>6. CASE TimePasses
  BY <1>6, TimeAir
<1>7. CASE UNCHANGED allVars
  <2>1. UNCHANGED vars /\ got' = got /\ funnel' = funnel BY <1>7 DEF allVars, air
  <2>2. IInv' BY <2>1, QuietStep DEF vars, AirInv, IInv, TypeOK
  <2>3. QED BY <2>1, <2>2, StillBacked DEF vars, AirInv, Backed
<1>8. QED BY <1>1, <1>2, <1>3, <1>4, <1>5, <1>6, <1>7 DEF DeliveryNext

\* Whatever is lost, garbled, repeated or overtaken, the decoder gets frames in order, each once,
\* and only those of which enough blocks were read: the receiver from the blocks on the air to
\* the release of the frames (demod_loop with the reassembly funnel) does what VideoFeed says.
THEOREM FeedIsKept == NoWrap => (DeliverySpec => KeepsPromise)
<1> SUFFICES ASSUME NoWrap PROVE DeliverySpec => KeepsPromise
  OBVIOUS
<1>1. DeliveryInit => AirInv /\ Feed1!Init
  <2>1. DeliveryInit => Feed1!Init BY DEF DeliveryInit, Init, Feed1!Init
  <2>2. QED BY <2>1, InitAir
<1>2. AirInv /\ [DeliveryNext]_allVars => AirInv' /\ [Feed1!Next]_<<got, out>>
  BY DeliveryStep
<1>3. QED
  BY <1>1, <1>2, PTL DEF DeliverySpec, KeepsPromise, Feed1!Spec

\* And no id is passed over silently there: each one behind the cursor was shown, counted as lost
\* or skipped as a phantom.
THEOREM EveryIdAccountedOnAir == NoWrap => (DeliverySpec => []Accounted)
<1> SUFFICES ASSUME NoWrap PROVE DeliverySpec => []Accounted
  OBVIOUS
<1>1. DeliveryInit => AirInv
  BY InitAir
<1>2. AirInv /\ [DeliveryNext]_allVars => AirInv'
  BY DeliveryStep
<1>3. AirInv => Accounted
  BY DEF AirInv, IInv
<1>4. QED
  BY <1>1, <1>2, <1>3, PTL DEF DeliverySpec
-----------------------------------------------------------------------------
(* Every block of a frame that is passed over is followed.                 *)

\* A frame is completed that is further behind the cursor than a repair may come: it is taken for
\* a restart of the numbering, and the cursor goes back over frames that were shown.
FarBehind ==
  /\ phase = "insert" /\ completed # <<>> /\ next # None
  /\ Head(completed) < next /\ ~TooLate(Head(completed))

\* The hypotheses: ids stay away from the wrap, forwards and backwards; a NACK is kept for some
\* time; a frame is not stale while its own blocks come.
Apart == NoWrap /\ MaxId + 1 + BEHIND < IdMod /\ NACK_KEEP > 0 /\ LAG > 0

\* Block s came, is asked for, or is one of those nobody asks for.
Known(s) == s \in got \/ s \in DOMAIN nacks \/ Stream[s].id \in unasked
\* Frame i was completed: it waits, is about to, or is behind the cursor.
Taken(i) == i \in queue \/ i \in Range(completed) \/ (next # None /\ i < next)

AirTyped ==
  /\ read \subseteq got /\ got \subseteq Seqs /\ lastSeq \in Seqs \cup {None}
  /\ DOMAIN nacks \subseteq Seqs /\ funnel.done \in Seq(Ids)
\* What a capture found of open NACKs stands until it is dealt with, and so do its frames.
Silent == phase # "recv" /\ ~asked => DOMAIN nacks = {}
Emptied == phase # "insert" => completed = <<>>
\* All blocks up to the newest are known; so are those of the frames before one that was completed.
KnownSoFar == lastSeq # None => \A s \in Seqs : s <= lastSeq => Known(s)
KnownBefore ==
  \A j \in queue \cup Range(completed), s \in Seqs : Stream[s].id < j => Known(s)
\* Frames in the funnel were begun since the numbering was.
BegunSince == \A j \in DOMAIN funnel.pending : lastSeq # None /\ \E t \in SeqsOf(j) : t <= lastSeq
\* The frame of a block that came is in the funnel, was thrown away there, or was completed.
Kept == \A s \in got : Stream[s].id \in DOMAIN funnel.pending \cup dropped \/ Taken(Stream[s].id)
DoneTaken == \A i \in Range(funnel.done) : Taken(i)

Tracked ==
  /\ AirTyped /\ Silent /\ Emptied /\ KnownSoFar /\ KnownBefore /\ BegunSince /\ Kept /\ DoneTaken

\* Nothing was sent yet.
LEMMA InitTracked == ASSUME DeliveryInit PROVE Tracked
<1>1. /\ phase = "recv" /\ completed = <<>> /\ queue = {} /\ got = {} /\ read = {}
      /\ lastSeq = None /\ nacks = <<>> /\ funnel.done = <<>> /\ funnel.pending = <<>>
  BY DEF DeliveryInit, Init, NewFunnel
<1>2. Range(completed) = {} /\ Range(funnel.done) = {} BY <1>1 DEF Range
<1>3. <<>> \in Seq(Ids) BY EmptySeq
<1>4. QED
  BY <1>1, <1>2, <1>3 DEF Tracked, AirTyped, Silent, Emptied, KnownSoFar, KnownBefore, BegunSince,
     Kept, DoneTaken

\* The ids of blocks.
LEMMA BlockIds == \A s \in Seqs : s \in Nat /\ Stream[s].id \in Ids /\ Stream[s].id \in Nat
<1>1. Len(Stream) \in Nat /\ \A s \in Seqs : Stream[s].id \in Ids BY StreamTyped DEF Parts
<1>2. QED BY <1>1, IdsFacts DEF Seqs

\* A block known stays known.
LEMMA KnownStays ==
  ASSUME got \subseteq got', unasked \subseteq unasked',
         \A x \in DOMAIN nacks : x \in DOMAIN nacks' \/ x \in got' \/ Stream[x].id \in unasked',
         NEW s, Known(s)
  PROVE  Known(s)'
BY DEF Known

\* What is open once block s was heard: the old NACKs and those of the gap, but for those that are
\* answered or forgotten.
LEMMA NacksAfterOf ==
  ASSUME NACK_KEEP > 0, NEW s
  PROVE  /\ DOMAIN NacksAfter(s) \subseteq DOMAIN nacks \cup Asked(s)
         /\ \A x \in DOMAIN nacks \cup Asked(s) :
              x \in DOMAIN NacksAfter(s) \/ x = s \/ x \in Expired(nacks)
<1> DEFINE answered == Without(Open(nacks, Asked(s)), {s})
<1>1. NACK_KEEP \in Nat BY DeliveryAssumption
<1>2. DOMAIN answered = (DOMAIN nacks \cup Asked(s)) \ {s} BY DEF Without, Open, Restrict
<1>3. \A x \in DOMAIN answered : answered[x] = IF x \in DOMAIN nacks THEN nacks[x] ELSE 0
  BY DEF Without, Open, Restrict
<1> HIDE DEF answered
<1>4. ASSUME NEW x \in Expired(answered) PROVE x \in Expired(nacks)
  <2>1. x \in DOMAIN answered /\ answered[x] >= NACK_KEEP BY <1>4 DEF Expired
  <2>2. CASE x \in DOMAIN nacks BY <1>3, <2>1, <2>2 DEF Expired
  <2>3. CASE x \notin DOMAIN nacks BY <1>1, <1>3, <2>1, <2>3
  <2>4. QED BY <2>2, <2>3
<1>5. DOMAIN NacksAfter(s) = DOMAIN answered \ Expired(answered)
  BY DEF NacksAfter, answered, Without, Restrict
<1>6. QED BY <1>2, <1>4, <1>5

\* Once block s was heard, and came or is asked for, all blocks up to the newest are known.
LEMMA HeardKnown ==
  ASSUME NACK_KEEP > 0, AirTyped, KnownSoFar, NEW s \in Seqs,
         got \subseteq got', read' \subseteq got', lastSeq' = NewestSeq(s),
         Forget(PassedOver(s) \cup (Expired(nacks) \ {s})),
         DOMAIN NacksAfter(s) \subseteq DOMAIN nacks', s \in got' \cup DOMAIN nacks'
  PROVE  /\ KnownSoFar' /\ \A x : Known(x) => Known(x)'
         /\ lastSeq' \in Seqs /\ lastSeq' # None /\ s <= lastSeq'
         /\ lastSeq # None => lastSeq <= lastSeq'
<1>1. None \notin Nat BY ReorderAssumption
<1>2. s \in Nat /\ \A x \in Seqs : x \in Nat /\ x >= 1 BY StreamTyped DEF Seqs
<1>3. lastSeq # None => lastSeq \in Seqs /\ lastSeq \in Nat BY <1>2 DEF AirTyped
<1>4. /\ lastSeq' \in Seqs /\ lastSeq' # None /\ s <= lastSeq'
      /\ lastSeq # None => lastSeq <= lastSeq'
      /\ lastSeq' = s \/ (lastSeq # None /\ lastSeq' = lastSeq)
  BY <1>1, <1>2, <1>3 DEF NewestSeq
<1>5. \A x \in PassedOver(s) \cup (Expired(nacks) \ {s}) : x \in got' \/ Stream[x].id \in unasked'
  BY DEF Forget
<1>6. unasked \subseteq unasked' BY DEF Forget
<1>7. \A x \in DOMAIN nacks \cup Asked(s) :
        x \in DOMAIN nacks' \/ x \in got' \/ Stream[x].id \in unasked'
  BY <1>5, NacksAfterOf
<1>8. \A x : Known(x) => Known(x)' BY <1>6, <1>7, KnownStays
<1>9. ASSUME NEW x \in Seqs, x <= lastSeq' PROVE Known(x)'
  <2>1. CASE x = s BY <2>1 DEF Known
  <2>2. CASE lastSeq # None /\ x <= lastSeq BY <1>8, <2>2 DEF KnownSoFar
  <2>3. CASE x # s /\ (lastSeq = None \/ ~(x <= lastSeq))
    <3>1. x < s BY <1>2, <1>3, <1>4, <1>9, <2>3
    <3>2. CASE lastSeq = None
      <4>1. x \in PassedOver(s) BY <1>2, <3>1, <3>2 DEF PassedOver
      <4>2. QED BY <1>5, <4>1 DEF Known
    <3>3. CASE lastSeq # None
      <4>1. x \in Gap(s) BY <1>2, <1>3, <2>3, <3>1, <3>3 DEF Gap
      <4>2. x \in PassedOver(s) \/ x \in Asked(s) BY <3>3, <4>1 DEF PassedOver
      <4>3. QED BY <1>5, <1>7, <4>2 DEF Known
    <3>4. QED BY <3>2, <3>3
  <2>4. QED BY <2>1, <2>2, <2>3
<1>10. QED BY <1>4, <1>8, <1>9 DEF KnownSoFar

\* Where the frames of the funnel go when it is fed a block.
LEMMA FeedTracked ==
  ASSUME LAG > 0, NEW f, f = [pending |-> f.pending, done |-> f.done], f.done \in Seq(Ids),
         NEW b, b.id \in Ids
  PROVE  LET fed == Feed(f, b) IN
         /\ DOMAIN fed.funnel.pending \subseteq DOMAIN f.pending \cup {b.id}
         /\ b.id \in DOMAIN fed.funnel.pending \cup fed.whole \cup Range(f.done)
         /\ fed.whole \subseteq {b.id} /\ fed.torn \subseteq DOMAIN f.pending \cup {b.id}
         /\ fed.funnel.done \in Seq(Ids)
         /\ Range(fed.funnel.done) \subseteq Range(f.done) \cup fed.whole
<1> DEFINE e == Filled(EntryOf(f, b.id), b)
           pushed == Push(f, b)
           p == [j \in DOMAIN f.pending \cup {b.id} |-> IF j = b.id THEN e ELSE f.pending[j]]
           rest == Restrict(f.pending, {j \in DOMAIN f.pending : j # b.id /\ j + KEEP > b.id})
           d == Remembered(f.done, b.id)
<1>1. /\ d \in Seq(Ids) /\ Range(d) \subseteq Range(f.done) \cup {b.id}
  <2> DEFINE a == Append(f.done, b.id)
  <2>1. a \in Seq(Ids) /\ Range(a) \subseteq Range(f.done) \cup {b.id}
    <3>1. a \in Seq(Ids) /\ Len(a) = Len(f.done) + 1 /\ Len(f.done) \in Nat BY AppendProperties
    <3>2. ASSUME NEW n \in 1 .. Len(a) PROVE a[n] \in Range(f.done) \cup {b.id}
      <4>1. CASE n = Len(f.done) + 1 BY <4>1, AppendProperties
      <4>2. CASE n # Len(f.done) + 1
        <5>1. n \in 1 .. Len(f.done) /\ a[n] = f.done[n] BY <3>1, <4>2, AppendProperties
        <5>2. QED BY <5>1 DEF Range
      <4>3. QED BY <4>1, <4>2
    <3>3. QED BY <3>1, <3>2 DEF Range
  <2> HIDE DEF a
  <2>2. d = a \/ (a # <<>> /\ d = Tail(a))
    <3>1. a # <<>> BY AppendProperties DEF a
    <3>2. QED BY <3>1 DEF Remembered, a
  <2>3. a # <<>> => Tail(a) \in Seq(Ids) /\ Range(Tail(a)) \subseteq Range(a)
    <3> SUFFICES ASSUME a # <<>> PROVE Tail(a) \in Seq(Ids) /\ Range(Tail(a)) \subseteq Range(a)
      OBVIOUS
    <3>1. Tail(a) \in Seq(Ids) /\ Len(Tail(a)) = Len(a) - 1 BY <2>1, HeadTailProperties
    <3>2. ASSUME NEW n \in 1 .. Len(Tail(a)) PROVE Tail(a)[n] \in Range(a)
      <4>1. Tail(a)[n] = a[n + 1] /\ n + 1 \in 1 .. Len(a)
        BY <2>1, <3>1, HeadTailProperties
      <4>2. QED BY <2>1, <4>1 DEF Range
    <3>3. QED BY <3>1, <3>2 DEF Range
  <2>4. QED BY <2>1, <2>2, <2>3
<1> HIDE DEF d
<1>2. \/ pushed = [funnel |-> f, out |-> {}] /\ b.id \in Range(f.done)
      \/ pushed = [funnel |-> [pending |-> rest, done |-> d], out |-> {b.id}]
      \/ pushed = [funnel |-> [pending |-> p, done |-> f.done], out |-> {}]
  <2>1. SetEntry(f, b.id, e) = [f EXCEPT !.pending = p] BY DEF SetEntry
  <2> HIDE DEF p, e
  <2>2. SetEntry(f, b.id, e) = [pending |-> p, done |-> f.done] BY <2>1
  <2>3. Completed(f, b.id) = [pending |-> rest, done |-> d] BY DEF Completed, d
  <2>4. (\E n \in DOMAIN f.done : f.done[n] = b.id) => b.id \in Range(f.done) BY DEF Range
  <2>5. QED BY <2>2, <2>3, <2>4 DEF Push, e
<1>3. DOMAIN p = DOMAIN f.pending \cup {b.id} OBVIOUS
<1>4. DOMAIN rest \subseteq DOMAIN f.pending BY DEF Restrict
<1> HIDE DEF p, e, rest, pushed
<1> DEFINE q == pushed.funnel
<1>5. /\ q = [pending |-> q.pending, done |-> q.done]
      /\ DOMAIN q.pending \subseteq DOMAIN f.pending \cup {b.id}
      /\ b.id \in DOMAIN q.pending \cup pushed.out \cup Range(f.done)
      /\ pushed.out \subseteq {b.id}
      /\ q.done \in Seq(Ids) /\ Range(q.done) \subseteq Range(f.done) \cup pushed.out
  BY <1>1, <1>2, <1>3, <1>4
<1> DEFINE stale == Stale(q, b.id)
           taken == TakeStale(q, b.id)
           left == Restrict(q.pending, DOMAIN q.pending \ stale)
<1>6. b.id \notin stale
  <2>1. LAG \in Nat /\ b.id \in Nat BY ReassemblerAssumption, IdsFacts
  <2>2. ~(b.id + LAG <= b.id) BY <2>1
  <2>3. QED BY <2>2 DEF Stale
<1>7. stale \subseteq DOMAIN q.pending BY DEF Stale
<1>8. DOMAIN left = DOMAIN q.pending \ stale BY DEF Restrict
<1>9. taken = [funnel |-> [q EXCEPT !.pending = left],
               out |-> {i \in stale : Worthwhile(i, q.pending[i])}]
  BY DEF TakeStale
<1> HIDE DEF q, stale, left, taken
<1>10. /\ taken.funnel = [pending |-> left, done |-> q.done]
       /\ taken.out \subseteq stale
  BY <1>5, <1>9
<1>11. \/ Feed(f, b) = [funnel |-> taken.funnel, whole |-> pushed.out, torn |-> taken.out]
       \/ Feed(f, b) = [funnel |-> q, whole |-> pushed.out, torn |-> {}]
  BY DEF Feed, pushed, taken, q
<1>12. QED BY <1>5, <1>6, <1>7, <1>8, <1>10, <1>11

\* An order of a set has all its elements.
LEMMA OrderIsFull ==
  ASSUME NEW S \in SUBSET Ids, NEW s \in SetToSeqs(S)
  PROVE  Range(s) = S
<1> DEFINE n == Cardinality(S)
<1>1. MaxId \in Nat BY ReorderAssumption
<1>2. IsFiniteSet(Ids)
  <2>1. 0 \in Int /\ MaxId \in Int BY <1>1
  <2>2. QED BY <2>1, FS_Interval DEF Ids
<1>3. IsFiniteSet(S) /\ n \in Nat BY <1>2, FS_Subset, FS_CardinalityType
<1>4. s \in [1 .. n -> S] /\ \A i, j \in 1 .. n : s[i] = s[j] => i = j BY DEF SetToSeqs
<1>5. Cardinality(1 .. n) = n
  <2>1. 1 \in Int /\ n \in Int BY <1>3
  <2>2. Cardinality(1 .. n) = IF 1 > n THEN 0 ELSE n - 1 + 1 BY <2>1, FS_Interval
  <2>3. QED BY <1>3, <2>2
<1>6. s \in Injection(1 .. n, S) BY <1>4 DEF Injection, IsInjective
<1>7. s \in Surjection(1 .. n, S) BY <1>3, <1>5, <1>6, FS_Injection
<1>8. QED BY <1>4, <1>7 DEF Range, Surjection

\* What a capture completes: the elements of two sets of frames.
LEMMA BatchOf ==
  ASSUME NEW S \in SUBSET Ids, NEW T \in SUBSET Ids, NEW s \in SetToSeqs(S), NEW t \in SetToSeqs(T)
  PROVE  s \o t \in Seq(Ids) /\ Range(s \o t) = S \cup T
<1> DEFINE q == s \o t
<1>1. s \in Seq(Ids) /\ t \in Seq(Ids) BY OrdersOf
<1>2. Range(s) = S /\ Range(t) = T BY OrderIsFull
<1>3. /\ q \in Seq(Ids) /\ Len(q) = Len(s) + Len(t) /\ Len(s) \in Nat /\ Len(t) \in Nat
      /\ \A i \in 1 .. Len(q) : q[i] = IF i <= Len(s) THEN s[i] ELSE t[i - Len(s)]
  BY <1>1, ConcatProperties
<1> HIDE DEF q
<1>4. ASSUME NEW i \in 1 .. Len(q) PROVE q[i] \in S \cup T
  <2>1. CASE i <= Len(s)
    <3>1. i \in DOMAIN s BY <1>1, <1>3, <2>1
    <3>2. QED BY <1>2, <1>3, <2>1, <3>1 DEF Range
  <2>2. CASE ~(i <= Len(s))
    <3>1. i - Len(s) \in DOMAIN t BY <1>1, <1>3, <2>2
    <3>2. QED BY <1>2, <1>3, <2>2, <3>1 DEF Range
  <2>3. QED BY <2>1, <2>2
<1>5. ASSUME NEW x \in S PROVE x \in Range(q)
  <2>1. PICK i \in 1 .. Len(s) : s[i] = x BY <1>1, <1>2 DEF Range
  <2>2. i \in 1 .. Len(q) /\ q[i] = x BY <1>3, <2>1
  <2>3. QED BY <1>3, <2>2 DEF Range
<1>6. ASSUME NEW x \in T PROVE x \in Range(q)
  <2>1. PICK i \in 1 .. Len(t) : t[i] = x BY <1>1, <1>2 DEF Range
  <2>2. i + Len(s) \in 1 .. Len(q) /\ ~(i + Len(s) <= Len(s)) /\ (i + Len(s)) - Len(s) = i
    BY <1>3, <2>1
  <2>3. q[i + Len(s)] = x BY <1>3, <2>1, <2>2
  <2>4. QED BY <1>3, <2>2, <2>3 DEF Range
<1>7. Range(q) = S \cup T BY <1>3, <1>4, <1>5, <1>6 DEF Range
<1>8. QED BY <1>3, <1>7 DEF q

\* The steps that feed the funnel nothing and forget nothing of it.
LEMMA StillTracked ==
  ASSUME Tracked, AirTyped', Silent', Emptied', KnownSoFar',
         \A x : Known(x) => Known(x)', \A i \in Ids : Taken(i) => Taken(i)',
         got' = got, dropped' = dropped, Range(funnel'.done) = Range(funnel.done),
         DOMAIN funnel'.pending = DOMAIN funnel.pending,
         lastSeq # None => lastSeq' # None /\ lastSeq <= lastSeq',
         queue' \cup Range(completed') \subseteq queue \cup Range(completed)
  PROVE  Tracked'
<1>1. KnownBefore' BY DEF Tracked, KnownBefore
<1>2. BegunSince'
  <2>1. ASSUME NEW j \in DOMAIN funnel'.pending
        PROVE  lastSeq' # None /\ \E t \in SeqsOf(j) : t <= lastSeq'
    <3>1. PICK t \in SeqsOf(j) : lastSeq # None /\ t <= lastSeq BY DEF Tracked, BegunSince
    <3>2. lastSeq' # None /\ lastSeq <= lastSeq' BY <3>1
    <3>3. lastSeq \in Nat /\ lastSeq' \in Nat /\ t \in Nat
      BY <3>1, <3>2, BlockIds DEF Tracked, AirTyped, SeqsOf
    <3>4. t <= lastSeq' BY <3>1, <3>2, <3>3
    <3>5. QED BY <3>2, <3>4
  <2>2. QED BY <2>1 DEF BegunSince
<1>3. \A x \in got : Stream[x].id \in Ids BY BlockIds DEF Tracked, AirTyped
<1>4. \A i \in Range(funnel.done) : i \in Ids BY DEF Tracked, AirTyped, Range
<1>5. Kept' BY <1>3 DEF Tracked, Kept
<1>6. DoneTaken' BY <1>4 DEF Tracked, DoneTaken
<1>7. QED BY <1>1, <1>2, <1>5, <1>6 DEF Tracked

\* Ids of blocks and the order they were sent in.
LEMMA EarlierBlock ==
  ASSUME NEW s \in Seqs, NEW t \in Seqs, Stream[s].id < Stream[t].id
  PROVE  s < t /\ s \in Nat /\ t \in Nat
<1>1. s < t BY StreamInOrder DEF FrameByFrame, Seqs
<1>2. QED BY <1>1, BlockIds

\* Numbers asked for are of blocks.
LEMMA AskedBlocks ==
  ASSUME AirTyped, NEW s \in Seqs
  PROVE  Asked(s) \subseteq Seqs
<1>1. Len(Stream) \in Nat BY StreamTyped
<1>2. None \notin Nat BY ReorderAssumption
<1>3. s \in Nat /\ s <= Len(Stream) /\ (lastSeq # None => lastSeq \in Nat /\ lastSeq >= 1)
  BY <1>1 DEF AirTyped, Seqs
<1>4. Gap(s) \subseteq 1 .. Len(Stream) BY <1>1, <1>3 DEF Gap
<1>5. QED BY <1>4 DEF Asked, Seqs

\* A block is read.
LEMMA ReadTracked ==
  ASSUME Apart, AirInv, Tracked, NEW s \in Seqs, NEW h \in Holds, Read(s, h)
  PROVE  Tracked'
<1> DEFINE b == Stream[s]
           fed == Feed(funnel, b)
<1>1. /\ phase = "recv" /\ read' = read \cup {s} /\ got' = got \cup {s}
      /\ lastSeq' = NewestSeq(s) /\ nacks' = NacksAfter(s) /\ funnel' = fed.funnel
      /\ Forget(PassedOver(s) \cup (Expired(nacks) \ {s}))
      /\ dropped' = dropped \cup
           (DOMAIN funnel.pending \ (DOMAIN fed.funnel.pending \cup fed.whole \cup fed.torn))
  BY DEF Read
<1>2. PICK torn \in SetToSeqs(fed.torn), whole \in SetToSeqs(fed.whole) :
        Capture(whole \o torn, DOMAIN nacks' # {}, h)
  BY DEF Read
<1>3. b.id \in Ids /\ s \in SeqsOf(b.id) BY BlockIds DEF SeqsOf
<1>4. /\ funnel = [pending |-> funnel.pending, done |-> funnel.done]
      /\ DOMAIN funnel.pending \subseteq Ids /\ funnel.done \in Seq(Ids)
  BY DEF AirInv, Backed, FunnelBacked, Tracked, AirTyped
<1>5. /\ DOMAIN fed.funnel.pending \subseteq DOMAIN funnel.pending \cup {b.id}
      /\ b.id \in DOMAIN fed.funnel.pending \cup fed.whole \cup Range(funnel.done)
      /\ fed.whole \subseteq {b.id} /\ fed.torn \subseteq DOMAIN funnel.pending \cup {b.id}
      /\ fed.funnel.done \in Seq(Ids)
      /\ Range(fed.funnel.done) \subseteq Range(funnel.done) \cup fed.whole
  BY <1>3, <1>4, FeedTracked DEF Apart
<1> HIDE DEF fed
<1>6. fed.whole \in SUBSET Ids /\ fed.torn \in SUBSET Ids BY <1>3, <1>4, <1>5
<1>7. whole \o torn \in Seq(Ids) /\ Range(whole \o torn) = fed.whole \cup fed.torn
  BY <1>2, <1>6, BatchOf
<1>8. /\ Range(completed') = fed.whole \cup fed.torn
      /\ queue' = queue /\ next' = next /\ phase' = "insert" /\ asked' = (DOMAIN nacks' # {})
  BY <1>2, <1>7 DEF Capture
<1>9. NACK_KEEP > 0 BY DEF Apart
<1>10. /\ DOMAIN nacks' \subseteq DOMAIN nacks \cup Asked(s)
  BY <1>1, <1>9, NacksAfterOf
<1>11. read' \subseteq got' /\ got' \subseteq Seqs /\ got \subseteq got' /\ s \in got'
  BY <1>1 DEF Tracked, AirTyped
<1>12. /\ KnownSoFar' /\ \A x : Known(x) => Known(x)'
       /\ lastSeq' \in Seqs /\ lastSeq' # None /\ s <= lastSeq'
       /\ lastSeq # None => lastSeq <= lastSeq'
  BY <1>1, <1>9, <1>11, HeardKnown DEF Tracked
<1>13. AirTyped'
  BY <1>1, <1>5, <1>10, <1>11, <1>12, AskedBlocks DEF Tracked, AirTyped
<1>14. Silent' /\ Emptied' BY <1>8 DEF Silent, Emptied
<1>15. ASSUME NEW j \in DOMAIN funnel.pending \cup {b.id}
       PROVE  \E t \in SeqsOf(j) : t <= lastSeq'
  <2>1. CASE j = b.id BY <1>3, <1>12, <2>1
  <2>2. CASE j \in DOMAIN funnel.pending
    <3>1. PICK t \in SeqsOf(j) : lastSeq # None /\ t <= lastSeq
      BY <2>2 DEF Tracked, BegunSince
    <3>2. lastSeq \in Nat /\ lastSeq' \in Nat /\ t \in Nat /\ lastSeq <= lastSeq'
      BY <3>1, <1>12, BlockIds DEF Tracked, AirTyped, SeqsOf
    <3>3. QED BY <3>1, <3>2
  <2>3. QED BY <2>1, <2>2
<1>16. BegunSince' BY <1>1, <1>5, <1>12, <1>15 DEF BegunSince
<1>17. ASSUME NEW j \in queue' \cup Range(completed'), NEW x \in Seqs, Stream[x].id < j
       PROVE  Known(x)'
  <2>1. CASE j \in queue BY <1>12, <1>17, <2>1 DEF Tracked, KnownBefore
  <2>2. CASE j \notin queue
    <3>1. j \in DOMAIN funnel.pending \cup {b.id} BY <1>5, <1>8, <2>2
    <3>2. PICK t \in SeqsOf(j) : t <= lastSeq' BY <3>1, <1>15
    <3>3. t \in Seqs /\ Stream[t].id = j BY <3>2 DEF SeqsOf
    <3>4. x < t /\ x \in Nat /\ t \in Nat BY <1>17, <3>3, EarlierBlock
    <3>5. lastSeq' \in Nat BY <1>12, BlockIds
    <3>6. x <= lastSeq' BY <3>2, <3>4, <3>5
    <3>7. QED BY <1>12, <3>6 DEF KnownSoFar
  <2>3. QED BY <2>1, <2>2
<1>18. \A i : Taken(i) => Taken(i)'
  <2>1. Range(completed) = {} BY <1>1 DEF Tracked, Emptied, Range
  <2>2. QED BY <1>8, <2>1 DEF Taken
<1>19. \A i \in fed.whole \cup fed.torn : Taken(i)' BY <1>8 DEF Taken
<1>20. ASSUME NEW x \in got'
       PROVE  Stream[x].id \in DOMAIN funnel'.pending \cup dropped' \/ Taken(Stream[x].id)'
  <2>1. CASE x = s
    <3>1. \A i \in Range(funnel.done) : Taken(i) BY DEF Tracked, DoneTaken
    <3>2. QED BY <1>1, <1>5, <1>18, <1>19, <2>1, <3>1
  <2>2. CASE x \in got
    <3>1. Stream[x].id \in DOMAIN funnel.pending \cup dropped \/ Taken(Stream[x].id)
      BY <2>2 DEF Tracked, Kept
    <3>2. QED BY <1>1, <1>18, <1>19, <3>1
  <2>3. QED BY <1>1, <2>1, <2>2
<1>21. DoneTaken' BY <1>1, <1>5, <1>18, <1>19 DEF Tracked, DoneTaken
<1>22. KnownBefore' BY <1>17 DEF KnownBefore
<1>23. Kept' BY <1>20 DEF Kept
<1>24. QED BY <1>12, <1>13, <1>14, <1>16, <1>21, <1>22, <1>23 DEF Tracked

\* Nothing is read.
LEMMA NothingTracked ==
  ASSUME Apart, AirInv, Tracked, NEW h \in Holds, Junk(h) \/ \E s \in Seqs : Garbled(s, h)
  PROVE  Tracked'
<1>1. /\ phase = "recv" /\ read' = read /\ got' = got /\ funnel' = funnel /\ dropped' = dropped
      /\ \E a \in BOOLEAN : Capture(<<>>, a, h) /\ (a = FALSE => DOMAIN nacks' = {})
  <2>1. CASE Junk(h)
    <3>1. Capture(<<>>, DOMAIN nacks' # {}, h) BY <2>1 DEF Junk
    <3>2. QED BY <2>1, <3>1 DEF Junk
  <2>2. CASE \E s \in Seqs : Garbled(s, h) BY <2>2 DEF Garbled
  <2>3. QED BY <2>1, <2>2
<1>2. /\ queue' = queue /\ next' = next /\ completed' = <<>>
      /\ phase' = "insert" /\ (~asked' => DOMAIN nacks' = {})
  BY <1>1 DEF Capture
<1>3. Range(completed) = {} /\ Range(completed') = {} BY <1>1, <1>2 DEF Tracked, Emptied, Range
<1>4. Silent' /\ Emptied' /\ \A i : Taken(i) => Taken(i)'
  BY <1>2, <1>3 DEF Silent, Emptied, Taken
<1>5. /\ KnownSoFar' /\ AirTyped' /\ \A x : Known(x) => Known(x)'
      /\ lastSeq # None => lastSeq' # None /\ lastSeq <= lastSeq'
  <2>1. ASSUME NEW s \in Seqs, Garbled(s, h)
        PROVE  /\ KnownSoFar' /\ AirTyped' /\ \A x : Known(x) => Known(x)'
               /\ lastSeq # None => lastSeq' # None /\ lastSeq <= lastSeq'
    <3>1. /\ lastSeq' = NewestSeq(s) /\ nacks' = Open(NacksAfter(s), {s})
          /\ Forget(PassedOver(s) \cup (Expired(nacks) \ {s}))
      BY <2>1 DEF Garbled
    <3>2. DOMAIN nacks' = DOMAIN NacksAfter(s) \cup {s} BY <3>1 DEF Open
    <3>3. NACK_KEEP > 0 BY DEF Apart
    <3>4. read' \subseteq got' BY <1>1 DEF Tracked, AirTyped
    <3>5. /\ KnownSoFar' /\ \A x : Known(x) => Known(x)'
          /\ lastSeq' \in Seqs /\ lastSeq' # None /\ s <= lastSeq'
          /\ lastSeq # None => lastSeq <= lastSeq'
      BY <1>1, <3>1, <3>2, <3>3, <3>4, HeardKnown DEF Tracked
    <3>6. DOMAIN nacks' \subseteq Seqs
      <4>1. DOMAIN NacksAfter(s) \subseteq DOMAIN nacks \cup Asked(s) BY <3>3, NacksAfterOf
      <4>2. QED BY <3>2, <4>1, AskedBlocks DEF Tracked, AirTyped
    <3>7. AirTyped' BY <1>1, <3>4, <3>5, <3>6 DEF Tracked, AirTyped
    <3>8. QED BY <3>5, <3>7
  <2>2. ASSUME Junk(h)
        PROVE  /\ KnownSoFar' /\ AirTyped' /\ \A x : Known(x) => Known(x)'
               /\ lastSeq # None => lastSeq' # None /\ lastSeq <= lastSeq'
    <3>1. /\ lastSeq' = lastSeq /\ nacks' = Without(nacks, Expired(nacks))
          /\ Forget(Expired(nacks))
      BY <2>2 DEF Junk
    <3>2. DOMAIN nacks' = DOMAIN nacks \ Expired(nacks) BY <3>1 DEF Without, Restrict
    <3>3. read' \subseteq got' /\ got \subseteq got' BY <1>1 DEF Tracked, AirTyped
    <3>4. unasked \subseteq unasked' BY <3>1 DEF Forget
    <3>5. \A x \in Expired(nacks) : x \in got' \/ Stream[x].id \in unasked'
      BY <3>1, <3>3 DEF Forget
    <3>6. \A x : Known(x) => Known(x)' BY <3>2, <3>3, <3>4, <3>5, KnownStays
    <3>7. KnownSoFar' BY <3>1, <3>6 DEF Tracked, KnownSoFar
    <3>8. AirTyped' BY <1>1, <3>1, <3>2, <3>3 DEF Tracked, AirTyped
    <3>9. lastSeq # None => lastSeq <= lastSeq
      BY BlockIds DEF Tracked, AirTyped
    <3>10. QED BY <3>1, <3>6, <3>7, <3>8, <3>9
  <2>3. QED BY <2>1, <2>2
<1>6. QED BY <1>1, <1>2, <1>3, <1>4, <1>5, StillTracked

\* The first of a sequence and the rest.
LEMMA HeadAndRest ==
  ASSUME NEW q \in Seq(Ids), q # <<>>
  PROVE  Head(q) \in Ids /\ Tail(q) \in Seq(Ids) /\ Range(q) = {Head(q)} \cup Range(Tail(q))
<1>1. /\ Head(q) = q[1] /\ Tail(q) \in Seq(Ids) /\ Len(Tail(q)) = Len(q) - 1
      /\ Len(q) \in Nat /\ Len(q) >= 1
      /\ \A n \in 1 .. Len(q) - 1 : Tail(q)[n] = q[n + 1]
  BY HeadTailProperties
<1>2. 1 \in 1 .. Len(q) BY <1>1
<1>3. ASSUME NEW n \in 1 .. Len(q) PROVE q[n] \in {Head(q)} \cup Range(Tail(q))
  <2>1. CASE n = 1 BY <1>1, <2>1
  <2>2. CASE n # 1
    <3>1. n - 1 \in 1 .. Len(q) - 1 /\ (n - 1) + 1 = n BY <1>1, <2>2
    <3>2. n - 1 \in DOMAIN Tail(q) /\ Tail(q)[n - 1] = q[n] BY <1>1, <3>1
    <3>3. QED BY <3>2 DEF Range
  <2>3. QED BY <2>1, <2>2
<1>4. ASSUME NEW x \in Range(Tail(q)) PROVE x \in Range(q)
  <2>1. PICK n \in 1 .. Len(q) - 1 : Tail(q)[n] = x BY <1>1, <1>4 DEF Range
  <2>2. n + 1 \in 1 .. Len(q) /\ q[n + 1] = x BY <1>1, <2>1
  <2>3. QED BY <2>2 DEF Range
<1>5. Head(q) \in Range(q) BY <1>1, <1>2 DEF Range
<1>6. Range(q) = {Head(q)} \cup Range(Tail(q)) BY <1>3, <1>4, <1>5 DEF Range
<1>7. Head(q) \in Ids BY <1>1, <1>2
<1>8. QED BY <1>1, <1>6, <1>7

\* What is said of frames that wait is said of ids in order.
LEMMA QueueOrder ==
  ASSUME IInv, NoWrap, next # None, NEW i \in queue
  PROVE  i \in Nat /\ next \in Nat /\ next <= i /\ i <= next + AHEAD
BY Cursor, IdsFacts DEF IInv, TypeOK, Straight

\* A completed frame is queued, dropped as too late, or starts the numbering over.
LEMMA InsertTracked ==
  ASSUME Apart, AirInv, Tracked, InsertCompleted, ~FarBehind
  PROVE  Tracked'
<1> DEFINE i == Head(completed)
<1>1. /\ phase = "insert" /\ completed # <<>> /\ completed' = Tail(completed)
      /\ phase' = phase /\ completed \in Seq(Ids)
  BY DEF InsertCompleted, Insert, AirInv, IInv, TypeOK
<1>2. i \in Ids /\ Range(completed) = {i} \cup Range(completed') BY <1>1, HeadAndRest
<1>3. i \in Nat /\ i <= MaxId /\ MaxId \in Nat /\ IdMod \in Nat /\ BEHIND \in Nat /\ AHEAD \in Nat
  BY <1>2, IdsFacts, ReorderAssumption
<1>4. next # None => next \in Nat /\ next <= MaxId + 1 BY Cursor DEF Apart, AirInv
<1>5. MaxId + 1 + AHEAD < IdMod /\ MaxId + 1 + BEHIND < IdMod BY DEF Apart, NoWrap
<1>6. Emptied' BY <1>1 DEF Emptied
<1>7. next # None => (i < next => TooLate(i)) BY <1>1 DEF FarBehind
<1>8. InReach(i) \/ next # None
  <2>1. next = None => Ahead(i) = 0 BY DEF Ahead
  <2>2. QED BY <1>3, <2>1 DEF InReach
<1>9. next # None /\ i >= next => Ahead(i) = i - next BY <1>3, <1>4 DEF Ahead, WrappingSub
<1>10. CASE InReach(i)
  <2>1. Enqueue(i) /\ UNCHANGED air BY <1>10 DEF InsertCompleted, Insert
  <2>2. queue' = queue \cup {i} /\ (next # None => next' = next) /\ asked' = asked
    BY <2>1 DEF Enqueue
  <2>3. \A j : Taken(j) => Taken(j)' BY <1>2, <2>2 DEF Taken
  <2>4. \A x : Known(x) => Known(x)' BY <2>1 DEF Known, air
  <2>5. AirTyped' /\ Silent' /\ KnownSoFar'
    BY <1>1, <2>1, <2>2 DEF Tracked, AirTyped, Silent, KnownSoFar, Known, air
  <2>6. lastSeq # None => lastSeq <= lastSeq BY BlockIds DEF Tracked, AirTyped
  <2>7. queue' \cup Range(completed') \subseteq queue \cup Range(completed) BY <1>2, <2>2
  <2>8. QED BY <1>6, <2>1, <2>3, <2>4, <2>5, <2>6, <2>7, StillTracked DEF air
<1>11. CASE ~InReach(i) /\ TooLate(i)
  <2>1. UNCHANGED <<next, queue, asked>> /\ UNCHANGED air BY <1>11 DEF InsertCompleted, Insert
  <2>2. i < next
    <3>1. ~(i >= next)
      <4> SUFFICES ASSUME i >= next PROVE FALSE
        OBVIOUS
      <4>1. i - next > IdMod - 1 - BEHIND BY <1>8, <1>9, <1>11 DEF TooLate
      <4>2. QED BY <1>3, <1>4, <1>5, <1>8, <1>11, <4>1
    <3>2. QED BY <1>3, <1>4, <1>8, <1>11, <3>1
  <2>3. \A j : Taken(j) => Taken(j)' BY <1>2, <1>8, <1>11, <2>1, <2>2 DEF Taken
  <2>4. \A x : Known(x) => Known(x)' BY <2>1 DEF Known, air
  <2>5. AirTyped' /\ Silent' /\ KnownSoFar'
    BY <1>1, <2>1 DEF Tracked, AirTyped, Silent, KnownSoFar, Known, air
  <2>6. lastSeq # None => lastSeq <= lastSeq BY BlockIds DEF Tracked, AirTyped
  <2>7. queue' \cup Range(completed') \subseteq queue \cup Range(completed) BY <1>2, <2>1
  <2>8. QED BY <1>6, <2>1, <2>3, <2>4, <2>5, <2>6, <2>7, StillTracked DEF air
<1>12. CASE ~InReach(i) /\ ~TooLate(i)
  <2>1. /\ Resync(i) /\ lastSeq' = None /\ read' = {} /\ nacks' = <<>> /\ funnel' = NewFunnel
        /\ unasked' = unasked \cup {Stream[s].id : s \in DOMAIN nacks}
        /\ dropped' = dropped \cup DOMAIN funnel.pending /\ got' = got
    BY <1>12 DEF InsertCompleted, Insert
  <2>2. queue' = {i} /\ next' = i BY <2>1 DEF Resync
  <2>3. next # None /\ i >= next /\ i - next > AHEAD
    BY <1>3, <1>4, <1>7, <1>8, <1>9, <1>12 DEF InReach
  <2>4. ASSUME NEW j \in Ids, Taken(j) PROVE Taken(j)'
    <3>1. next' # None BY <1>2, <2>2, IdsFacts
    <3>2. CASE j \in queue
      <4>1. j \in Nat /\ j <= next + AHEAD BY <2>3, <3>2, QueueOrder DEF Apart, AirInv
      <4>2. j < i BY <1>3, <1>4, <2>3, <4>1
      <4>3. QED BY <2>2, <3>1, <4>2 DEF Taken
    <3>3. CASE j \in Range(completed) BY <1>2, <2>2, <3>3 DEF Taken
    <3>4. CASE j \notin queue /\ j \notin Range(completed)
      <4>1. j < next BY <2>4, <3>4 DEF Taken
      <4>2. j < i BY <1>3, <1>4, <2>3, <4>1, IdsFacts
      <4>3. QED BY <2>2, <3>1, <4>2 DEF Taken
    <3>5. QED BY <3>2, <3>3, <3>4
  <2>5. DOMAIN nacks' = {} /\ DOMAIN funnel'.pending = {} /\ funnel'.done = <<>>
    BY <2>1 DEF NewFunnel
  <2>6. \A x : Known(x) => Known(x)' BY <2>1, KnownStays
  <2>7. /\ AirTyped' /\ Silent' /\ KnownSoFar' /\ BegunSince'
    <3>1. funnel'.done \in Seq(Ids) BY <2>5, EmptySeq
    <3>2. QED
      BY <2>1, <2>5, <3>1 DEF Tracked, AirTyped, Silent, KnownSoFar, BegunSince
  <2>8. DoneTaken' BY <2>5 DEF DoneTaken, Range
  <2>9. KnownBefore' BY <1>2, <2>2, <2>6 DEF Tracked, KnownBefore
  <2>10. Kept'
    <3> SUFFICES ASSUME NEW x \in got' PROVE Stream[x].id \in dropped' \/ Taken(Stream[x].id)'
      BY DEF Kept
    <3>1. x \in got /\ Stream[x].id \in Ids BY <2>1, BlockIds DEF Tracked, AirTyped
    <3>2. Stream[x].id \in DOMAIN funnel.pending \cup dropped \/ Taken(Stream[x].id)
      BY <3>1 DEF Tracked, Kept
    <3>3. QED BY <2>1, <2>4, <3>1, <3>2
  <2>11. QED BY <1>6, <2>7, <2>8, <2>9, <2>10 DEF Tracked
<1>13. QED BY <1>10, <1>11, <1>12

\* The steps of the reorder stage that move the cursor forward at most, and time.
LEMMA OnwardTracked ==
  ASSUME Tracked, UNCHANGED <<read, lastSeq, got, dropped, unasked>>,
         DOMAIN nacks' = DOMAIN nacks, funnel'.done = funnel.done,
         DOMAIN funnel'.pending = DOMAIN funnel.pending,
         completed = <<>>, completed' = <<>>, asked' = asked, phase' # "recv" => phase # "recv",
         queue' \subseteq queue, \A i \in Ids : Taken(i) => Taken(i)'
  PROVE  Tracked'
<1>1. \A x : Known(x) => Known(x)' BY DEF Known
<1>2. AirTyped' /\ KnownSoFar' BY <1>1 DEF Tracked, AirTyped, KnownSoFar
<1>3. Silent' /\ Emptied' BY DEF Tracked, Silent, Emptied
<1>4. lastSeq # None => lastSeq <= lastSeq BY BlockIds DEF Tracked, AirTyped
<1>5. QED BY <1>1, <1>2, <1>3, <1>4, StillTracked

\* A frame is released, or a hole is skipped.
LEMMA ReleaseTracked ==
  ASSUME Apart, AirInv, Tracked, ReleaseStep
  PROVE  Tracked'
<1>1. NoWrap /\ IInv BY DEF Apart, AirInv
<1>2. phase = "release" /\ UNCHANGED air /\ completed' = completed /\ asked' = asked
  BY DEF ReleaseStep, Deliver, SkipPhantom, SkipLost, Wait, AtHole
<1>3. completed = <<>> BY <1>2 DEF Tracked, Emptied
<1>4. next # None => /\ next \in Nat /\ WrappingInc(next) = next + 1
  BY <1>1, Cursor DEF WrappingInc, NoWrap
<1>5. queue' \subseteq queue /\ \A i \in Ids : Taken(i) => Taken(i)'
  <2>1. CASE Deliver
    <3>1. next \in queue /\ queue' = queue \ {next} /\ next' = WrappingInc(next)
      BY <2>1 DEF Deliver
    <3>2. next # None BY <1>1, <3>1, IdsFacts DEF IInv, TypeOK
    <3>3. next' = next + 1 /\ next' # None BY <1>4, <3>1, <3>2, ReorderAssumption
    <3>4. ASSUME NEW i \in Ids, Taken(i) PROVE Taken(i)'
      <4>1. CASE i \in queue /\ i # next BY <3>1, <4>1 DEF Taken
      <4>2. CASE i = next
        <5>1. i < next' BY <1>4, <3>2, <3>3, <4>2
        <5>2. QED BY <3>3, <5>1 DEF Taken
      <4>3. CASE i \in Range(completed) BY <1>2, <4>3 DEF Taken
      <4>4. CASE i < next
        <5>1. i < next' BY <1>4, <3>2, <3>3, <4>4, IdsFacts
        <5>2. QED BY <3>3, <5>1 DEF Taken
      <4>5. QED BY <3>4, <4>1, <4>2, <4>3, <4>4 DEF Taken
    <3>5. QED BY <3>1, <3>4
  <2>2. CASE SkipPhantom(HoleAtCursor) \/ SkipLost(HoleAtCursor)
    <3>1. queue' = queue /\ next # None BY <2>2 DEF SkipPhantom, SkipLost, AtHole
    <3>2. next' \in Nat /\ next <= next' /\ next' # None
      <4>1. CASE SkipPhantom(HoleAtCursor)
        <5>1. next' = next + 1 BY <1>4, <3>1, <4>1 DEF SkipPhantom
        <5>2. QED BY <1>4, <3>1, <5>1, ReorderAssumption
      <4>2. CASE SkipLost(HoleAtCursor)
        <5>1. next' = FirstQueued BY <4>2 DEF SkipLost
        <5>2. queue # {} BY <4>2 DEF SkipLost, TimedOut
        <5>3. FirstQueued \in queue BY <1>1, <5>2, FirstQueuedExists DEF IInv, TypeOK
        <5>4. QED BY <1>1, <3>1, <5>1, <5>3, QueueOrder, ReorderAssumption
      <4>3. QED BY <2>2, <4>1, <4>2
    <3>3. ASSUME NEW i \in Ids, Taken(i) PROVE Taken(i)'
      <4>1. CASE i < next
        <5>1. i < next' BY <1>4, <3>1, <3>2, <4>1, IdsFacts
        <5>2. QED BY <3>2, <5>1 DEF Taken
      <4>2. CASE ~(i < next) BY <1>2, <3>1, <3>3, <4>2 DEF Taken
      <4>3. QED BY <4>1, <4>2
    <3>4. QED BY <3>1, <3>3
  <2>3. CASE Wait(HoleAtCursor)
    <3>1. queue' = queue /\ next' = next BY <2>3 DEF Wait
    <3>2. QED BY <1>2, <3>1 DEF Taken
  <2>4. QED BY <2>1, <2>2, <2>3 DEF ReleaseStep
<1>6. QED BY <1>2, <1>3, <1>5, OnwardTracked DEF air

\* Time passes.
LEMMA TimeTracked ==
  ASSUME AirInv, Tracked, TimePasses
  PROVE  Tracked'
<1>1. /\ phase = "recv" /\ phase' = "recv" /\ UNCHANGED <<completed, next, queue, asked>>
      /\ UNCHANGED <<read, lastSeq, got, dropped, unasked>> /\ DOMAIN nacks' = DOMAIN nacks
      /\ funnel' = Older(funnel)
  BY DEF TimePasses, Tick
<1>2. completed = <<>> /\ completed' = <<>> BY <1>1 DEF Tracked, Emptied
<1>3. funnel = [pending |-> funnel.pending, done |-> funnel.done]
  BY DEF AirInv, Backed, FunnelBacked
<1>4. funnel'.done = funnel.done /\ DOMAIN funnel'.pending = DOMAIN funnel.pending
  <2> DEFINE p == [i \in DOMAIN funnel.pending |-> OlderEntry(funnel.pending[i])]
  <2>1. Older(funnel) = [funnel EXCEPT !.pending = p] BY DEF Older
  <2>2. DOMAIN p = DOMAIN funnel.pending OBVIOUS
  <2> HIDE DEF p
  <2>3. Older(funnel) = [pending |-> p, done |-> funnel.done] BY <1>3, <2>1
  <2>4. QED BY <1>1, <2>2, <2>3
<1>5. \A i \in Ids : Taken(i) => Taken(i)' BY <1>1 DEF Taken
<1>6. QED BY <1>1, <1>2, <1>4, <1>5, OnwardTracked

\* Every step but a frame far behind keeps track.
LEMMA TrackedStep ==
  ASSUME Apart, AirInv, Tracked, ~FarBehind, [DeliveryNext]_allVars
  PROVE  Tracked'
<1>1. CASE \E h \in Holds, s \in Seqs : Read(s, h)
  BY <1>1, ReadTracked
<1>2. CASE \E h \in Holds : Junk(h) \/ \E s \in Seqs : Garbled(s, h)
  BY <1>2, NothingTracked
<1>3. CASE InsertCompleted
  BY <1>3, InsertTracked
<1>4. CASE Inserted /\ UNCHANGED air
  <2>1. UNCHANGED <<completed, next, queue, asked>> /\ phase = "insert" /\ completed = <<>>
    BY <1>4 DEF Inserted
  <2>2. \A i \in Ids : Taken(i) => Taken(i)' BY <2>1 DEF Taken
  <2>3. QED BY <1>4, <2>1, <2>2, OnwardTracked DEF air
<1>5. CASE ReleaseStep
  BY <1>5, ReleaseTracked
<1>6. CASE TimePasses
  BY <1>6, TimeTracked
<1>7. CASE UNCHANGED allVars
  <2>1. UNCHANGED <<phase, completed, next, queue, asked>> /\ UNCHANGED air
    BY <1>7 DEF allVars, vars
  <2>2. AirTyped' /\ Silent' /\ Emptied' /\ KnownSoFar' /\ KnownBefore'
    BY <2>1 DEF Tracked, AirTyped, Silent, Emptied, KnownSoFar, KnownBefore, Known, air
  <2>3. BegunSince' /\ Kept' /\ DoneTaken'
    BY <2>1 DEF Tracked, BegunSince, Kept, DoneTaken, Taken, air
  <2>4. QED BY <2>2, <2>3 DEF Tracked
<1>8. QED BY <1>1, <1>2, <1>3, <1>4, <1>5, <1>6, <1>7 DEF DeliveryNext

\* The cursor goes past an id as a phantom: blocks it has are passed over or thrown away.
LEMMA PhantomExplained ==
  ASSUME Apart, AirInv, Tracked, [DeliveryNext]_allVars, phantoms' > phantoms, SeqsOf(next) # {}
  PROVE  next \in dropped \/ next \in unasked
<1>1. NoWrap /\ IInv BY DEF Apart, AirInv
<1>2. phantoms \in Nat BY <1>1 DEF IInv, TypeOK
<1>3. SkipPhantom(HoleAtCursor)
  <2> SUFFICES ASSUME ~SkipPhantom(HoleAtCursor) PROVE FALSE
    OBVIOUS
  <2>1. phantoms' # phantoms BY <1>2
  <2>2. ~(phantoms' = 0) BY <1>2
  <2>3. CASE InsertCompleted
    BY <2>1, <2>2, <2>3 DEF InsertCompleted, Insert, Enqueue, Resync, counts
  <2>4. CASE UNCHANGED allVars BY <2>1, <2>4 DEF allVars, vars, counts
  <2>5. CASE ReleaseStep
    BY <2>1, <2>5 DEF ReleaseStep, Deliver, SkipLost, Wait, counts
  <2>6. CASE TimePasses \/ Inserted
    BY <2>1, <2>6 DEF TimePasses, Tick, Inserted, counts
  <2>7. CASE \E h \in Holds : (\E s \in Seqs : Read(s, h) \/ Garbled(s, h)) \/ Junk(h)
    <3>1. \E c, a, h : Capture(c, a, h) BY <2>7 DEF Read, Garbled, Junk
    <3>2. QED BY <2>1, <3>1 DEF Capture, counts
  <2>8. QED BY <2>3, <2>4, <2>5, <2>6, <2>7 DEF DeliveryNext
<1>4. /\ phase = "release" /\ next # None /\ next \notin queue /\ queue # {} /\ ~asked
      /\ HoleAtCursor = "unseen"
  BY <1>3 DEF SkipPhantom, AtHole, Phantom
<1>5. next \notin DOMAIN funnel.pending
  BY <1>4 DEF HoleAtCursor, HasPartial
<1>6. next \in Nat BY <1>1, <1>4, Cursor
<1>7. PICK j \in queue : TRUE BY <1>4
<1>8. j \in Nat /\ next <= j BY <1>1, <1>4, <1>7, QueueOrder
<1>9. next < j BY <1>4, <1>6, <1>7, <1>8
<1>10. PICK s \in SeqsOf(next) : TRUE OBVIOUS
<1>11. s \in Seqs /\ Stream[s].id = next BY <1>10 DEF SeqsOf
<1>12. Known(s) BY <1>7, <1>9, <1>11 DEF Tracked, KnownBefore
<1>13. s \notin DOMAIN nacks BY <1>4 DEF Tracked, Silent
<1>14. CASE s \in got
  <2>1. completed = <<>> BY <1>4 DEF Tracked, Emptied
  <2>2. ~Taken(next) BY <1>4, <1>6, <2>1 DEF Taken, Range
  <2>3. next \in DOMAIN funnel.pending \cup dropped
    BY <1>11, <1>14, <2>2 DEF Tracked, Kept
  <2>4. QED BY <1>5, <2>3
<1>15. QED BY <1>11, <1>12, <1>13, <1>14 DEF Known

\* A frame that was sent is taken for a phantom only if the funnel threw blocks of it away, or
\* some of its blocks are missing and no NACK covers them any more: skipping an unseen id at once
\* (demod_loop) does not hide a loss that is still being repaired, however blocks are lost,
\* garbled, repeated and overtaken, as long as no frame is completed so late that it passes for
\* a restart of the numbering.
THEOREM AlwaysVanishedExplained == Apart => (DeliverySpec /\ []~FarBehind => VanishedExplained)
<1> SUFFICES ASSUME Apart PROVE DeliverySpec /\ []~FarBehind => VanishedExplained
  OBVIOUS
<1> DEFINE Inv == AirInv /\ Tracked
           Explained == phantoms' > phantoms /\ SeqsOf(next) # {}
                          => next \in dropped \/ next \in unasked
<1>1. DeliveryInit => Inv
  BY InitAir, InitTracked DEF Apart
<1>2. Inv /\ ~FarBehind /\ [DeliveryNext]_allVars => Inv'
  BY DeliveryStep, TrackedStep DEF Apart
<1>3. Inv /\ [DeliveryNext]_allVars => [Explained]_allVars
  BY PhantomExplained
<1>4. QED
  BY <1>1, <1>2, <1>3, PTL DEF DeliverySpec, VanishedExplained

=============================================================================
