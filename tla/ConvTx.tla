------------------------------- MODULE ConvTx -------------------------------
(***************************************************************************)
(* The conv transmit path of nyx-tx (apps/video/nyx-tx/src/conv_tx.rs).    *)
(*                                                                         *)
(* Two threads meet at one queue, the `lane`: the capture/encode WORKER    *)
(* fills it and the `conv-tx` SENDER empties it onto the connection to the *)
(* board.  The queue is a mutex with two condition variables:              *)
(*   ready   the sender sleeps on it while the queue is empty,             *)
(*   room    the worker sleeps on it in push_wait (camera pass-through)    *)
(*           while the queue holds all the air time it may.                *)
(* One critical section is one action; a notification that follows the     *)
(* unlock is an action of its own, since the other thread may run between. *)
(*                                                                         *)
(* A block is the record [seq, kind, air]: `kind` says by which call it    *)
(* was queued, `air` is what it takes on air at the rung of that moment    *)
(* (air_us).  The payload and the rung the sender finally chooses do not   *)
(* touch the queue and are left out, and with them the statistics          *)
(* SENT_MCS, BASE_IN and CQ_OUT.                                           *)
(***************************************************************************)
EXTENDS Integers, Sequences, FiniteSets, SequencesExt

CONSTANTS
  Airs,           \* the air times a block may take on the rungs in use
  CQ_MAX_AIR_US,  \* the queue is full at this much air
  CQ_MAX_BLOCKS,  \* ... and at this many blocks
  MaxSeq,         \* bound: blocks the worker numbers
  MaxAgain,       \* bound: retransmissions and duplicates the worker queues
  None            \* no block

Kinds == {"data", "base", "camera", "dup", "retx"}
Block == [seq : 1 .. MaxSeq, kind : Kinds, air : Airs]

ASSUME ConvTxAssumption ==
  /\ Airs \subseteq Nat \ {0}   \* every block takes at least one air frame
  /\ CQ_MAX_AIR_US \in Nat /\ CQ_MAX_BLOCKS \in Nat \ {0}
  /\ MaxSeq \in Nat /\ MaxAgain \in Nat
  /\ None \notin Block

VARIABLES
  items,      \* the queue: blocks waiting for the sender
  retxHead,   \* retransmissions at the head of the queue
  airUs,      \* the queue's account of the air time waiting in it
  closed,     \* the worker that fills the queue is gone
  workerPc,   \* where the worker is
  waiting,    \* the block push_wait holds while it waits for room
  senderPc,   \* where the sender is
  held,       \* the block the sender has taken and not yet disposed of
  link,       \* what Net::send meets: a connection, none, or UDP mode
  stop,       \* shared.stop: the program is closing
  seq,        \* the last sequence number the worker gave out
  cached,     \* blocks the worker can send again (base-layer blocks are not kept)
  again,      \* retransmissions and duplicates queued so far (bound)
  cqIn,       \* CQ_IN: blocks placed in the queue
  cqDrop,     \* CQ_DROP: blocks dropped because the queue was full
  sent,       \* history: how many blocks were written to the socket
  freshSent,  \* history: the last sequence number written for the first time
  lost        \* history: how many blocks went nowhere, for each reason

queue == <<items, retxHead, airUs, closed>>
work  == <<seq, cached, again>>
env   == <<link, stop>>
wire  == <<sent, freshSent>>
vars  == <<queue, workerPc, waiting, senderPc, held, env, work, cqIn, cqDrop, wire, lost>>

Fresh == {"data", "base", "camera"}
Reasons == {"full", "uncarried", "stopped"}

Init ==
  /\ items = <<>> /\ retxHead = 0 /\ airUs = 0 /\ closed = FALSE
  /\ workerPc = "run" /\ waiting = None
  /\ senderPc = "idle" /\ held = None
  /\ link = "down" /\ stop = FALSE
  /\ seq = 0 /\ cached = {} /\ again = 0
  /\ cqIn = 0 /\ cqDrop = 0 /\ sent = 0 /\ freshSent = 0
  /\ lost = [r \in Reasons |-> 0]

Lose(why) == lost' = [lost EXCEPT ![why] = @ + 1]

-----------------------------------------------------------------------------
(* The worker.                                                             *)

NewBlock(s, kind, air) == [seq |-> s, kind |-> kind, air |-> air]

\* The full-queue test of push_mcs and push_wait: an empty account always admits
\* (faulty variant: a queue that is not yet full admits a block of any length).
FullAfterwards(air) == airUs > 0 /\ (airUs > CQ_MAX_AIR_US \/ Len(items) >= CQ_MAX_BLOCKS)
Full(air) ==
  /\ airUs > 0
  /\ airUs + air > CQ_MAX_AIR_US \/ Len(items) >= CQ_MAX_BLOCKS

\* A block at the end of the queue (faulty variant: ahead of what waits).
PushAhead(b) ==
  /\ items' = <<b>> \o items
  /\ airUs' = airUs + b.air
  /\ workerPc' = "notify"
  /\ UNCHANGED <<retxHead, closed>>
PushBack(b) ==
  /\ items' = Append(items, b)
  /\ airUs' = airUs + b.air
  /\ workerPc' = "notify"
  /\ UNCHANGED <<retxHead, closed>>

\* push_mcs: queue the block, or drop it when the queue is full of air.
PushMcs(b) ==
  IF Full(b.air)
  THEN /\ cqDrop' = cqDrop + 1
       /\ Lose("full")
       /\ UNCHANGED <<queue, workerPc>>
  ELSE PushBack(b) /\ UNCHANGED <<cqDrop, lost>>

\* The next block of the main layer ("data") or of the simulcast base layer ("base").
Push(kind, air) ==
  /\ workerPc = "run" /\ seq < MaxSeq
  /\ seq' = seq + 1
  /\ cached' = IF kind = "data" THEN cached \cup {seq + 1} ELSE cached
  /\ PushMcs(NewBlock(seq + 1, kind, air))
  /\ UNCHANGED <<again, waiting, senderPc, held, env, cqIn, wire>>

\* The delayed second copy of a block already numbered (dup_q): an ordinary push.
PushDup(s, air) ==
  /\ workerPc = "run" /\ again < MaxAgain
  /\ again' = again + 1
  /\ PushMcs(NewBlock(s, "dup", air))
  /\ UNCHANGED <<seq, cached, waiting, senderPc, held, env, cqIn, wire>>

\* How many blocks a retransmission goes behind (faulty variant: all of them).
RetxAtBack == Len(items)
RetxAt == IF retxHead < Len(items) THEN retxHead ELSE Len(items)

\* push_retx: behind the retransmissions asked for before it, ahead of everything else.
PushRetx(s, air) ==
  /\ workerPc = "run" /\ again < MaxAgain
  /\ again' = again + 1
  /\ items' = InsertAt(items, RetxAt + 1, NewBlock(s, "retx", air))
  /\ retxHead' = RetxAt + 1
  /\ airUs' = airUs + air
  /\ workerPc' = "notify"
  /\ UNCHANGED <<closed, seq, cached, waiting, senderPc, held, env, cqIn, cqDrop, wire, lost>>

\* push_wait (camera pass-through): the block waits for room instead of being dropped.
PushWait(air) ==
  /\ workerPc = "run" /\ seq < MaxSeq
  /\ seq' = seq + 1
  /\ cached' = cached \cup {seq + 1}
  /\ waiting' = NewBlock(seq + 1, "camera", air)
  /\ workerPc' = "recheck"
  /\ UNCHANGED <<queue, again, senderPc, held, env, cqIn, cqDrop, wire, lost>>

\* The loop of push_wait, entered and re-entered under the lock: sleep on `room` while
\* the queue is full, push when it is not.
PushWaitRecheck ==
  /\ workerPc = "recheck"
  /\ IF Full(waiting.air) /\ ~closed
     THEN workerPc' = "room" /\ UNCHANGED <<queue, waiting>>
     ELSE PushBack(waiting) /\ waiting' = None
  /\ UNCHANGED <<senderPc, held, env, work, cqIn, cqDrop, wire, lost>>

\* The 2 s are over: the block is pushed whatever the queue holds.
PushWaitTimeout ==
  /\ workerPc = "room"
  /\ PushBack(waiting) /\ waiting' = None
  /\ UNCHANGED <<senderPc, held, env, work, cqIn, cqDrop, wire, lost>>

\* Who runs again after a notification (faulty variant of the sender's: nobody does).
SenderNotWoken == senderPc
WokenSender == IF senderPc = "asleep" THEN "idle" ELSE senderPc
WokenWorker == IF workerPc = "room" THEN "recheck" ELSE workerPc

\* After the unlock of a push: CQ_IN, then ready.notify_one.
NotifyReady ==
  /\ workerPc = "notify"
  /\ cqIn' = cqIn + 1
  /\ senderPc' = WokenSender
  /\ workerPc' = "run"
  /\ UNCHANGED <<queue, waiting, held, env, work, cqDrop, wire, lost>>

\* The worker ends and ConvTx is dropped: the queue closes, then both conditions
\* are notified (the worker, which owns the queue, is not waiting on its own).
Close ==
  /\ workerPc = "run"
  /\ closed' = TRUE
  /\ workerPc' = "closing"
  /\ UNCHANGED <<items, retxHead, airUs, waiting, senderPc, held, env, work, cqIn,
                 cqDrop, wire, lost>>

NotifyClosed ==
  /\ workerPc = "closing"
  /\ senderPc' = WokenSender
  /\ workerPc' = "gone"
  /\ UNCHANGED <<queue, waiting, held, env, work, cqIn, cqDrop, wire, lost>>

-----------------------------------------------------------------------------
(* The sender.                                                             *)

\* The two accounts after the head of the queue is taken.
Saturate(n) == IF n > 0 THEN n ELSE 0
AirAfterTake == Saturate(airUs - Head(items).air)
RetxHeadAfterTake == Saturate(retxHead - 1)

Take ==
  /\ senderPc = "idle" /\ items # <<>>
  /\ held' = Head(items)
  /\ items' = Tail(items)
  /\ retxHead' = RetxHeadAfterTake
  /\ airUs' = AirAfterTake
  /\ senderPc' = "taken"
  /\ UNCHANGED <<closed, workerPc, waiting, env, work, cqIn, cqDrop, wire, lost>>

\* Nothing waits: sleep on `ready`, or end if the queue is closed.
SleepOrEnd ==
  /\ senderPc = "idle" /\ items = <<>>
  /\ senderPc' = IF closed THEN "done" ELSE "asleep"
  /\ UNCHANGED <<queue, workerPc, waiting, held, env, work, cqIn, cqDrop, wire, lost>>

\* After the unlock: room.notify_all; then the stop flag, which ends the sender with
\* the block it holds (faulty variant: the block is put aside and forgotten).
StopForgets == UNCHANGED lost
StopLoses == Lose("stopped")
NotifyRoom ==
  /\ senderPc = "taken"
  /\ workerPc' = WokenWorker
  /\ IF stop
     THEN senderPc' = "done" /\ held' = None /\ StopLoses
     ELSE senderPc' = "pacing" /\ UNCHANGED <<held, lost>>
  /\ UNCHANGED <<queue, waiting, env, work, cqIn, cqDrop, wire>>

\* Wait for the air, then Net::send: written when connected; a write error drops the
\* connection and the block; without a connection the block goes nowhere; in UDP mode
\* send answers TRUE for a kind of message it does not carry.
SendPaced ==
  /\ senderPc = "pacing"
  /\ senderPc' = "idle" /\ held' = None
  /\ \/ /\ link = "up"
        /\ sent' = sent + 1
        /\ freshSent' = IF held.kind \in Fresh THEN held.seq ELSE freshSent
        /\ UNCHANGED <<link, lost>>
     \/ /\ link \in {"up", "down"}
        /\ link' = "down"
        /\ Lose("uncarried")
        /\ UNCHANGED wire
     \/ /\ link = "udp"
        /\ Lose("uncarried")
        /\ UNCHANGED <<link, wire>>
  /\ UNCHANGED <<queue, workerPc, waiting, stop, work, cqIn, cqDrop>>

-----------------------------------------------------------------------------
(* The rest of the program.                                                *)

\* The network thread connects, loses the connection, or the user toggles UDP mode.
LinkChanges(l) ==
  /\ l # link /\ link' = l
  /\ UNCHANGED <<queue, workerPc, waiting, senderPc, held, stop, work, cqIn, cqDrop, wire, lost>>

\* The program is told to close.
Stop ==
  /\ ~stop /\ stop' = TRUE
  /\ UNCHANGED <<queue, workerPc, waiting, senderPc, held, link, work, cqIn, cqDrop, wire, lost>>

-----------------------------------------------------------------------------
Worker ==
  \/ \E air \in Airs :
       \/ Push("data", air) \/ Push("base", air) \/ PushWait(air)
       \/ \E s \in cached : PushDup(s, air) \/ PushRetx(s, air)
  \/ PushWaitRecheck \/ PushWaitTimeout
  \/ NotifyReady \/ Close \/ NotifyClosed

Sender == Take \/ SleepOrEnd \/ NotifyRoom \/ SendPaced

Next ==
  \/ Worker
  \/ Sender
  \/ \E l \in {"up", "down", "udp"} : LinkChanges(l)
  \/ Stop

Spec == Init /\ [][Next]_vars

\* The operating system runs both threads.  Nothing makes the timeout, the link or the
\* worker's choice of what to push fair.
Fairness ==
  /\ WF_vars(Sender)
  /\ WF_vars(PushWaitRecheck) /\ WF_vars(NotifyReady) /\ WF_vars(NotifyClosed)

FairSpec == Spec /\ Fairness

-----------------------------------------------------------------------------
(* What the transmit path promises.                                        *)

WorkerPcs == {"run", "notify", "recheck", "room", "closing", "gone"}
SenderPcs == {"idle", "asleep", "taken", "pacing", "done"}

\* Every variable has its type; a block is in the worker's hand exactly while push_wait
\* runs, and in the sender's exactly between taking it and disposing of it.
TypeOK ==
  /\ items \in Seq(Block) /\ retxHead \in Nat /\ airUs \in Nat /\ closed \in BOOLEAN
  /\ workerPc \in WorkerPcs /\ senderPc \in SenderPcs
  /\ waiting \in Block \cup {None} /\ (waiting # None <=> workerPc \in {"recheck", "room"})
  /\ held \in Block \cup {None} /\ (held # None <=> senderPc \in {"taken", "pacing"})
  /\ link \in {"up", "down", "udp"} /\ stop \in BOOLEAN
  /\ seq \in 0 .. MaxSeq /\ cached \subseteq 1 .. seq /\ again \in 0 .. MaxAgain
  /\ cqIn \in Nat /\ cqDrop \in Nat /\ sent \in Nat /\ freshSent \in 0 .. seq
  /\ lost \in [Reasons -> Nat]

\* A block placed in the queue is in it, in the sender's hand, on the wire, or lost for
\* a reason this model names: no interleaving of the two threads loses one.
InHand == IF held = None THEN 0 ELSE 1
Uncounted == IF workerPc = "notify" THEN 1 ELSE 0
Conserved ==
  /\ cqIn + Uncounted = Len(items) + InHand + sent
       + lost["uncarried"] + lost["stopped"]
  /\ cqDrop = lost["full"]

\* What the numbers of a sequence come to.
SumOf(w) ==
  LET upTo[n \in 0 .. Len(w)] == IF n = 0 THEN 0 ELSE upTo[n - 1] + w[n] IN upTo[Len(w)]

\* The air that those of the blocks take that are of the kinds given.
TotalAir(blocks, kinds) ==
  SumOf([i \in DOMAIN blocks |-> IF blocks[i].kind \in kinds THEN blocks[i].air ELSE 0])

\* Blocks that may be dropped never hold more air than the bound, whatever mix of
\* retransmissions (never dropped) and camera blocks (pushed anyway after 2 s) waits
\* with them: a lone block longer than the bound is the only exception.  (The code decides by
\* a running sum; here the blocks are counted, so that a sum that drifts from them shows.)
Droppable == {"data", "base", "dup"}
AirBounded ==
  \/ TotalAir(items, Droppable) <= CQ_MAX_AIR_US
  \/ \A i, j \in DOMAIN items : items[i].kind \in Droppable /\ items[j].kind \in Droppable => i = j

\* The blocks the receiver expects in sequence (not the repeats) are written in sequence,
\* each at most once, however retransmissions and duplicates overtake them.
WireInOrder ==
  [][sent' # sent /\ held.kind \in Fresh => held.seq > freshSent]_vars

\* The sender takes an ordinary block only when no retransmission waits: the receiver
\* waits 300 ms for a hole and a retransmission behind a full queue comes too late.
RetxFirst ==
  [][held = None /\ held' # None /\ held'.kind # "retx"
       => \A i \in DOMAIN items : items[i].kind # "retx"]_vars

\* Whatever waits is taken in the end, as long as the sender is not told to stop.
Queued(s) == \E i \in DOMAIN items : items[i].seq = s
BlocksLeave == \A s \in 1 .. MaxSeq : Queued(s) ~> (~Queued(s) \/ senderPc = "done")

\* The wait for room ends because room comes, without the 2 s timeout.
RoomWaitEnds == workerPc = "room" ~> (workerPc # "room" \/ senderPc = "done")

\* When the worker ends, the sender drains the queue and ends too.
SenderEnds == closed ~> senderPc = "done"

\* Neither thread is left asleep with something to do for it: no order of the sections under
\* the lock, the notifications outside it and the end of the program loses a wake-up.
NothingStalls == BlocksLeave /\ RoomWaitEnds /\ SenderEnds

=============================================================================
