------------------------------ MODULE Delivery ------------------------------
(***************************************************************************)
(* From the air to the video decoder of nyx-rx: the link sequence of the   *)
(* blocks and the NACKs for its gaps, the reassembly funnel and the        *)
(* reorder stage, as demod_loop (apps/video/nyx-rx/src/lib.rs) runs them   *)
(* one after the other for each capture.                                   *)
(*                                                                         *)
(* The transmitter numbers its blocks 1, 2, ... over all frames; a block   *)
(* is lost, or read in its turn, or read later because it was sent again;  *)
(* a block the receiver has read before it skips.  A capture carries at    *)
(* most one block: the code takes the blocks of a longer one in turn and   *)
(* comes to the reorder stage once, after the last.  Here the link         *)
(* sequence is read right (LinkArq is about that), the transmitter does    *)
(* not restart (Reorder takes any restart), and only the main layer is     *)
(* sent.                                                                   *)
(***************************************************************************)
EXTENDS Reorder, Reassembler, SequencesExt

CONSTANTS
  NACK_SPAN,  \* a wider gap is not asked for (32)
  NACK_CAP,   \* no more gaps are asked for with this many NACKs open (nack_cap)
  NACK_FRESH, \* ... counting those younger than this (400 ms; with the cap at 8, all)
  NACK_KEEP   \* an unanswered NACK is forgotten after this long (2 s)

ASSUME DeliveryAssumption ==
  /\ DOMAIN Data = Ids
  /\ {NACK_SPAN, NACK_CAP, NACK_FRESH, NACK_KEEP} \subseteq Nat

\* The blocks in the order of transmission: each frame's data, then its parity.
BlocksOf(i) ==
  [n \in 1 .. Data[i] |-> [id |-> i, par |-> FALSE, idx |-> n - 1]] \o
  [n \in 1 .. Parity[i] |-> [id |-> i, par |-> TRUE, idx |-> n - 1]]
Stream ==
  LET upTo[n \in 0 .. MaxId + 1] == IF n = 0 THEN <<>> ELSE upTo[n - 1] \o BlocksOf(n - 1)
  IN  upTo[MaxId + 1]
Seqs == 1 .. Len(Stream)
SeqsOf(i) == {s \in Seqs : Stream[s].id = i}

VARIABLES
  read,       \* delivered_seqs: blocks read
  lastSeq,    \* last_link_seq (None: no block yet)
  nacks,      \* outstanding_nacks: how long ago each was sent
  funnel,     \* reasm
  got,        \* history: blocks ever read
  dropped,    \* history: frames the funnel gave up with some of their blocks
  unasked     \* history: frames with blocks passed over with no NACK, or whose NACK was forgotten

air == <<read, lastSeq, nacks, funnel, got, dropped, unasked>>
allVars == <<vars, air>>

DeliveryInit ==
  /\ Init
  /\ read = {} /\ lastSeq = None /\ nacks = <<>> /\ funnel = NewFunnel
  /\ got = {} /\ dropped = {} /\ unasked = {}

-----------------------------------------------------------------------------
(* Sequence numbers and NACKs.                                             *)

\* The gap in front of block s, and the part of it that is asked for.
Gap(s) == IF lastSeq = None THEN {} ELSE lastSeq + 1 .. s - 1
Fresh == {s \in DOMAIN nacks : nacks[s] < NACK_FRESH}
Asked(s) ==
  IF Cardinality(Gap(s)) < NACK_SPAN /\ Cardinality(Fresh) < NACK_CAP THEN Gap(s) ELSE {}

NewestSeq(s) == IF lastSeq = None \/ s > lastSeq THEN s ELSE lastSeq

\* A NACK already open keeps its time.
Open(ns, new) == [s \in DOMAIN ns \cup new |-> IF s \in DOMAIN ns THEN ns[s] ELSE 0]
Expired(ns) == {s \in DOMAIN ns : ns[s] >= NACK_KEEP}
Without(ns, gone) == Restrict(ns, DOMAIN ns \ gone)

\* Gap NACKs, then the block itself is an answer, then the old ones are forgotten.
NacksAfter(s) ==
  LET answered == Without(Open(nacks, Asked(s)), {s}) IN Without(answered, Expired(answered))

\* Blocks that nobody will ask for: before the first one read, beyond the cap, or asked
\* for in vain.
PassedOver(s) == IF lastSeq = None THEN 1 .. s - 1 ELSE Gap(s) \ Asked(s)
Forget(ns) == unasked' = unasked \cup {Stream[s].id : s \in ns \ read'}

-----------------------------------------------------------------------------
(* Captures.                                                               *)

\* Block s is read: the frames that it completes, and the ones it finds stale, go to the
\* reorder stage.
Read(s, h) ==
  LET fed == Feed(funnel, Stream[s]) IN
  /\ phase = "recv" /\ s \notin read
  /\ read' = read \cup {s} /\ got' = got \cup {s}
  /\ lastSeq' = NewestSeq(s)
  /\ nacks' = NacksAfter(s)
  /\ Forget(PassedOver(s) \cup (Expired(nacks) \ {s}))
  /\ funnel' = fed.funnel
  /\ dropped' = dropped \cup
       (DOMAIN funnel.pending \ (DOMAIN fed.funnel.pending \cup fed.whole \cup fed.torn))
  /\ \E torn \in SetToSeqs(fed.torn), whole \in SetToSeqs(fed.whole) :
       Capture(whole \o torn, DOMAIN nacks' # {}, h)

\* The header of block s is read and its payload is not: asked for again.
Garbled(s, h) ==
  /\ phase = "recv" /\ s \notin read /\ UNCHANGED read
  /\ lastSeq' = NewestSeq(s)
  /\ nacks' = Open(NacksAfter(s), {s})
  /\ Forget(PassedOver(s) \cup (Expired(nacks) \ {s}))
  /\ Capture(<<>>, TRUE, h)
  /\ UNCHANGED <<funnel, got, dropped>>

\* A capture with nothing in it, or a block that was read before.
Junk(h) ==
  /\ phase = "recv"
  /\ UNCHANGED <<read, lastSeq, funnel, got, dropped>>
  /\ nacks' = Without(nacks, Expired(nacks))
  /\ Forget(Expired(nacks))
  /\ Capture(<<>>, DOMAIN nacks' # {}, h)

-----------------------------------------------------------------------------
(* The reorder stage with the funnel behind it.                            *)

HoleAtCursor ==
  IF next = None \/ ~HasPartial(funnel, next) THEN "unseen"
  ELSE IF Progressing(funnel, next) THEN "progressing" ELSE "stalled"

\* A wild jump also starts the link sequence, the NACKs and the funnel over.
InsertCompleted ==
  /\ Insert
  /\ IF ~InReach(Head(completed)) /\ ~TooLate(Head(completed))
     THEN /\ lastSeq' = None /\ read' = {} /\ nacks' = <<>> /\ funnel' = NewFunnel
          /\ unasked' = unasked \cup {Stream[s].id : s \in DOMAIN nacks}
          /\ dropped' = dropped \cup DOMAIN funnel.pending
          /\ UNCHANGED got
     ELSE UNCHANGED air

ReleaseStep ==
  /\ Deliver \/ SkipPhantom(HoleAtCursor) \/ SkipLost(HoleAtCursor) \/ Wait(HoleAtCursor)
  /\ UNCHANGED air

TimePasses ==
  /\ Tick
  /\ nacks' = [s \in DOMAIN nacks |-> Aged(nacks[s], NACK_KEEP)]
  /\ funnel' = Older(funnel)
  /\ UNCHANGED <<read, lastSeq, got, dropped, unasked>>

DeliveryNext ==
  \/ \E h \in Holds : (\E s \in Seqs : Read(s, h) \/ Garbled(s, h)) \/ Junk(h)
  \/ InsertCompleted
  \/ Inserted /\ UNCHANGED air
  \/ ReleaseStep
  \/ TimePasses

DeliverySpec == DeliveryInit /\ [][DeliveryNext]_allVars

\* The thread runs; time passes; and captures keep coming, be they noise (the board's
\* trigger fires on any burst in the channel): without them nothing is released, since
\* the loop waits in recv_timeout and goes back to it.
DeliveryFairness ==
  /\ WF_allVars(phase # "recv" /\ DeliveryNext)
  /\ SF_allVars(TimePasses) /\ SF_allVars(\E h \in Holds : Junk(h))

FairDelivery == DeliverySpec /\ DeliveryFairness

-----------------------------------------------------------------------------

\* The decoder gets frames in order, each once, and only those rebuilt from as many blocks
\* as they have data, or handed over in part with 60 % of them.
EnoughRead(i, had) ==
  LET here == SeqsOf(i) \cap had
      data == {s \in here : ~Stream[s].par}
  IN \/ Cardinality(here) >= Data[i]
     \/ 10 * Cardinality(data) >= 6 * Data[i]
Feed1 == INSTANCE VideoFeed WITH
           Frames <- Ids, Blocks <- Seqs, Enough <- EnoughRead, Nothing <- None,
           last <- out
KeepsPromise == Feed1!Spec

\* A frame that was sent is taken for a phantom, and so neither counted as lost nor asked
\* to be repaired, only if blocks of it are missing that no NACK covers any more, or the
\* funnel has thrown away blocks of it that came.
VanishedExplained ==
  [][phantoms' > phantoms /\ SeqsOf(next) # {}
       => next \in dropped \/ next \in unasked]_allVars

\* Every frame that waits in the reorder stage leaves it, however holes and repairs
\* come and go in front of it.
FramesLeave == \A i \in Ids : i \in queue ~> i \notin queue

=============================================================================
