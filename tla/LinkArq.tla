------------------------------ MODULE LinkArq ------------------------------
(***************************************************************************)
(* Retransmission between nyx-tx and nyx-rx: the numbers of the blocks,    *)
(* of which the air carries only the low byte, the receiver's NACKs and    *)
(* the transmitter's cache that answers them (demod_loop and               *)
(* resolve_link_seq in apps/video/nyx-rx/src/lib.rs, the send loop and     *)
(* answer_conv_nacks in apps/video/nyx-tx/src/worker.rs).                  *)
(*                                                                         *)
(* The transmitter numbers blocks 1, 2, ...; the receiver reads a number   *)
(* modulo MOD and makes the full one from the newest it has seen, so its   *)
(* numbers stand a multiple of MOD away from the transmitter's (`offset`), *)
(* which does not matter as the transmitter answers by the low byte too.   *)
(* Blocks sent for the first time come in order; retries come whenever     *)
(* the queues on the way let them through; any of them may be lost, and    *)
(* so may a NACK.  ConvTx models the first of these queues, Delivery what  *)
(* becomes of the blocks.                                                  *)
(*                                                                         *)
(* What the link is trusted with, and the comments of resolve_link_seq     *)
(* name, is a bound each: LongestLoss, LatestRetry, MaxQueued, and that an  *)
(* answer comes before its NACK is old.                                    *)
(***************************************************************************)
EXTENDS Integers, Sequences, FiniteSets, SequencesExt, Functions

CONSTANTS
  MaxSeq,       \* bound: blocks sent
  MOD,          \* the air carries numbers modulo this (256)
  HALF,         \* a number further ahead than this is one behind (128)
  FAR,          \* a jump ahead further than this may be a late retry (32)
  NACK_SPAN,    \* a wider gap is not asked for (32)
  NACK_CAP,     \* no gap is asked for with this many NACKs young (nack_cap)
  ARQ_CACHE,    \* blocks kept for retransmission (256)
  MAX_RETX,     \* retries of one block (3, or 6 under interference)
  Uncached,     \* blocks of the simulcast base layer: numbered, never kept
  Rows,         \* Reed-Solomon rows: kept, never sent again
  LongestLoss,  \* bound: blocks lost in a row
  LatestRetry,  \* bound: blocks sent between a block and its retry
  Dup,          \* cfg.dup: under interference a retry is sent twice
  MaxQueued,    \* bound: blocks numbered and not yet through the air
  MaxNacks,     \* bound: NACKs on their way to the transmitter
  None          \* no block yet

Seqs == 1 .. MaxSeq

LinkArqAssumption ==
  /\ MaxSeq \in Nat /\ MOD \in Nat \ {0} /\ HALF \in Nat /\ FAR \in Nat
  /\ {NACK_SPAN, NACK_CAP, ARQ_CACHE, MAX_RETX, MaxNacks} \subseteq Nat
  /\ {LongestLoss, LatestRetry, MaxQueued} \subseteq Nat /\ Dup \in BOOLEAN
  /\ Uncached \subseteq Seqs /\ Rows \subseteq Seqs
  /\ None \notin Int

\* What the link is trusted with, as resolve_link_seq and the cache need it: no more blocks are
\* lost in a row than a jump that is not suspected; a retry is less than a turn late, counted from
\* the newest block numbered and from the far jump; the base layer and the second copies are off.
LinkTrusted ==
  /\ LongestLoss < FAR /\ FAR <= HALF
  /\ LongestLoss <= LatestRetry /\ LatestRetry < MOD - FAR
  /\ LatestRetry + MaxQueued < MOD
  /\ Uncached = {} /\ ~Dup

VARIABLES
  seq,        \* the transmitter's newest block
  cache,      \* what it keeps, oldest first: [seq, retx]
  asks,       \* NACKs under way, oldest first: numbers of the receiver
  heard,      \* the newest block that came to the end of the air, lost or not
  retries,    \* retries on the air, oldest first
  lastSeq,    \* last_link_seq
  nacks,      \* outstanding_nacks: number -> "young" (< 500 ms) or "old" (< 2 s)
  delivered,  \* delivered_seqs: number -> the block that was read (history)
  offset      \* history: the transmitter's number less the receiver's

sender   == <<seq, cache>>
receiver == <<lastSeq, nacks, delivered, offset>>
vars == <<sender, asks, heard, retries, receiver>>

\* The receiver joins a transmitter that has sent some blocks and lost sight of none.
Init ==
  /\ seq \in {0, MOD - 1} /\ cache = <<>> /\ heard = seq
  /\ asks = <<>> /\ retries = <<>>
  /\ lastSeq = None /\ nacks = <<>> /\ delivered = <<>> /\ offset = None

-----------------------------------------------------------------------------
(* The transmitter.                                                        *)

\* The oldest entries go when the cache is full.
Kept(c) == IF Len(c) > ARQ_CACHE THEN SubSeq(c, Len(c) - ARQ_CACHE + 1, Len(c)) ELSE c

Send ==
  /\ seq < MaxSeq /\ seq - heard < MaxQueued
  /\ seq' = seq + 1
  /\ cache' = IF seq + 1 \in Uncached THEN cache
              ELSE Kept(Append(cache, [seq |-> seq + 1, retx |-> 0]))
  /\ UNCHANGED <<asks, heard, retries, receiver>>

\* The entries a NACK may mean: all that share its low byte; the newest is taken.
Matches(n) == {k \in DOMAIN cache : cache[k].seq % MOD = n % MOD}
NewestMatch(n) == CHOOSE k \in Matches(n) : \A j \in Matches(n) : j <= k

\* The block is sent again unless it was MAX_RETX times or is a Reed-Solomon row.
RetryOf(e) == e.retx < MAX_RETX /\ e.seq \notin Rows

\* A NACK is answered, under interference with a second copy a little later.
Answer(copied) ==
  /\ asks # <<>> /\ asks' = Tail(asks)
  /\ LET n == Head(asks) IN
     IF Matches(n) # {} /\ RetryOf(cache[NewestMatch(n)])
     THEN LET e == cache[NewestMatch(n)]
          IN /\ cache' = [cache EXCEPT ![NewestMatch(n)].retx = @ + 1]
             /\ retries' = retries \o IF copied THEN <<e.seq, e.seq>> ELSE <<e.seq>>
     ELSE ~copied /\ UNCHANGED <<cache, retries>>
  /\ UNCHANGED <<seq, heard, receiver>>

\* A NACK is lost on its way, or ignored on the low rungs (low_rung).
AskLost ==
  /\ asks # <<>> /\ asks' = Tail(asks)
  /\ UNCHANGED <<sender, heard, retries, receiver>>

-----------------------------------------------------------------------------
(* The receiver.                                                           *)

\* resolve_link_seq: the signed wrap-around delta, unless the number so far ahead answers
\* a young NACK one turn behind (faulty variants: any NACK, at any jump; none).
Delta(lsb) == (lsb - lastSeq) % MOD
Young(n) == n \in DOMAIN nacks /\ nacks[n] = "young"
LateRetryAnyJump(lsb) == lastSeq + Delta(lsb) - MOD \in DOMAIN nacks
LateRetryNever(lsb) == FALSE
LateRetry(lsb) == Delta(lsb) > FAR /\ Young(lastSeq + Delta(lsb) - MOD)
Floor(n) == IF n < 0 THEN 0 ELSE n
Resolve(lsb) ==
  IF lastSeq = None THEN lsb
  ELSE IF Delta(lsb) > HALF THEN Floor(lastSeq + Delta(lsb) - MOD)
  ELSE IF LateRetry(lsb) THEN lastSeq + Delta(lsb) - MOD
  ELSE lastSeq + Delta(lsb)

\* The numbers a block ahead of the newest skips, and the ones that are asked for.
Gap(r) == IF lastSeq = None THEN {} ELSE lastSeq + 1 .. r - 1
Asked(r) ==
  IF Cardinality(Gap(r)) < NACK_SPAN /\ Cardinality({n \in DOMAIN nacks : Young(n)}) < NACK_CAP
  THEN Gap(r) ELSE {}
Newest(r) == IF lastSeq = None \/ r > lastSeq THEN r ELSE lastSeq

\* NACKs go out for `ns`; one that is open keeps its age.
Opened(ns) == [n \in DOMAIN nacks \cup ns |-> IF n \in DOMAIN nacks THEN nacks[n] ELSE "young"]
SendNacks(ns) ==
  \E order \in SetToSeqs(ns) :
    /\ asks' = asks \o order
    /\ Len(asks') <= MaxNacks

\* Block s is captured; its number is read, its payload perhaps.  The first block read
\* sets the offset.
Captured(s, readable) ==
  LET r == Resolve(s % MOD)
      answered == Restrict(Opened(Asked(r)), (DOMAIN nacks \cup Asked(r)) \ {r})
  IN /\ lastSeq' = Newest(r)
     /\ offset' = IF offset = None THEN s - r ELSE offset
     /\ IF r \in DOMAIN delivered
        THEN SendNacks(Asked(r)) /\ nacks' = answered /\ UNCHANGED delivered
        ELSE IF readable
        THEN /\ SendNacks(Asked(r)) /\ nacks' = answered
             /\ delivered' = [n \in DOMAIN delivered \cup {r} |->
                                IF n = r THEN s ELSE delivered[n]]
        ELSE /\ SendNacks(Asked(r) \cup {r})
             /\ nacks' = [n \in DOMAIN answered \cup {r} |->
                            IF n = r THEN "young" ELSE answered[n]]
             /\ UNCHANGED delivered

\* A NACK grows old, and is forgotten.
Under(n) == n \in Range(asks) \/ n + offset \in Range(retries)
NackAges ==
  /\ \E n \in DOMAIN nacks :
       IF nacks[n] = "young"
       THEN ~Under(n) /\ nacks' = [nacks EXCEPT ![n] = "old"]
       ELSE nacks' = Restrict(nacks, DOMAIN nacks \ {n})
  /\ UNCHANGED <<sender, asks, heard, retries, lastSeq, delivered, offset>>

-----------------------------------------------------------------------------
(* The air.                                                                *)

\* No retry, nor what may become one, is overtaken by more blocks than the link is
\* trusted with.
InTime ==
  /\ \A s \in Range(retries) : heard + 1 - s <= LatestRetry
  /\ \A n \in Range(asks) : heard + 1 - (n + offset) <= LatestRetry

\* The next new block is captured, or lost.
HearNew(readable) ==
  /\ heard < seq /\ InTime
  /\ heard' = heard + 1
  /\ Captured(heard + 1, readable)
  /\ UNCHANGED <<sender, retries>>

LoseNew ==
  /\ heard < seq /\ InTime
  /\ lastSeq # None => heard + 1 - (lastSeq + offset) <= LongestLoss
  /\ heard' = heard + 1
  /\ UNCHANGED <<sender, asks, retries, receiver>>

HearRetry(readable) ==
  /\ retries # <<>> /\ retries' = Tail(retries)
  /\ Captured(Head(retries), readable)
  /\ UNCHANGED <<sender, heard>>

LoseRetry ==
  /\ retries # <<>> /\ retries' = Tail(retries)
  /\ UNCHANGED <<sender, asks, heard, receiver>>

-----------------------------------------------------------------------------
Next ==
  \/ Send \/ AskLost \/ \E copied \in {FALSE, Dup} : Answer(copied)
  \/ LoseNew \/ LoseRetry \/ \E readable \in BOOLEAN : HearNew(readable) \/ HearRetry(readable)
  \/ NackAges

Spec == Init /\ [][Next]_vars

-----------------------------------------------------------------------------

\* Every block is taken for itself, whether it came in its turn or as a retry two thirds
\* of a turn late: never for a block MOD further on or back.
ReadAsItself == \A n \in DOMAIN delivered : delivered[n] = n + offset

\* The receiver never runs ahead of the transmitter: the newest number it has seen, and
\* all it asks for, are of blocks that were sent.
NeverAhead ==
  /\ lastSeq # None => lastSeq + offset <= heard
  /\ \A n \in DOMAIN nacks \cup Range(asks) : n + offset <= heard

=============================================================================
