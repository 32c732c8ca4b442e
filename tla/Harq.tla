-------------------------------- MODULE Harq --------------------------------
(***************************************************************************)
(* Blocks whose first transmission was not decoded: the worker's copies    *)
(* and retries (nyx-tx worker.rs), and demod_loop's way through a capture  *)
(* of several frames with its soft buffers and its memory of what was      *)
(* delivered (nyx-rx).  This is the path with demodulation on the          *)
(* computer; LinkArq asks whether a number means its block on the path     *)
(* with the queue, ConvTx and Delivery model what comes before and after.  *)
(* Which redundancy version a retry carries is left out.                   *)
(*                                                                         *)
(* What the decoder makes of a soft buffer is taken at its worst: it       *)
(* decodes the block of which it holds one clean transmission or two weak  *)
(* ones, and nothing when it holds those of two blocks.                    *)
(***************************************************************************)
EXTENDS Integers, SequencesExt, FiniteSetsExt, Functions

CONSTANTS
  MOD, HALF, FAR,           \* as in LinkArq: 256, 128, 32
  NACK_SPAN, NACK_CAP,      \* as in LinkArq: 32, nack_cap
  ARQ_CACHE, MAX_RETX,      \* as in LinkArq: 256, 3
  HARQ_CAP,                 \* soft buffers held (64)
  DELIVERED_CAP,            \* numbers of delivered blocks held (512)
  SUBFRAMES,                \* frames taken of a capture (4)
  FRAME,                    \* blocks of a picture
  MaxBlocks, MaxOnAir, MaxBad,  \* bounds: blocks of a life, transmissions on the air (a retry
                                \* beyond is as good as lost), faults
  MaxRestarts               \* bound: restarts of the transmitter

HarqAssumption ==
  /\ \A n \in {MOD, HALF, FAR, NACK_SPAN, NACK_CAP, ARQ_CACHE, MAX_RETX, HARQ_CAP, DELIVERED_CAP,
               SUBFRAMES, FRAME, MaxBlocks, MaxOnAir, MaxBad} : n \in Nat \ {0}
  /\ MaxRestarts \in Nat

VARIABLES
  copies,  \* cfg.rep_count
  life,    \* restarts of the transmitter
  seq,     \* its newest block
  cache,   \* CacheEntry: [seq, retx], oldest first
  air,     \* transmissions on their way: the block of each, [life, seq]
  asks,    \* NACKs on their way to the transmitter
  rx,      \* what demod_loop keeps: see Empty
  bad      \* faults so far: frames that did not come clean, sends that failed, restarts

vars == <<copies, life, seq, cache, air, asks, rx, bad>>

Copies == {1, 2}
Nothing == -1

\* last: last_link_seq; nacked: outstanding_nacks, none of them two seconds old; sends: NACKs of
\* this turn; soft, order: HarqCache; delivered: oldest first.
\* follows: the life whose numbering the reorder stage follows, turn: how often it changed.
\* History: newest: the block last is of; whole: blocks that came clean under the numbering
\* followed; handed: blocks handed to the funnel, with the turn; twice: one of them was again,
\* under the numbering followed.
Empty == [last |-> Nothing, newest |-> [life |-> 0, seq |-> 0], nacked |-> {}, soft |-> <<>>,
          order |-> <<>>, delivered |-> <<>>, sends |-> <<>>, follows |-> 0, turn |-> 0,
          whole |-> {}, handed |-> {}, twice |-> FALSE]

Init ==
  /\ copies \in Copies
  /\ life = 0 /\ seq = 0 /\ cache = <<>> /\ air = <<>> /\ asks = <<>> /\ rx = Empty /\ bad = 0

-----------------------------------------------------------------------------
(* The transmitter                                                         *)

\* Bound: what is on the air or asked for is sent and answered before half a turn of new blocks.
InTime(newest) ==
  /\ \A i \in DOMAIN air : air[i].life = life => newest - air[i].seq < HALF
  /\ \A i \in DOMAIN cache, k \in DOMAIN asks :
       asks[k] % MOD = cache[i].seq % MOD => newest - cache[i].seq < HALF

\* A message of one block, or of a pair, and its copies; the cache keeps the blocks.  A send that
\* fails ends it: the first, before the blocks are kept; a copy's, behind that.
Send ==
  /\ \E n \in {1, 2} :
       LET new(c) == [i \in 1..n * c |-> [life |-> life, seq |-> seq + 1 + ((i - 1) % n)]]
           kept == cache \o [i \in 1..n |-> [seq |-> seq + i, retx |-> 0]]
       IN /\ seq + n <= MaxBlocks /\ InTime(seq + n) /\ Len(air) + n * copies <= MaxOnAir
          /\ seq' = seq + n
          /\ \/ /\ \E c \in 1..copies : air' = air \o new(c)
                /\ cache' = SubSeq(kept, Max({1, Len(kept) - ARQ_CACHE + 1}), Len(kept))
                /\ bad' = bad
             \/ bad < MaxBad /\ bad' = bad + 1 /\ UNCHANGED <<air, cache>>
  /\ UNCHANGED <<copies, life, asks, rx>>

\* The newest block with the low byte asked for is sent again, as often as is allowed.
Retry(t, nseq) ==
  LET alike == {i \in DOMAIN t.cache : t.cache[i].seq % MOD = nseq % MOD /\ Len(t.air) < MaxOnAir}
      newest == {i \in alike : (\A j \in alike : j <= i) /\ t.cache[i].retx < MAX_RETX}
  IN IF newest = {} THEN t
     ELSE LET i == CHOOSE i \in newest : TRUE
          IN [cache |-> [t.cache EXCEPT ![i].retx = @ + 1],
              air |-> Append(t.air, [life |-> life, seq |-> t.cache[i].seq])]

\* Behind each picture the worker answers what was asked since.
Answer ==
  /\ asks # <<>> /\ asks' = <<>>
  /\ LET after[k \in 0..Len(asks)] ==
           IF k = 0 THEN [cache |-> cache, air |-> air] ELSE Retry(after[k - 1], asks[k])
     IN cache' = after[Len(asks)].cache /\ air' = after[Len(asks)].air
  /\ UNCHANGED <<copies, life, seq, rx, bad>>

\* The program is started again: its numbers begin at the beginning.
Restart ==
  /\ life < MaxRestarts /\ bad < MaxBad /\ bad' = bad + 1
  /\ life' = life + 1 /\ seq' = 0 /\ cache' = <<>>
  /\ UNCHANGED <<copies, air, asks, rx>>

-----------------------------------------------------------------------------
(* The receiver: one frame of a capture                                    *)

\* resolve_link_seq: the full number from the low byte and the newest number seen.
Resolve(lsb, r) ==
  LET up == (lsb - r.last) % MOD
      d == IF up > HALF THEN up - MOD ELSE up
      ahead == Max({r.last + d, 0})
  IN CASE r.last = Nothing -> lsb
       [] r.last # Nothing /\ d > FAR /\ ahead - MOD \in r.nacked -> ahead - MOD
       [] OTHER -> ahead

\* HarqCache::remove.
Removed(r, n) ==
  [r EXCEPT !.soft = Restrict(@, DOMAIN @ \ {n}), !.order = SelectSeq(@, LAMBDA k : k # n)]

\* HarqCache::insert: the oldest buffer makes room.
Inserted(r, n, buffer) ==
  LET order == IF n \in DOMAIN r.soft THEN r.order ELSE Append(r.order, n)
      kept == SubSeq(order, Max({1, Len(order) - HARQ_CAP + 1}), Len(order))
      held == [k \in DOMAIN r.soft \cup {n} |-> IF k = n THEN buffer ELSE r.soft[k]]
      gone == ToSet(order) \ ToSet(kept)
  IN [r EXCEPT !.order = kept, !.soft = Restrict(held, DOMAIN held \ gone)]

\* The numbers skipped are asked for, unless too many are or were, and the newest is kept.
Missing(r, full) ==
  IF /\ r.last # Nothing /\ full > r.last + 1 /\ full - r.last <= NACK_SPAN
     /\ Cardinality(r.nacked) < NACK_CAP
  THEN [k \in 1 .. full - r.last - 1 |-> r.last + k] ELSE <<>>
Ask(r, numbers) ==
  [r EXCEPT !.nacked = @ \cup ToSet(numbers), !.sends = @ \o numbers]
Noted(r, full, b) ==
  LET newer == r.last = Nothing \/ full > r.last
  IN [Ask(r, Missing(r, full)) EXCEPT !.nacked = @ \ {full},
                                      !.last = IF newer THEN full ELSE @,
                                      !.newest = IF newer THEN b ELSE @]

\* (faulty variant: only what was decoded here is remembered)
RememberedHere(r, full, f) ==
  IF f.q = "board" THEN r.delivered
  ELSE LET d == Append(r.delivered, full)
       IN SubSeq(d, Max({1, Len(d) - DELIVERED_CAP + 1}), Len(d))
\* delivered_seqs and delivered_order.
Remembered(r, full, f) ==
  LET d == Append(r.delivered, full)
  IN SubSeq(d, Max({1, Len(d) - DELIVERED_CAP + 1}), Len(d))

\* The block goes to the funnel, its buffer is dropped.
Delivered(r, full, f) ==
  LET now == [b |-> f.b, turn |-> r.turn]
  IN [Removed(r, full) EXCEPT !.delivered = Remembered(r, full, f), !.handed = @ \cup {now},
                              !.twice = @ \/ (f.b.life = r.follows /\ now \in r.handed)]

\* What the decoder makes of the transmissions in a buffer.
Decodes(buffer) ==
  /\ \A i, j \in DOMAIN buffer : buffer[i].b = buffer[j].b
  /\ Len(buffer) >= 2 \/ \E i \in DOMAIN buffer : buffer[i].q = "clean"

\* Decoded by the board, or here from the buffer with this transmission; else kept and asked for.
Attempt(r, full, f) ==
  LET held == IF full \in DOMAIN r.soft THEN r.soft[full] ELSE <<>>
      buffer == Append(held, [b |-> f.b, q |-> f.q])
  IN CASE f.q = "board" -> Delivered(r, full, f)
       [] f.q = "unsynced" -> Ask(r, <<full>>)
       [] OTHER -> IF Decodes(buffer) THEN Delivered(r, full, f)
                   ELSE Ask(Inserted(r, full, buffer), <<full>>)

\* A duplicate is noted only, and so is a frame the capture cuts off.
Frame(r, f) ==
  LET full == Resolve(f.b.seq % MOD, r)
      noted == Noted(r, full, f.b)
      next == IF full \in ToSet(r.delivered) \/ f.q = "cut" THEN noted ELSE Attempt(noted, full, f)
  IN IF f.q \in {"clean", "board"} /\ f.b.life = r.follows
     THEN [next EXCEPT !.whole = @ \cup {f.b}] ELSE next

-----------------------------------------------------------------------------
(* The receiver: a capture                                                 *)

\* A picture is complete when its last block goes to the funnel.
Completes(r, l) ==
  \E k \in 1..MaxBlocks : \A n \in (k - 1) * FRAME + 1 .. k * FRAME :
    [b |-> [life |-> l, seq |-> n], turn |-> r.turn] \in r.handed

\* (faulty variant: the cursor alone starts again)
FollowedOnly(r, l) == [r EXCEPT !.follows = l, !.turn = @ + 1]
\* A picture with numbers of another life: everything that goes by the numbers starts again.
Followed(r, l) ==
  [Empty EXCEPT !.follows = l, !.turn = r.turn + 1, !.handed = r.handed, !.twice = r.twice,
                !.whole = r.whole, !.sends = r.sends]

\* The frames of a capture, up to the first whose SIG cannot be read, and the pictures they
\* complete.
Turn(r, frames) ==
  LET junk == {i \in DOMAIN frames : frames[i].q = "junk"}
      read == IF junk = {} THEN frames ELSE SubSeq(frames, 1, Min(junk) - 1)
      after[n \in 0..Len(read)] == IF n = 0 THEN r ELSE Frame(after[n - 1], read[n])
      s == after[Len(read)]
      others == {l \in 0..life : l # s.follows /\ Completes(s, l) /\ ~Completes(r, l)}
  IN IF others = {} THEN s ELSE Followed(s, CHOOSE l \in others : TRUE)

Qualities == {"clean", "board", "weak", "unsynced", "junk", "cut"}

\* A frame whose SIG cannot be read hides those behind it; a capture may end inside a frame that
\* is not its first, which may come again as the first of the next.
Capture ==
  /\ \E k \in 1..Min({SUBFRAMES, Len(air)}) : \E q \in [1..k -> Qualities] :
       LET faults == Cardinality({i \in 1..k : q[i] \notin {"clean", "board"}})
           r == Turn(rx, [i \in 1..k |-> [b |-> air[i], q |-> q[i]]])
           rest == CASE q[k] = "cut" -> {k, k + 1}
                     [] q[k] = "junk" -> (k + 1) .. Min({SUBFRAMES, Len(air)}) + 1
                     [] OTHER -> {k + 1}
       IN /\ bad + faults <= MaxBad /\ bad' = bad + faults
          /\ \A i \in 1..k : /\ q[i] = "cut" => i = k /\ k > 1
                             /\ q[i] = "junk" => i = k
          /\ \E next \in rest : air' = SubSeq(air, next, Len(air))
          /\ rx' = [r EXCEPT !.sends = <<>>]
          /\ asks' = asks \o r.sends
  /\ UNCHANGED <<copies, life, seq, cache>>

Next == Send \/ Answer \/ Restart \/ Capture

-----------------------------------------------------------------------------

(* What the proofs ask of the constants and of the link. *)

\* The code has 256, 128, 32 and 512: a number is within half a turn of the newest, a jump ahead is
\* less than that, and every number within half a turn of the newest is remembered.
Trusted == 2 * HALF <= MOD /\ FAR <= HALF /\ DELIVERED_CAP >= 2 * HALF - 1

\* A transmission comes less than half a turn of blocks behind the newest the receiver has had by
\* then, at most a jump that is not suspected ahead of it, and has a number in the receiver's
\* numbering, which begins where its first block has it.
OnTime ==
  \A i \in DOMAIN air : air[i].life = rx.follows =>
    LET s == air[i].seq
        known == IF rx.last = Nothing THEN {} ELSE {rx.newest.seq}
        had == {air[j].seq : j \in 1 .. i - 1} \cup known
    IN /\ \A h \in had : h - s < HALF
       /\ had # {} => \E h \in had : s - h <= FAR
       /\ s >= IF rx.last = Nothing THEN air[1].seq - (air[1].seq % MOD)
               ELSE rx.newest.seq - rx.last

-----------------------------------------------------------------------------

\* Every block that comes clean, by itself or from the board, is handed to the funnel: no soft
\* buffer of another block and no number of another block stands in its way.
CleanGoesThrough == \A b \in rx.whole : \E h \in rx.handed : h.b = b

\* A block is handed to the funnel once, whatever copies and retries of it come, as long as the
\* receiver follows the numbering the block has.
HandedOnce == ~rx.twice

=============================================================================
