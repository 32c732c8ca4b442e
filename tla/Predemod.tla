----------------------------- MODULE Predemod -----------------------------
(***************************************************************************)
(* The front of the receiver (nyx-rx, apps/video/nyx-rx/src/lib.rs): how a *)
(* capture gets from the socket to demod_loop.  The reading thread puts it *)
(* in a bounded queue or, when it is the raw copy of a capture the board   *)
(* decodes itself, aside in a small stash; a pool of workers takes         *)
(* captures from the queue, numbers them inside the lock of the queue,     *)
(* does the signal processing and hands the results to demod_loop, which   *)
(* consumes them in the order of the numbers.  demod_loop also sweeps the  *)
(* stash: a raw copy nobody claimed in time goes through the queue.        *)
(*                                                                         *)
(* Three bounded stores in a ring (queue, result channel, stash) and one   *)
(* thread that both drains one and fills another: what can go wrong is a   *)
(* deadlock, a result that waits for a number that never comes, and a      *)
(* result handed on long after its turn.                                   *)
(***************************************************************************)
EXTENDS Naturals, Sequences, FiniteSets, SequencesExt

CONSTANTS
  Workers,    \* the threads of the pool
  IQ_CAP,     \* slots of the queue of captures (128)
  PRE_CAP,    \* slots of the channel of results (32)
  STASH_CAP,  \* raw copies kept aside (8)
  VALVE,      \* so many results waiting for a number make it be given up (8)
  Items,      \* bound: what the board sends: numbers of captures, and in which form: samples, samples
              \* it says it decodes nothing of, symbols or soft bits, or decoded
  MaxDeaths   \* bound: workers that die in the middle of a capture

PredemodAssumption ==
  /\ IsFiniteSet(Workers) /\ Workers # {}
  /\ {IQ_CAP, PRE_CAP, STASH_CAP, VALVE} \subseteq Nat \ {0}
  /\ Items \subseteq [seq : Nat, kind : {"iq", "skip", "soft", "dec"}]
  /\ MaxDeaths \in Nat

Results == [idx : Nat, item : Items]

VARIABLES
  arrived,    \* history: what the board has sent
  iq,         \* the queue of captures (iq_tx, iq_rx)
  stash,      \* iq_stash, oldest first
  aged,       \* how many of its entries, from the oldest, waited 150 ms
  covering,   \* the board decoded a capture less than a second ago (fd_last)
  idxGen,     \* idx_gen: the number the next capture taken gets
  work,       \* what each worker has in hand: at most one result
  done,       \* the workers that have finished it
  deaths,     \* workers that died
  pre,        \* the channel of results (pre_tx, pre_rx)
  demod,      \* where demod_loop is: "sweep" or "take"
  next,       \* next_pre_idx
  pending,    \* pending_pre: results that wait for their turn
  consumed,   \* history: the results demod_loop took
  jumped,     \* history: the numbers the valve gave up
  gone        \* history: captures that were dropped

board == <<arrived, covering>>
pool == <<idxGen, work, done, deaths>>
turn == <<next, pending, consumed, jumped>>
vars == <<board, iq, stash, aged, pool, pre, demod, turn, gone>>

Init ==
  /\ arrived = {} /\ covering = FALSE
  /\ iq = <<>> /\ stash = <<>> /\ aged = 0
  /\ idxGen = 0 /\ work = [w \in Workers |-> {}] /\ done = {} /\ deaths = 0
  /\ pre = <<>>
  /\ demod = "sweep" /\ next = 0 /\ pending = {} /\ consumed = {} /\ jumped = {}
  /\ gone = {}

-----------------------------------------------------------------------------
(* The reading thread.                                                     *)

\* try_send: a full queue refuses the capture, which is dropped.
TrySend(x) ==
  IF Len(iq) < IQ_CAP THEN iq' = Append(iq, x) /\ UNCHANGED gone
                      ELSE gone' = gone \cup {x} /\ UNCHANGED iq

\* A capture number does not go back; both forms of one capture come in either order.
MaySend(x) == x \notin arrived /\ \A y \in arrived : y.seq <= x.seq

\* A capture the board decoded, or of which it sends the symbols or the soft bits: from now on raw
\* samples are only a spare.
Worked == {"soft", "dec"}
ReadDecoded(x) ==
  /\ x.kind \in Worked /\ MaySend(x)
  /\ arrived' = arrived \cup {x} /\ covering' = TRUE
  /\ TrySend(x)
  /\ UNCHANGED <<stash, aged, pool, pre, demod, turn>>

\* Raw samples while the board decodes are put aside, at the cost of the oldest.
Stashed(x) == IF Len(stash) < STASH_CAP THEN Append(stash, x) ELSE Append(Tail(stash), x)
ReadSpare(x) ==
  /\ x.kind = "iq" /\ MaySend(x) /\ covering
  /\ arrived' = arrived \cup {x} /\ stash' = Stashed(x)
  /\ IF Len(stash) < STASH_CAP
       THEN UNCHANGED <<aged, gone>>
       ELSE /\ aged' = IF aged = 0 THEN 0 ELSE aged - 1
            /\ gone' = gone \cup {Head(stash)}
  /\ UNCHANGED <<covering, iq, pool, pre, demod, turn>>

\* Raw samples while it does not, or of a capture it left out (mcs 0xFE).
ReadSamples(x) ==
  /\ (x.kind = "iq" /\ ~covering) \/ x.kind = "skip"
  /\ MaySend(x)
  /\ arrived' = arrived \cup {x}
  /\ TrySend(x)
  /\ UNCHANGED <<covering, stash, aged, pool, pre, demod, turn>>

\* Time passes: a spare becomes old enough to be swept; the board has not decoded for a second.
SpareAges ==
  /\ aged < Len(stash) /\ aged' = aged + 1
  /\ UNCHANGED <<board, iq, stash, pool, pre, demod, turn, gone>>
CoverEnds ==
  /\ covering /\ covering' = FALSE
  /\ UNCHANGED <<arrived, iq, stash, aged, pool, pre, demod, turn, gone>>

-----------------------------------------------------------------------------
(* The pool of workers.  Only the one that holds the lock of the queue can *)
(* take from it, so taking and numbering are one step.                     *)

Take(w) ==
  /\ work[w] = {} /\ iq # <<>>
  /\ iq' = Tail(iq) /\ idxGen' = idxGen + 1
  /\ work' = [work EXCEPT ![w] = {[idx |-> idxGen, item |-> Head(iq)]}]
  /\ UNCHANGED <<board, stash, aged, done, deaths, pre, demod, turn, gone>>

\* What lay in the queue for 700 ms is dropped by the worker that takes it, unless it is decoded.
DropStale(w) ==
  /\ work[w] = {} /\ iq # <<>> /\ Head(iq).kind # "dec"
  /\ iq' = Tail(iq) /\ gone' = gone \cup {Head(iq)}
  /\ UNCHANGED <<board, stash, aged, idxGen, work, done, deaths, pre, demod, turn>>

\* A capture the board worked on claims the spare of the same capture.
Spare(x) == {k \in 1 .. Len(stash) : x.kind \in Worked /\ stash[k].seq = x.seq}
Claim(x) ==
  IF Spare(x) = {} THEN UNCHANGED <<stash, aged, gone>>
  ELSE LET k == CHOOSE k \in Spare(x) : \A j \in Spare(x) : k <= j
       IN  /\ stash' = RemoveAt(stash, k) /\ gone' = gone \cup {stash[k]}
           /\ aged' = IF k <= aged THEN aged - 1 ELSE aged

\* What is left to this computer to demodulate may be given up before that.
GivesUp(x) == x.kind = "soft" /\ UNCHANGED <<stash, aged, gone>>

Process(w) ==
  /\ w \notin done /\ done' = done \cup {w}
  /\ \E r \in work[w] : Claim(r.item) \/ GivesUp(r.item)
  /\ UNCHANGED <<board, iq, idxGen, work, deaths, pre, demod, turn>>

\* The result goes into the channel; a worker blocks while the channel is full.
Finish(w) ==
  /\ w \in done /\ Len(pre) < PRE_CAP
  /\ \E r \in work[w] : pre' = Append(pre, r)
  /\ work' = [work EXCEPT ![w] = {}] /\ done' = done \ {w}
  /\ UNCHANGED <<board, iq, stash, aged, idxGen, deaths, demod, turn, gone>>

\* A worker panics: its capture, and the number it gave it, never come.
Die(w) ==
  /\ deaths < MaxDeaths /\ w \notin done
  /\ \E r \in work[w] : gone' = gone \cup {r.item}
  /\ deaths' = deaths + 1 /\ work' = [work EXCEPT ![w] = {}]
  /\ UNCHANGED <<board, iq, stash, aged, idxGen, done, pre, demod, turn>>

-----------------------------------------------------------------------------
(* demod_loop: one turn of its loop is a sweep and at most one capture.    *)

\* Old spares go into the queue, oldest first, as long as it has room; the sweep never
\* waits for room (faulty variant: it does).
LeastOf(m, n) == IF m <= n THEN m ELSE n
SweptNow == LeastOf(aged, IQ_CAP - Len(iq))
SweepWhatFits ==
  /\ iq' = iq \o SubSeq(stash, 1, SweptNow)
  /\ stash' = SubSeq(stash, SweptNow + 1, Len(stash)) /\ aged' = aged - SweptNow
SweepAllWaiting ==
  /\ aged <= IQ_CAP - Len(iq)
  /\ iq' = iq \o SubSeq(stash, 1, aged)
  /\ stash' = SubSeq(stash, aged + 1, Len(stash)) /\ aged' = 0
SweepStash == SweepWhatFits

Sweep ==
  /\ demod = "sweep" /\ demod' = "take"
  /\ SweepStash
  /\ UNCHANGED <<board, pool, pre, turn, gone>>

\* The next result is there already.
TakePending ==
  /\ demod = "take" /\ \E r \in pending :
       /\ r.idx = next
       /\ pending' = pending \ {r} /\ consumed' = consumed \cup {r}
  /\ next' = next + 1 /\ demod' = "sweep"
  /\ UNCHANGED <<board, iq, stash, aged, pool, pre, jumped, gone>>

Waits == demod = "take" /\ \A r \in pending : r.idx # next
Received(r) == pre # <<>> /\ r = Head(pre) /\ pre' = Tail(pre)

\* Its turn (faulty variant: any number is its turn).
InTurn(r) == r.idx = next
AnyTurn(r) == r.idx >= next
OnTurn(r) == InTurn(r)
TakeInTurn(r) ==
  /\ OnTurn(r)
  /\ consumed' = consumed \cup {r} /\ next' = r.idx + 1
  /\ UNCHANGED <<pending, jumped>>

\* A number the valve gave up: taken at once.
TakeLate(r) ==
  /\ r.idx < next
  /\ consumed' = consumed \cup {r}
  /\ UNCHANGED <<pending, next, jumped>>

\* Too early: it waits, and if too many wait the number they wait for is given up.
Lowest(s) == CHOOSE i \in {r.idx : r \in s} : \A r \in s : i <= r.idx
TakeEarly(r) ==
  /\ r.idx > next /\ ~OnTurn(r)
  /\ pending' = pending \cup {r}
  /\ IF Cardinality(pending') >= VALVE
       THEN next' = Lowest(pending') /\ jumped' = jumped \cup next .. next' - 1
       ELSE UNCHANGED <<next, jumped>>
  /\ UNCHANGED consumed

Receive ==
  /\ Waits /\ demod' = "sweep"
  /\ \E r \in Range(pre) : Received(r) /\ (TakeInTurn(r) \/ TakeLate(r) \/ TakeEarly(r))
  /\ UNCHANGED <<board, iq, stash, aged, pool, gone>>

\* Nothing came for 50 ms: the loop starts again (feedback and the live numbers).
Starve ==
  /\ Waits /\ pre = <<>> /\ demod' = "sweep"
  /\ UNCHANGED <<board, iq, stash, aged, pool, pre, turn, gone>>

-----------------------------------------------------------------------------
Demod == Sweep \/ TakePending \/ Receive \/ Starve
Worker(w) == Take(w) \/ DropStale(w) \/ Process(w) \/ Finish(w)
Next ==
  \/ \E x \in Items : ReadDecoded(x) \/ ReadSpare(x) \/ ReadSamples(x)
  \/ SpareAges \/ CoverEnds
  \/ \E w \in Workers : Worker(w) \/ Die(w)
  \/ Demod

\* Threads that can run do, and the clock goes on; the board need not send anything.
Spec ==
  /\ Init /\ [][Next]_vars
  /\ WF_vars(Demod) /\ WF_vars(SpareAges)
  /\ \A w \in Workers : WF_vars(Worker(w))

-----------------------------------------------------------------------------
(* Properties.                                                             *)

ItemsOf(rs) == {r.item : r \in rs}
InPool == UNION {work[w] : w \in Workers}
Held == Len(iq) + Len(stash) + Cardinality(InPool) + Len(pre) + Cardinality(pending)

\* Every capture is in exactly one place: in a store, with a worker, consumed once, or dropped
\* for one of the reasons the code has.  None is copied and none is forgotten on the way
\* (push_capture, the sweeper, the claims, the workers and demod_loop).
OnePlace ==
  /\ arrived = Range(iq) \cup Range(stash) \cup ItemsOf(InPool \cup Range(pre))
                 \cup ItemsOf(pending \cup consumed) \cup gone
  /\ Cardinality(arrived) = Held + Cardinality(consumed) + Cardinality(gone)

\* What waits for its turn is still to come, and the valve keeps the wait short: a result whose
\* turn passed is never kept for a later jump to go back to (lib.rs 1687-1693).
NoneBehind ==
  /\ \A r \in pending : r.idx >= next
  /\ Cardinality(pending) <= VALVE

\* Results are consumed in the order of their numbers, which is the order of the queue: an
\* earlier one can only be missing if the valve gave it up (lib.rs 1674-1694).
InOrderUnlessJumped ==
  \A r \in consumed : \A j \in 0 .. r.idx - 1 :
    j \in jumped \/ \E q \in consumed : q.idx = j

\* Whatever stores were full, when the board pauses every capture it sent is consumed or
\* dropped in the end: demod_loop, which empties one store and fills another, is never stuck,
\* and no result waits for a number that never comes, unless a worker died with it.
Settles == []<>(deaths > 0 \/ arrived = ItemsOf(consumed) \cup gone)
=============================================================================
