------------------------------- MODULE Ladder -------------------------------
(***************************************************************************)
(* The ladder of picture sizes (nyx-tx worker.rs, run): once per turn of   *)
(* the worker's loop the capacity read last and the pictures lost lately   *)
(* decide whether the picture goes a rung up or down.                      *)
(*                                                                         *)
(* Time goes by in turns; every age and wait is a number of turns.  The    *)
(* capacity, the pictures lost and the operator's settings are inputs of a *)
(* turn, until the link and the operator come to rest.                     *)
(***************************************************************************)
EXTENDS Naturals, Sequences, FiniteSets

CONSTANTS
  Need,             \* the capacity each rung needs; the rungs are its domain (LADDER)
  Caps,             \* the capacities that are read
  UP, DOWN, CRASH,  \* how long a capacity has to last
  DWELL,            \* how long a rung is held at least
  TIER_BACKOFF, TIER_BACKOFF_MAX, TIER_SETTLED,
  SMOOTH_WIN, SMOOTH_IDR_N, SMOOTH_UP_MAX, SMOOTH_FLOOR_TIER, SMOOTH_UP_HOLD, SMOOTH_UP_QUIET,
  MaxLost           \* bound: pictures remembered as lost

Rungs == DOMAIN Need
Highest == Cardinality(Rungs) - 1

LadderAssumption ==
  /\ Highest \in Nat /\ Rungs = 0 .. Highest
  /\ Need \in [Rungs -> Nat] /\ Need[0] = 0 /\ Caps \subseteq Nat \ {0}
  /\ {UP, DOWN, CRASH, DWELL, TIER_BACKOFF, TIER_BACKOFF_MAX, TIER_SETTLED, SMOOTH_WIN,
      SMOOTH_IDR_N, SMOOTH_UP_MAX, SMOOTH_FLOOR_TIER, SMOOTH_UP_HOLD, SMOOTH_UP_QUIET,
      MaxLost} \subseteq Nat
  /\ TIER_SETTLED >= DWELL /\ TIER_SETTLED >= SMOOTH_UP_HOLD
  /\ SMOOTH_UP_MAX < SMOOTH_IDR_N /\ SMOOTH_IDR_N <= MaxLost

VARIABLES
  rest,     \* 0, then the capacity that stays: nothing is lost, the operator leaves things alone
  cur,      \* the rung (cur_tier)
  held,     \* how long it has been held (tier_since), as far as that matters
  up, down, \* how long the capacity has been high, low: 0 is not at all, 1 since this turn
  wait,     \* per rung, how long it is still out of bounds (tier_retry_at)
  backoff,  \* per rung, its next wait (tier_backoff)
  lost,     \* how long ago pictures were lost, the oldest first (lost_pics)
  turn,     \* the parity of the turns made
  ample,    \* history: the capacity has always been enough for every rung
  paid      \* history: pictures lost since the rung was last changed, at most SMOOTH_IDR_N

vars == <<rest, cur, held, up, down, wait, backoff, lost, turn, ample, paid>>

Least(a, b) == IF a < b THEN a ELSE b

\* Beyond this it makes no difference how long a rung has been held.
HeldMost == IF TIER_SETTLED > SMOOTH_WIN THEN TIER_SETTLED ELSE SMOOTH_WIN

Init ==
  /\ rest = 0 /\ cur = Highest /\ held = 0 /\ up = 0 /\ down = 0
  /\ wait = [r \in Rungs |-> 0] /\ backoff = [r \in Rungs |-> TIER_BACKOFF]
  /\ lost = <<>> /\ turn = FALSE /\ ample = TRUE /\ paid = 0

-----------------------------------------------------------------------------
(* What a turn goes by: `b` is the ladder's memory, a turn later.          *)

Older(seq) == [i \in 1 .. Len(seq) |-> Least(seq[i] + 1, SMOOTH_WIN + 1)]

\* The pictures lost that still count (faulty variant: all of them).
LatelyAll(seq) == Older(seq)
\* The pictures lost that still count: the oldest go while they are too old.
Lately(seq) ==
  LET first == CHOOSE k \in 1 .. Len(seq) + 1 :
                 /\ \A i \in 1 .. k - 1 : Older(seq)[i] > SMOOTH_WIN
                 /\ k <= Len(seq) => Older(seq)[k] <= SMOOTH_WIN
  IN SubSeq(Older(seq), first, Len(seq))

Memory == [cur |-> cur, held |-> Least(held + 1, HeldMost), up |-> up, down |-> down,
           wait |-> [r \in Rungs |-> IF wait[r] > 0 THEN wait[r] - 1 ELSE 0],
           backoff |-> backoff, lost |-> Lately(lost)]

\* The operator lowered the ceiling.
Lowered(b, max) == [b EXCEPT !.cur = Least(b.cur, max)]

\* Back from an outage: the rung held before it, at once, those passed are free again.
Restored(b, t) ==
  IF t <= b.cur THEN b
  ELSE LET passed == b.cur + 1 .. t IN
         [b EXCEPT !.cur = t, !.held = 0, !.up = 0, !.down = 0,
                   !.wait = [r \in Rungs |-> IF r \in passed THEN 0 ELSE b.wait[r]],
                   !.backoff = [r \in Rungs |-> IF r \in passed THEN TIER_BACKOFF
                                                ELSE b.backoff[r]]]

\* A rung answers for the pictures lost on it (faulty variant: for all lost lately).
LostAnywhere(b) == Len(b.lost)
\* A rung answers for the pictures lost on it.
LostHere(b) == Cardinality({i \in 1 .. Len(b.lost) : b.lost[i] <= b.held})

Rough(b, smooth) == smooth /\ LostHere(b) >= SMOOTH_IDR_N /\ b.cur > SMOOTH_FLOOR_TIER

\* After a loss a climb waits for a quiet link and a rung that has been held.
Paced(b, smooth) ==
  (smooth /\ b.lost # <<>>) =>
     b.lost[Len(b.lost)] >= SMOOTH_UP_QUIET /\ b.held >= SMOOTH_UP_HOLD

UpNow(b, cap, max, smooth) ==
  /\ b.cur < max
  /\ b.wait[b.cur + 1] = 0
  /\ ~(smooth /\ Len(b.lost) > SMOOTH_UP_MAX)
  /\ Paced(b, smooth)
  /\ 100 * cap >= 145 * Need[b.cur + 1]

DownNow(b, cap) == b.cur > 0 /\ 100 * cap < 80 * Need[b.cur]
CrashNow(b, cap) == b.cur > 0 /\ 100 * cap < 50 * Need[b.cur]

\* How long something has lasted: a turn more, up to `most`, or not at all.
Lasts(now, was, most) == IF now THEN Least(was + 1, most + 1) ELSE 0

\* A step down: the rung that is left did not hold, it is out of bounds for longer each time.
Fallen(b) ==
  LET w == IF b.held >= TIER_SETTLED THEN TIER_BACKOFF
           ELSE Least(2 * b.backoff[b.cur], TIER_BACKOFF_MAX)
  IN [b EXCEPT !.cur = b.cur - 1, !.held = 0,
               !.backoff[b.cur] = w, !.wait[b.cur] = w]

Climbed(b) == [b EXCEPT !.cur = b.cur + 1, !.held = 0]

\* A rung that holds makes the one above reachable at the normal wait.
Holding(b) ==
  IF b.held >= TIER_SETTLED /\ b.cur < Highest
  THEN [b EXCEPT !.backoff[b.cur + 1] = TIER_BACKOFF] ELSE b

Decided(m, cap, max, smooth) ==
  LET b == [m EXCEPT !.up = Lasts(UpNow(m, cap, max, smooth), m.up, UP),
                     !.down = Lasts(DownNow(m, cap), m.down, DOWN)]
      crash == CrashNow(b, cap) /\ b.down > CRASH
      dwell == b.held >= DWELL
  IN IF crash \/ (dwell /\ (b.down > DOWN \/ Rough(b, smooth))) THEN Fallen(b)
     ELSE IF b.up > UP /\ dwell THEN Climbed(b)
     ELSE Holding(b)

-----------------------------------------------------------------------------

\* What the ladder remembers after the turn; the pictures lost in it come last.
Remember(b, n) ==
  LET w == b.lost \o [i \in 1 .. n |-> 0] IN
    /\ turn' = ~turn
    /\ cur' = b.cur /\ held' = b.held /\ up' = b.up /\ down' = b.down
    /\ wait' = b.wait /\ backoff' = b.backoff
    /\ lost' = SubSeq(w, IF Len(w) > MaxLost THEN Len(w) - MaxLost + 1 ELSE 1, Len(w))
    /\ paid' = IF ~ample' THEN 0 ELSE Least(n + (IF b.cur = cur THEN paid ELSE 0), SMOOTH_IDR_N)

\* A turn with the ladder on.
Turn(cap, max, smooth, t, n) ==
  /\ ample' = (ample /\ \A r \in Rungs : 100 * cap >= 80 * Need[r] /\ max = Highest)
  /\ Remember(Decided(Restored(Lowered(Memory, max), Least(t, max)), cap, max, smooth), n)

\* A turn with the ladder off: the picture is as configured, no lost picture is forgotten.
TurnOff(max, n) ==
  /\ ample' = FALSE
  /\ Remember([Memory EXCEPT !.cur = max, !.lost = Older(lost)], n)

Unsettled ==
  /\ rest = 0 /\ UNCHANGED rest
  /\ \E cap \in Caps, n \in 0 .. 1 :
       \/ \E smooth \in BOOLEAN : Turn(cap, Highest, smooth, 0, n)
       \/ \E max \in Rungs : Turn(cap, max, TRUE, 0, n)
       \/ \E t \in Rungs : Turn(cap, Highest, TRUE, t, n)

Off == rest = 0 /\ UNCHANGED rest /\ \E max \in Rungs, n \in 0 .. 1 : TurnOff(max, n)

Settled == rest # 0 /\ UNCHANGED rest /\ Turn(rest, Highest, TRUE, 0, 0)

\* The board's width was switched: what was lost since is not held against the link.
Switched ==
  /\ rest = 0 /\ \E k \in 0 .. Len(lost) : lost' = SubSeq(lost, 1, k)
  /\ UNCHANGED <<rest, cur, held, up, down, wait, backoff, turn, ample, paid>>

Rest ==
  /\ rest = 0 /\ rest' \in Caps
  /\ UNCHANGED <<cur, held, up, down, wait, backoff, lost, turn, ample, paid>>

Next == Unsettled \/ Off \/ Switched \/ Settled \/ Rest

\* The worker's loop goes on.
Spec == Init /\ [][Next]_vars /\ WF_turn(turn' = ~turn)

-----------------------------------------------------------------------------
(* Properties.                                                             *)

\* One burst of lost pictures costs one rung: on a link with capacity for every rung a step down
\* has its own pictures lost behind it, lost since the step before (bench 12/10 in worker.rs: four
\* rungs for one burst, lost_here).
OneBurstOneRung == [][(ample /\ ample' /\ cur' < cur) => paid >= SMOOTH_IDR_N]_vars

Suits == 100 * rest >= 80 * Need[cur] /\ (cur < Highest => 100 * rest < 145 * Need[cur + 1])

\* Once the capacity stays, the picture comes to a rung it is enough for and above which it is not,
\* however it flapped before, and stays there: back-off, losses and dwell only delay it.
Settles == <>(rest # 0) => <>[](rest # 0 /\ Suits)
=============================================================================
