----------------------------- MODULE RateControl -----------------------------
(***************************************************************************)
(* The choice of the modulation rung in the worker of nyx-tx               *)
(* (apps/video/nyx-tx/src/worker.rs): a share of blocks arrived per rung   *)
(* (the current one, and a few probe blocks at others), measured once a    *)
(* second, from which the rung to send at follows; with an interference    *)
(* regime, back-offs of failed climbs, the memory of the rung before an    *)
(* outage, the repeat step under the lowest rung, changes of the channel's *)
(* width, and a walk down while no reports come.                           *)
(*                                                                         *)
(* A second of the loop is one action.  Shares are per cent, SNRs tenths   *)
(* of a decibel, times whole seconds.  The state the code keeps in locals  *)
(* is the record rc, and each part of the handler a function from it to    *)
(* what it becomes; `best` and `jump` live within one window only.         *)
(***************************************************************************)
EXTENDS Integers, Sequences, FiniteSets, SequencesExt, FiniteSetsExt, Functions

CONSTANTS
  Top,            \* the highest rung (5)
  Thresh,         \* snr_thresh
  Weight,         \* bytes per frame of air at a rung (block_shape), hundreds
  Start,          \* the rung at the start and on a cold start (3)
  Fresh,          \* a share is fresh this long (10)
  StableFor,      \* the rung before an outage is remembered this long (60)
  MemFor,         \* what another channel's rung was is remembered this long (120)
  RetryMin, RetryMax,            \* back-off after a failed climb (6, 30)
  CLIMB_FAIL_S, CLIMB_OK_S,      \* a climb lost within, a rung held for (10, 20)
  REP2_OUT_N, REP2_OUT_WIN,      \* probe blocks and windows that end the repeat step (40, 8)
  BlindFloor,     \* cfg.blind_floor
  BlindHold,      \* cfg.blind_hold
  Profiles,       \* what a channel and the traffic on it may be
  FirstProfiles,  \* bound: and what it may be at first
  DeadLimit,      \* windows after which a dead rung must have been left
  MaxChanges      \* bound: how often the channel changes

Rungs == 0..Top
Unknown == -1
NoDip == 999
NoMem == [rung |-> Unknown]
NoClimb == [rung |-> Unknown, age |-> 0]
REL_OK == 95
INTERF_LOSS_PROB == 90
INTERF_MARGIN_DB == 60
REP2_IN_PROB == 85
BW_HOLD == 3
BW_JUMP_MARGIN_DB == 30

RateControlAssumption ==
  /\ Top \in Nat /\ Start \in Rungs /\ BlindFloor \in 0..6 /\ BlindHold \in BOOLEAN
  /\ {Fresh, StableFor, MemFor, RetryMin, RetryMax, CLIMB_FAIL_S, CLIMB_OK_S} \subseteq Nat \ {0}
  /\ FirstProfiles \subseteq Profiles
  /\ \A p \in Profiles : /\ p.snr \in Int /\ p.blocks \in Nat \ {0}
                         /\ p.reports \in BOOLEAN /\ p.rep \in BOOLEAN
                         /\ p.stream \in [Rungs -> 0..100] /\ p.probe \in [Rungs -> 0..100]

VARIABLES
  air,       \* what the channel delivers: the stream's share and the probes' at each rung,
             \* whether the repeat step gets through, the SNR reported, whether reports come;
             \* and how many blocks the traffic gives a probed rung in a second
  was,       \* the channel the next window's counts may still show
  changes,   \* how often the channel changed
  dead,      \* history: windows in a row in which less than a fifth of this rung's blocks arrived
  second,    \* the parity of the seconds passed
  rc         \* the locals of the worker

vars == <<air, was, changes, dead, second, rc>>

Init ==
  /\ air \in FirstProfiles /\ was = air /\ changes = 0 /\ dead = 0 /\ second = 0
  /\ rc = [rung |-> Start, best |-> Start, jump |-> FALSE, since |-> 0,
           prob |-> [r \in Rungs |-> Unknown], acc |-> [r \in Rungs |-> Unknown],
           age |-> [r \in Rungs |-> 0], got |-> Unknown,
           owed |-> [r \in Rungs |-> 0], unseen |-> [r \in Rungs |-> Unknown],
           want |-> Unknown, confirm |-> 0,
           interf |-> FALSE, clean |-> 0, down |-> 0, surv |-> 0, relLow |-> 0,
           stable |-> [rung |-> Unknown, snr |-> 0, age |-> 0], dip |-> NoDip,
           restore |-> NoClimb, climb |-> NoClimb,
           retry |-> [r \in Rungs |-> 0], gap |-> [r \in Rungs |-> 0],
           rep2 |-> FALSE, rep2In |-> 0, settle |-> 0, outs |-> <<>>,
           probes |-> {}, rr |-> 0, hopped |-> FALSE,
           chan |-> 1, mem |-> [c \in 1..2 |-> NoMem],
           snr |-> 0, quiet |-> FALSE, silent |-> 3, heard |-> FALSE, blind |-> Unknown, hold |-> 0]

------------------------------------------------------------------------------
(* Measuring *)

FreshAt(s, r) == s.age[r] < Fresh
Clean(s, r) == FreshAt(s, r) /\ s.prob[r] >= REL_OK
BackingOff(s, r) == s.retry[r] > 0
Highest(S, otherwise) == IF S = {} THEN otherwise ELSE Max(S)

\* Expected bytes per frame of air, of pictures of four blocks that must all arrive.
Thr(r, p) == ((p * p) \div 100) * ((p * p) \div 100) * Weight[r]

\* The rungs blocks go out at: the stream's, or the repeat step's below them, and the probes'.
Sent(s) == s.probes \cup (IF s.rep2 THEN {} ELSE {s.rung})

Arriving(s, d, r) == IF r = s.rung /\ ~s.rep2 THEN d.stream[r] ELSE d.probe[r]

\* A second passes: what was delivered is reported, or owed to a later report.
Elapsed(s, d) ==
  LET n == [r \in Sent(s) |-> s.owed[r] + Arriving(s, d, r)] @@ [r \in Rungs |-> 0]
      older(e, n0) == IF e.rung = Unknown THEN e ELSE [e EXCEPT !.age = Min({@ + 1, n0})]
      timed == [s EXCEPT !.since = Min({@ + 1, 5}),
                         !.age = [r \in Rungs |-> Min({@[r] + 1, Fresh})],
                         !.retry = [r \in Rungs |-> Max({@[r] - 1, 0})],
                         !.stable = older(@, StableFor), !.restore = older(@, CLIMB_OK_S),
                         !.climb = older(@, CLIMB_OK_S),
                         !.mem = [c \in 1..2 |-> IF @[c] = NoMem \/ @[c].age + 1 >= MemFor THEN NoMem
                                                 ELSE [@[c] EXCEPT !.age = @ + 1]], !.hold = Max({@ - 1, 0})]
  IN IF d.reports
     THEN [timed EXCEPT !.snr = d.snr, !.silent = 0, !.heard = TRUE, !.owed = n,
                        !.quiet = (\A r \in Rungs : n[r] = 0) /\ ~(s.rep2 /\ d.rep)]
     ELSE [timed EXCEPT !.silent = Min({@ + 1, 3}), !.owed = [r \in Rungs |-> Min({n[r], 300})]]

\* A smoothed number and the window's.
Smoothed(old, x) ==
  IF old = Unknown THEN x
  ELSE IF x >= old THEN old + (2 * (x - old) + 4) \div 5 ELSE old - (2 * (old - x) + 4) \div 5

\* The window closes: smooth the counts, then divide (with a report that did not come nothing
\* counts as delivered, and what came late counts more than was sent).  The first window after a
\* blind time counts all that was sent in it, at each rung it was sent at.
Measured(s) ==
  LET told == s.silent = 0
      unseen == {r \in Rungs : s.unseen[r] # Unknown}
      x(r) == IF ~told THEN 0 ELSE IF r \in unseen THEN s.unseen[r] ELSE s.owed[r]
      counted == Sent(s) \cup unseen
      acc == [r \in counted |-> Smoothed(s.acc[r], x(r))] @@ s.acc
  IN [s EXCEPT !.acc = acc,
               !.prob = [r \in counted |-> Min({acc[r], 100})] @@ @,
               !.age = [r \in counted |-> 0] @@ @,
               !.owed = IF told THEN [r \in Rungs |-> 0] ELSE @,
               !.unseen = [r \in Rungs |-> Unknown],
               !.got = IF 0 \in Sent(s) THEN x(0) ELSE Unknown,
               !.blind = Unknown, !.best = s.rung, !.jump = FALSE]

------------------------------------------------------------------------------
(* The decision *)

Margin(s) == s.snr - Thresh[s.rung]

\* The interference regime: entered on one losing window with the SNR well above the rung, left
\* after three clean ones, or when the margin is gone or nothing arrives at all.
Regime(s) ==
  LET p == s.prob[s.rung]
      enters == ~s.interf /\ 0 <= p /\ p < INTERF_LOSS_PROB /\ Margin(s) >= INTERF_MARGIN_DB /\ ~s.quiet
      gone == s.interf /\ (Margin(s) < INTERF_MARGIN_DB - 30 \/ s.quiet)
      cleared == s.interf /\ ~gone /\ p >= 97 /\ s.clean + 1 >= 3
  IN [s EXCEPT !.interf = enters \/ (s.interf /\ ~gone /\ ~cleared),
               !.clean = IF ~s.interf THEN (IF enters THEN 0 ELSE @)
                         ELSE IF gone THEN @ ELSE IF p >= 97 THEN @ + 1 ELSE 0,
               !.surv = IF enters \/ gone \/ cleared THEN 0 ELSE @]

\* What a rung is taken to deliver: its own fresh number; for a lower rung without one, more
\* than the current rung's, except under interference; for a higher one, nothing is known.
Taken(s, r) ==
  IF FreshAt(s, r) /\ s.prob[r] >= 0 THEN s.prob[r]
  ELSE IF r > s.rung THEN Unknown
  ELSE IF s.prob[s.rung] < 0 THEN 100
  ELSE IF s.interf THEN s.prob[s.rung] ELSE Min({s.prob[s.rung] + 35, 100})

Eligible(s, r) ==
  r # s.rung /\ Taken(s, r) >= 0 /\ (r > s.rung => Thresh[r] <= s.snr /\ ~BackingOff(s, r))

\* The rung of the most expected bytes, at most one rung away, and not one that is backing off.
Best(s) ==
  LET own == IF FreshAt(s, s.rung) /\ s.prob[s.rung] >= 0 THEN Thr(s.rung, s.prob[s.rung]) ELSE 0
      factor(r) == IF r > s.rung THEN 11 ELSE IF s.interf THEN 12 ELSE 10
      better(b, r) == IF Eligible(s, r) /\ 10 * Thr(r, Taken(s, r)) > factor(r) * b.thr
                      THEN [rung |-> r, thr |-> Thr(r, Taken(s, r))] ELSE b
      b == FoldLeft(better, [rung |-> s.rung, thr |-> own], [i \in 1..Top + 1 |-> i - 1]).rung
      near == Max({s.rung - 1, Min({s.rung + 1, b})})
  IN IF near > s.rung /\ BackingOff(s, near) THEN s.rung ELSE near

\* Under interference, or with SNR to spare, three windows must agree on a step down.
Damped(s) ==
  LET b == Best(s)
      waits == (s.interf \/ Margin(s) >= INTERF_MARGIN_DB) /\ b < s.rung
  IN [s EXCEPT !.down = IF waits THEN Min({@ + 1, 3}) ELSE 0,
               !.best = IF waits /\ s.down + 1 < 3 THEN s.rung ELSE b]

\* A rung that is nearly dead is left at once; under interference only after three dead windows
\* or for a rung below that is measured to be better (faulty variant: the windows are not added up).
SurvivalOf(s, before) ==
  LET p == s.prob[s.rung]
      dying == 0 <= p /\ p < 20 /\ s.rung > 0
      n == IF s.interf THEN before + 1 ELSE 0
      below == FreshAt(s, s.rung - 1) /\ s.prob[s.rung - 1] > p + 20
      leaves == dying /\ (~s.interf \/ n >= 3 \/ below)
  IN [s EXCEPT !.surv = IF dying /\ ~leaves THEN n ELSE 0,
               !.best = IF leaves THEN s.rung - 1 ELSE @]
ForgetfulSurvival(s) == SurvivalOf(s, 0)
Survival(s) == SurvivalOf(s, s.surv)

\* A sudden fade: the rung is failing and the SNR says a lower one, so go there at once.
Faded(s) ==
  LET snrRung == Highest({r \in Rungs : Thresh[r] + 15 <= s.snr}, 0)
      under == Thresh[s.rung] - s.snr
      p == s.prob[s.rung]
      failing == \/ 0 <= p /\ (p < 50 \/ (under > 30 /\ p < 80))
                 \/ s.quiet /\ under > 30
      target == Max({snrRung, IF under > 60 THEN 0 ELSE Max({s.rung - 3, 0})})
  IN IF ~s.interf /\ failing /\ snrRung < s.rung /\ target < s.best
     THEN [s EXCEPT !.best = target] ELSE s

\* Reliability first: a rung that loses for two windows is left for the highest clean one below
\* it, and while a clean rung exists none is climbed into that was not measured clean (faulty
\* variant: the rung of the most bytes stands).
MostBytes(s) == s
Reliable(s) ==
  LET low == FreshAt(s, s.rung) /\ 0 <= s.prob[s.rung] /\ s.prob[s.rung] < REL_OK /\ s.since >= 2
      n == IF low THEN Min({s.relLow + 1, 2}) ELSE 0
      below == {r \in 0..s.rung - 1 : Clean(s, r)}
      r == Max(below)
  IN IF n >= 2 /\ below # {}
     THEN IF r < s.best \/ s.best >= s.rung
          THEN [s EXCEPT !.best = r, !.jump = TRUE, !.relLow = 0]
          ELSE [s EXCEPT !.relLow = n]
     ELSE [s EXCEPT !.relLow = n,
                    !.best = IF @ > s.rung /\ ~Clean(s, @) /\ (Clean(s, s.rung) \/ below # {})
                             THEN s.rung ELSE @]

\* A climb waits for a second window that agrees, and for the dwell; never from the repeat step.
Stepped(s0) ==
  LET s == IF s0.rep2 /\ s0.best > s0.rung THEN [s0 EXCEPT !.best = s0.rung] ELSE s0
      up == s.best > s.rung
      n == IF ~up THEN 0 ELSE IF s.want = s.best THEN Min({s.confirm + 1, 2}) ELSE 1
      dwell == IF up THEN 3 ELSE IF s.interf /\ ~s.jump THEN 5 ELSE 1
      moves == s.best # s.rung /\ (up => n >= 2) /\ s.since >= dwell
  IN [s EXCEPT !.want = IF up THEN s.best ELSE Unknown, !.confirm = n,
               !.rung = IF moves THEN s.best ELSE @,
               !.since = IF moves THEN 0 ELSE @, !.down = IF moves THEN 0 ELSE @]

------------------------------------------------------------------------------
(* Memories and probes *)

\* Back from an outage: the rung that held before is taken again in one step when the SNR that
\* fell far below what it needs is back.
Returns(s) ==
  LET r == s.stable.rung
  IN /\ s.rung < r /\ s.stable.age < StableFor /\ ~BackingOff(s, r)
     /\ s.dip < Thresh[r] - 60 /\ s.snr >= s.stable.snr - 30 /\ s.snr >= Thresh[r] + 30

\* The record of the rung that holds is kept fresh, but not while a deep dip is under way.
Remembered(s0) ==
  LET s == [s0 EXCEPT !.dip = Min({@, s0.snr})]
      r == s.stable.rung
      dipping == s.rung < r /\ s.dip < Thresh[r] - 60 /\ s.stable.age < StableFor
      holds == /\ ~dipping /\ FreshAt(s, s.rung) /\ s.prob[s.rung] >= 90 /\ s.snr >= Thresh[s.rung]
  IN IF Returns(s)
     THEN [s EXCEPT !.rung = r, !.since = 0, !.restore = [rung |-> r, age |-> 0],
                    !.want = Unknown, !.confirm = 0, !.dip = s.snr,
                    !.prob[r] = 100, !.acc[r] = Unknown]
     ELSE IF holds
     THEN [s EXCEPT !.stable = [rung |-> s.rung, snr |-> s.snr, age |-> 0], !.dip = s.snr]
     ELSE s

\* Rung r failed: it is tried again only after a back-off that doubles per failure, up to a limit.
Failed(s, r) ==
  LET gap == Max({RetryMin, Min({2 * s.gap[r], RetryMax})})
  IN [s EXCEPT !.gap[r] = gap, !.retry[r] = gap]

\* On another channel the failures of the last one are forgotten.
Forgotten(s) ==
  IF ~s.hopped THEN s
  ELSE [s EXCEPT !.retry = [r \in Rungs |-> 0], !.gap = [r \in Rungs |-> 0],
                 !.climb = NoClimb, !.restore = NoClimb, !.hopped = FALSE]

\* A return from an outage that is lost again is a failure.
ReturnLost(s) ==
  LET e == s.restore
  IN IF e.rung = Unknown THEN s
     ELSE IF s.rung < e.rung
     THEN IF e.age < CLIMB_FAIL_S THEN [Failed(s, e.rung) EXCEPT !.climb = NoClimb, !.restore = NoClimb]
                                  ELSE [s EXCEPT !.restore = NoClimb]
     ELSE IF e.age >= CLIMB_OK_S THEN [s EXCEPT !.restore = NoClimb] ELSE s

\* So is a climb lost again with the SNR well above the rung; one that holds clears the back-off.
ClimbLost(s, before) ==
  LET e == s.climb
      lost == e.rung = before /\ e.age < CLIMB_FAIL_S /\ s.snr >= Thresh[before] + INTERF_MARGIN_DB
  IN IF s.rung > before THEN [s EXCEPT !.climb = [rung |-> s.rung, age |-> 0]]
     ELSE IF s.rung < before
     THEN [(IF lost THEN Failed(s, before) ELSE s) EXCEPT !.climb = NoClimb]
     ELSE IF e.rung = s.rung /\ e.age >= CLIMB_OK_S
     THEN [s EXCEPT !.gap[s.rung] = 0, !.retry[s.rung] = 0, !.climb = NoClimb]
     ELSE s

\* The repeat step: on while the lowest rung loses, off when its probes of the last windows are
\* enough and clean; `load` is how many a window has.
Repeated(s, load) ==
  LET off == [s EXCEPT !.rep2 = FALSE, !.rep2In = 0, !.outs = <<>>]
      n == IF FreshAt(s, 0) /\ 0 <= s.prob[0] /\ s.prob[0] < REP2_IN_PROB THEN s.rep2In + 1 ELSE 0
      sent == IF s.got = Unknown THEN 0 ELSE load
      all == Append(s.outs, <<sent, IF s.got = Unknown THEN 0 ELSE (s.got * load) \div 100>>)
      outs == IF Len(all) > REP2_OUT_WIN THEN Tail(all) ELSE all
      blocks == FoldLeft(LAMBDA a, w : a + w[1], 0, outs)
      came == Min({FoldLeft(LAMBDA a, w : a + w[2], 0, outs), blocks})
  IN IF s.rung # 0 \/ s.interf THEN off
     ELSE IF ~s.rep2
     THEN IF n >= 2 THEN [s EXCEPT !.rep2 = TRUE, !.rep2In = 0, !.outs = <<>>, !.settle = 2]
                    ELSE [s EXCEPT !.rep2In = n]
     ELSE IF s.settle > 0 THEN [s EXCEPT !.settle = @ - 1]
     ELSE IF blocks >= REP2_OUT_N /\ 100 * came >= 95 * blocks
     THEN [s EXCEPT !.rep2 = FALSE, !.outs = <<>>]
     ELSE [s EXCEPT !.outs = outs]

\* (Faulty variant: as if the stream were at the lowest rung.)
NoProbeThere(s) == [s EXCEPT !.probes = {1}, !.best = s.rung, !.jump = FALSE, !.got = Unknown]

\* Probe blocks go to the rung above and, in turn, to the ones above that, while they are
\* uncertain; to one below while this one loses; on the repeat step, to the lowest.
Probing(s) ==
  LET uncertain(r) == r \in Rungs /\ (~FreshAt(s, r) \/ s.prob[r] < 95)
      near == IF uncertain(s.rung + 1) THEN <<s.rung + 1>> ELSE <<>>
      turns == [k \in 1..Top |-> s.rung + ((s.rr + k) % (Top + 1 - s.rung))]
      far == SelectSeq(turns, LAMBDA r : r > s.rung + 1 /\ uncertain(r))
      losing == s.interf \/ (FreshAt(s, s.rung) /\ s.prob[s.rung] < 95)
      below == IF s.rung > 0 /\ losing
               THEN <<Highest({r \in 0..s.rung - 1 : ~(FreshAt(s, r) /\ s.prob[r] < REL_OK)}, s.rung - 1)>>
               ELSE <<>>
      slots == near \o below \o (IF far = <<>> THEN far ELSE <<Head(far)>>)
  IN [s EXCEPT !.rr = IF far = <<>> THEN @ ELSE Head(far) - s.rung,
               !.probes = IF s.rep2 THEN {0} ELSE {slots[i] : i \in 1..Min({2, Len(slots)})},
               !.best = s.rung, !.jump = FALSE, !.got = Unknown]

\* What a window does.
Decided(s, load) ==
  LET stepped == Stepped(Reliable(Faded(Survival(Damped(Regime(Measured(s)))))))
  IN Probing(Repeated(ClimbLost(ReturnLost(Forgotten(Remembered(stepped))), s.rung), load))

------------------------------------------------------------------------------
(* No reports, and changes of the channel's width *)

\* While nothing is heard for three seconds: from a cold start the start rung, then a rung down
\* every four seconds to the floor, and on to the repeat step where the floor is 6 - but a rung
\* once reported on is kept with blind_hold.
Blinded(s0, d) ==
  LET hold == (BlindHold /\ s0.heard) \/ s0.hold > 0
      s == [s0 EXCEPT !.rep2 = @ /\ (BlindFloor = 6 \/ hold), !.probes = {},
                      !.owed = [r \in Rungs |-> 0],
                      !.unseen = IF s0.hold > 0 THEN [r \in Rungs |-> Unknown]
                                 ELSE [r \in Sent(s0) |-> Arriving(s0, d, r)] @@ @]
      due == ~hold /\ s.blind + 1 >= 4
      stop == IF BlindFloor = 6 THEN 0 ELSE BlindFloor
  IN IF s.blind = Unknown
     THEN [s EXCEPT !.blind = 0, !.rung = IF s.heard THEN @ ELSE Start, !.best = IF s.heard THEN @ ELSE Start]
     ELSE IF ~due THEN [s EXCEPT !.blind = Min({@ + 1, 4})]
     ELSE IF s.rung > stop THEN [s EXCEPT !.blind = 0, !.rung = @ - 1, !.best = s.rung - 1]
     ELSE IF BlindFloor = 6 /\ ~s.rep2 /\ s.heard
     THEN [s EXCEPT !.blind = 0, !.rep2 = TRUE, !.outs = <<>>, !.settle = 2]
     ELSE [s EXCEPT !.blind = 0]

\* Straight to rung r, with a clean slate there.
JumpTo(s, r) ==
  [s EXCEPT !.rung = r, !.best = r, !.since = 0, !.prob[r] = 100, !.acc[r] = Unknown, !.age[r] = 0]

\* The width changed: to the rung that the SNR carries (guessed from the old width's reports),
\* and what was learnt at the old width goes.
Widened(s, guess) ==
  LET none == [r \in Rungs |-> Unknown]
      target == Highest({r \in Rungs : Thresh[r] + BW_JUMP_MARGIN_DB <= guess}, 0)
      s1 == [s EXCEPT !.prob = none, !.acc = none, !.retry = [r \in Rungs |-> 0],
                      !.gap = [r \in Rungs |-> 0], !.climb = NoClimb, !.restore = NoClimb,
                      !.interf = FALSE, !.down = 0, !.clean = 0, !.surv = 0, !.relLow = 0,
                      !.dip = NoDip, !.stable = [rung |-> Unknown, snr |-> 0, age |-> 0],
                      !.hold = BW_HOLD, !.mem = [c \in 1..2 |-> NoMem],
                      !.owed = [r \in Rungs |-> 0], !.unseen = none]
  IN IF ~s.heard THEN s1
     ELSE [JumpTo(s1, target) EXCEPT !.want = Unknown, !.confirm = 0, !.rep2 = @ /\ target = 0,
                                     !.outs = IF target > 0 THEN <<>> ELSE @]

\* No window counts while the change's outage lasts; but a second on, a rung that the new width's
\* SNR does not carry is stepped down from.
Corrected(s0) ==
  LET s == [s0 EXCEPT !.owed = IF s0.silent = 0 THEN [r \in Rungs |-> 0] ELSE @,
                      !.unseen = [r \in Rungs |-> Unknown], !.blind = Unknown]
  IN IF s.silent = 0 /\ s.hold < BW_HOLD - 1 /\ s.rung > 0 /\ s.snr < Thresh[s.rung] + 15
     THEN JumpTo(s, Highest({r \in 0..s.rung - 1 : Thresh[r] + BW_JUMP_MARGIN_DB <= s.snr}, 0))
     ELSE s

\* The board hopped to the other channel: what was known there is taken up again.
Hopped(s) ==
  LET to == 3 - s.chan
      m == s.mem[to]
      s1 == [s EXCEPT !.chan = to, !.hopped = ~@,
                      !.mem[s.chan] = [rung |-> s.rung, prob |-> s.prob, age |-> 0]]
  IN IF m = NoMem THEN s1
     ELSE [s1 EXCEPT !.rung = m.rung, !.best = m.rung, !.since = IF m.rung = s.rung THEN @ ELSE 0,
                     !.prob = m.prob, !.age = [r \in Rungs |-> 0], !.want = Unknown, !.confirm = 0]

------------------------------------------------------------------------------

\* A second passes; what is counted in it is that of the channel, or still of the one before.
Passes == second' = 1 - second
Counted == Passes /\ was' = air /\ UNCHANGED <<air, changes>>

Window == \E d \in {air, was} : LET s == Elapsed(rc, d) IN
  /\ s.silent < 3 /\ rc.hold = 0 /\ rc' = Decided(s, d.blocks) /\ Counted
  /\ dead' = IF d.stream[rc.rung] < 20 /\ rc.rung > 0 /\ rc'.rung = rc.rung
             THEN Min({dead + 1, DeadLimit + 1}) ELSE 0

HeldSecond == \E d \in {air, was} : LET s == Elapsed(rc, d) IN
  s.silent < 3 /\ rc.hold > 0 /\ rc' = Corrected(s) /\ Counted /\ dead' = 0

BlindSecond == \E d \in {air, was} : LET s == Elapsed(rc, d) IN
  s.silent = 3 /\ rc' = Blinded(s, d) /\ Counted /\ dead' = 0

\* The air changes.
Change(p) ==
  /\ changes < MaxChanges /\ p # air
  /\ air' = p /\ was' = air /\ changes' = changes + 1 /\ UNCHANGED <<dead, second, rc>>

\* The board changes its channel's width.
WidthChange(p, guess) ==
  /\ changes < MaxChanges
  /\ air' = p /\ was' = p /\ changes' = changes + 1
  /\ rc' = Widened(rc, guess) /\ dead' = 0 /\ UNCHANGED second

Hop(p) ==
  /\ changes < MaxChanges
  /\ air' = p /\ was' = p /\ changes' = changes + 1 /\ rc' = Hopped(rc) /\ dead' = 0 /\ UNCHANGED second

Next ==
  \/ Window \/ HeldSecond \/ BlindSecond
  \/ \E p \in Profiles : Change(p) \/ Hop(p) \/ \E guess \in {air.snr, p.snr} : WidthChange(p, guess)

Spec == Init /\ [][Next]_vars /\ WF_second(Passes)

------------------------------------------------------------------------------
(* Properties *)

\* A channel whose probes tell what the stream would meet, and where some rung is not nearly dead.
Honest(p) == p.reports /\ p.probe = p.stream /\ \E r \in Rungs : p.stream[r] >= 20

\* What a channel carries: the highest rung up to which all get through at an SNR that is
\* enough; where not even the lowest does, the rung of the most expected bytes.
Through(p, r) == p.stream[r] >= REL_OK /\ Thresh[r] <= p.snr
Carries(p) ==
  IF Through(p, 0) THEN Max({r \in Rungs : \A q \in 0..r : Through(p, q)})
  ELSE Min({r \in Rungs : \A q \in Rungs : Thr(q, p.stream[q]) <= Thr(r, p.stream[r])})

\* The traffic gives the repeat step the probe blocks that end it (REP2_OUT_N in REP2_OUT_WIN
\* windows; 40 in 8, one block in twelve, so five a window).
Enough(p) == p.blocks * REP2_OUT_WIN >= REP2_OUT_N

\* Once the channel stays as it is, the stream settles at the rung the channel carries, whatever
\* the regime, the back-offs and the memories hold from before: none of them is a latch.  (With
\* loss that hits all rungs alike it does not sink.)  The repeat step is one where the traffic
\* gives too few probes to end it.  With no reports the stream sinks to the floor.
Settled ==
  /\ Honest(air) /\ (Enough(air) \/ ~rc.rep2) => rc.rung = Carries(air)
  /\ ~air.reports => rc.rung <= BlindFloor
Settles == <>[]Settled

\* A rung above the lowest that gets less than a fifth through is left within DeadLimit windows,
\* in the interference regime too, where the rungs below are taken to do no better.
LeavesDead == dead <= DeadLimit

\* Where the traffic gives probes enough, the repeat step is left when the lowest rung's blocks get
\* through again, whatever its windows hold from before.
LowestIsBack == air.reports /\ Through(air, 0) /\ air.probe[0] >= REL_OK
RepeatEnded == LowestIsBack /\ Enough(air) => ~rc.rep2
RepeatEnds == <>[]RepeatEnded

==============================================================================
