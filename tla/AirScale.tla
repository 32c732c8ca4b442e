------------------------------ MODULE AirScale ------------------------------
(***************************************************************************)
(* The ceiling of the video's bitrate (nyx-tx worker.rs, run): once a      *)
(* second what the far end reports as arrived is set against what the      *)
(* video needed, and the ceiling goes down or up a little.                 *)
(*                                                                         *)
(* A second's video is Blocks blocks.  Ratios and their mean are in        *)
(* 25ths: 23 is 0.92, 24 is 0.96.  The ceiling is counted in steps up of   *)
(* 5 %; a cut of 10 % is two of them.                                      *)
(***************************************************************************)
EXTENDS Integers

CONSTANTS
  Blocks,    \* blocks of video in a second
  Steps,     \* steps between the lowest ceiling and none
  GapMax     \* bound: seconds without a report that are told apart

AirScaleAssumption == Blocks \in Nat \ {0} /\ Steps \in Nat \ {0} /\ GapMax \in Nat \ {0}

VARIABLES
  clean,      \* from now on every block arrives, if need be by being sent again
  air_scale,  \* the ceiling, in steps above the lowest
  r_ema,      \* the mean ratio
  known,      \* the reports were fresh a second ago (rc_ok0 is known)
  sent,       \* blocks since the last fresh report: sent, sent again, or dropped by the queue
  retx,       \* blocks sent again since then
  prev,       \* blocks needed in the window before (rc_sent_prev)
  second,     \* the parity of the seconds gone by
  lossless,   \* history: no block that could be delivered was ever lost
  since       \* history: windows judged since reports were last missing, at most Settling

vars == <<clean, air_scale, r_ema, known, sent, retx, prev, second, lossless, since>>

Settling == 4   \* windows until a gap in the reports has left the mean

Least(a, b) == IF a < b THEN a ELSE b

Init ==
  /\ clean = FALSE /\ air_scale = Steps /\ r_ema = 25 /\ known = FALSE
  /\ sent = 0 /\ retx = 0 /\ prev = 0 /\ second = FALSE /\ lossless = TRUE /\ since = 0

\* The ratio of blocks delivered to blocks needed (clamped at 1.5): 0.7 of this window's and 0.3
\* of the one before.
Ratio(deliv, needed) == Least((250 * deliv) \div (7 * needed + 3 * prev), 37)

\* Is there enough to tell (sent_eff)?
Enough(needed) == 7 * needed + 3 * prev > 40

\* Blocks the video needed: those sent again are not new demand (orig_cur).
Needed(all, again) == all - again

\* Nothing arrived, or the board's width is being switched (faulty variant: a loss like any).
NoOutage(deliv, hold) == FALSE
\* Nothing arrived, or the board's width is being switched.
Outage(deliv, hold) == deliv = 0 \/ hold

Mean(r) == (r_ema + r + 1) \div 2

Scaled(ema) ==
  IF ema < 23 THEN IF air_scale > 2 THEN air_scale - 2 ELSE 0
  ELSE IF ema > 24 THEN Least(air_scale + 1, Steps)
  ELSE air_scale

\* A second with fresh reports: `again` blocks were sent again, `deliv` arrived.
Window(deliv, again, hold) ==
  LET needed == Needed(sent + Blocks + again, retx + again)
      judged == known /\ Enough(needed) /\ ~Outage(deliv, hold)
  IN
    /\ IF judged
       THEN /\ r_ema' = Mean(Ratio(deliv, needed))
            /\ air_scale' = Scaled(r_ema')
       ELSE UNCHANGED <<r_ema, air_scale>>
    /\ prev' = needed
    /\ known' = TRUE /\ sent' = 0 /\ retx' = 0
    /\ since' = IF judged THEN Least(since + 1, Settling) ELSE IF known THEN since ELSE 0
    /\ second' = ~second

\* A second without: the count of what is needed goes on.
NoReport(again) ==
  /\ known' = FALSE /\ since' = 0
  /\ IF Needed(sent, retx) < GapMax * Blocks
     THEN sent' = sent + Blocks + again /\ retx' = retx + again
     ELSE UNCHANGED <<sent, retx>>
  /\ second' = ~second
  /\ UNCHANGED <<air_scale, r_ema, prev>>

Unsettled ==
  /\ ~clean /\ UNCHANGED clean
  /\ \/ \E deliv \in 0 .. Blocks, again \in {0, Blocks \div 2}, hold \in BOOLEAN :
          /\ Window(deliv, again, hold)
          /\ lossless' = (lossless /\ deliv \in {0, Blocks})
     \/ \E again \in {0, Blocks \div 2} : NoReport(again) /\ UNCHANGED lossless

\* Every block arrives, a tenth or half of them only when sent again.
Settled ==
  /\ clean /\ UNCHANGED <<clean, lossless>>
  /\ \E again \in {Blocks \div 10, Blocks \div 2} : Window(Blocks, again, FALSE)

\* Back from an outage: at least the ceiling there was before it.
Restored ==
  /\ ~clean /\ air_scale' \in air_scale .. Steps /\ r_ema' = IF r_ema < 24 THEN 24 ELSE r_ema
  /\ UNCHANGED <<clean, known, sent, retx, prev, second, lossless, since>>

Cleans == ~clean /\ clean' = TRUE
          /\ UNCHANGED <<air_scale, r_ema, known, sent, retx, prev, second, lossless, since>>

Next == Unsettled \/ Restored \/ Settled \/ Cleans

\* The worker's loop goes on.
Spec == Init /\ [][Next]_vars /\ WF_second(second' = ~second)

-----------------------------------------------------------------------------
(* Properties.                                                             *)

\* A link that loses no block while it can be reached is never held back, outages included (bench
\* 5/10 in worker.rs: an outage is not a rate the air cannot carry), but in the first windows judged
\* after reports were missing, whose blocks all count as needed in one second.
OnlyLossCuts == [][lossless' /\ since >= Settling => air_scale' >= air_scale]_vars

\* Once every block arrives, the whole ceiling comes back, however many are sent again.
CeilingBack == <>clean => <>[](air_scale = Steps)
=============================================================================
