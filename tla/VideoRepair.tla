---------------------------- MODULE VideoRepair ----------------------------
(***************************************************************************)
(* How a broken picture is repaired: the loop between the video decoder of *)
(* nyx-rx (demod_loop, apps/video/nyx-rx/src/lib.rs; VideoDecoder,         *)
(* link/nyx-common/src/codec.rs) and the encoder of nyx-tx (the worker,    *)
(* apps/video/nyx-tx/src/worker.rs).  Every picture but a keyframe refers  *)
(* to the one before it, so that a lost one breaks all that follow.  The   *)
(* receiver asks for a keyframe (need_idr in its feedback) and beside it   *)
(* for a repair (an Ltr message): a picture coded against a long-term      *)
(* reference, which the encoder marks now and then and the receiver        *)
(* confirms.  With no feedback the transmitter sends keyframes blindly.    *)
(*                                                                         *)
(* A picture is [kind, mark, good]: "I" a keyframe, "P" one that refers to *)
(* the last, "R" a repair; whether it marks a reference; whether what it   *)
(* refers to is right at the receiver.  The elapsed times the code         *)
(* compares with its limits (backoff, blind interval, pacing of feedback   *)
(* and of requests) are inputs; Delivery is about what becomes of blocks,  *)
(* so a picture here comes whole or is lost, noticed or not.               *)
(***************************************************************************)
EXTENDS Naturals, Sequences, FiniteSets, SequencesExt

CONSTANTS
  Conceal,        \* the decoder conceals: it shows a picture whose reference is wrong
  Ltr,            \* cfg.ltr, and the encoder keeps long-term references
  LTR_MAX_TRIES,  \* repairs tried before a keyframe is sent (2)
  STREAK          \* unanswered keyframes that start survival mode (3)

VideoRepairAssumption ==
  Conceal \in BOOLEAN /\ Ltr \in BOOLEAN /\ LTR_MAX_TRIES \in Nat /\ STREAK \in Nat \ {0}

Pictures == [kind : {"I", "P", "R"}, mark : BOOLEAN, good : BOOLEAN]
None == [kind |-> "none"]
Reports == {"confirm right", "confirm wrong", "ask", "ask old"}

VARIABLES
  mode,        \* the link: "bad" loses what it likes, "clean" nothing, "oneway" all feedback
  air,         \* the picture on its way
  fbNeed,      \* shared.feedback.need_idr
  fresh,       \* fb_fresh: a feedback came in the last three seconds
  ltrIn,       \* shared.feedback.ltr
  progress,    \* segs_ok has grown by five since the last requested keyframe (idr_segs_at)
  conf,        \* the encoder's confirmed reference: "none", or whether it is right there
  tries,       \* ltr_tries
  streak,      \* idr_streak
  low,         \* survival < 1
  whole,       \* history: the decoder's picture is the encoder's
  need,        \* need_idr
  repair,      \* ltr_repair
  marked,      \* ltr_now: the decoder reports a long-term reference
  blank,       \* the decoder was recreated and has seen no keyframe
  missed,      \* pictures were lost since the last that came to the decoder
  behind,      \* the last keyframe did not come: the decoder is in an older IDR period
  unreported   \* segs_ok has grown since the last feedback that arrived

board == <<fbNeed, fresh, ltrIn, progress>>
worker == <<conf, tries, streak, low>>
decoder == <<whole, need, repair, marked, blank, missed, behind>>
vars == <<mode, air, board, worker, decoder, unreported>>

Init ==
  /\ mode = "bad" /\ air = None
  /\ fbNeed = FALSE /\ fresh = FALSE /\ ltrIn = <<>> /\ progress = FALSE
  /\ conf = "none" /\ tries = 0 /\ streak = 0 /\ low = FALSE
  /\ whole = FALSE /\ need = FALSE /\ repair = FALSE /\ marked = FALSE
  /\ blank = TRUE /\ missed = FALSE /\ behind = TRUE /\ unreported = FALSE

-----------------------------------------------------------------------------
(* The worker: one picture of the source.                                  *)

\* The Ltr messages in the order they came: a confirmation starts the tries over, even when
\* the encoder ignores it; a request is taken up unless too many were, and the encoder
\* ignores one of an older IDR period.
Confirms == {"confirm right", "confirm wrong"}
TakenUp(t) == t < LTR_MAX_TRIES
AfterReport(s, r) ==
  IF r \in Confirms
    THEN [s EXCEPT !.conf = IF r = "confirm right" THEN "right" ELSE "wrong", !.tries = 0]
  ELSE IF TakenUp(s.tries)
    THEN [s EXCEPT !.repair = TRUE, !.tries = @ + 1, !.heard = s.heard \/ r = "ask"]
  ELSE s
Reported ==
  FoldLeft(AfterReport, [conf |-> conf, tries |-> tries, repair |-> FALSE, heard |-> FALSE], ltrIn)

\* Three seconds after the last repair the tries start over.  A link in order brings a
\* request through, and has it served, in less.
QuietPossible(s) == s.tries > 0 /\ ~s.repair /\ (mode # "clean" \/ ~need)

\* The receiver is decoding: the streak, and survival mode, are over (faulty variant: of a
\* long streak they are not).
LeavesShort == streak \in 1 .. STREAK - 1 /\ ~fbNeed /\ progress
Leaves == streak > 0 /\ ~fbNeed /\ progress

\* Whether a requested keyframe is sent now, and what is left of the request: it waits for
\* the backoff, and a repair answers it (faulty variant: it is dropped during the backoff).
Force(repaired, over) == ~repaired /\ over /\ fbNeed
NeedTakenEarly(repaired, over) == FALSE
NeedAfter(repaired, over) == fbNeed /\ ~repaired /\ ~over

\* The kinds a picture may get: a keyframe was asked of the encoder, or is due, or the repair
\* finds no confirmed reference.
KindOf(forced, own, s) ==
  IF forced \/ own \/ (s.heard /\ s.conf = "none") THEN "I"
  ELSE IF s.heard THEN "R" ELSE "P"

\* One more keyframe was asked for: did anything arrive since the last?
NextStreak == IF progress THEN 1 ELSE LET n == IF Leaves THEN 0 ELSE streak IN
                                      IF n < STREAK THEN n + 1 ELSE n

\* The backoff and the blind interval, if they matter, are over or not.
Encode(s, over, blindOver, own, mark, quiet) ==
  /\ (over => fbNeed) /\ (blindOver => ~fresh)
  /\ (quiet => QuietPossible(s)) /\ (mark => Ltr)
  /\ LET force == Force(s.repair, over)
         blind == ~force /\ blindOver
         kind == KindOf(force \/ blind, own, s)
     IN /\ air' = [kind |-> kind, mark |-> mark, good |-> kind # "R" \/ s.conf = "right"]
        /\ conf' = IF kind = "I" THEN "none" ELSE s.conf
        /\ behind' = (behind \/ kind = "I")
        /\ tries' = IF quiet THEN 0 ELSE s.tries
        /\ fbNeed' = NeedAfter(s.repair, over)
        /\ streak' = IF force THEN NextStreak ELSE IF Leaves THEN 0 ELSE streak
        /\ low' = ((low /\ ~Leaves) \/ (force /\ NextStreak >= STREAK))
        /\ progress' = (progress /\ ~force)
  /\ ltrIn' = <<>>
  /\ UNCHANGED <<mode, fresh, whole, need, repair, marked, blank, missed, unreported>>

\* No feedback for three seconds.
GoesStale ==
  /\ fresh /\ mode # "clean" /\ fresh' = FALSE
  /\ UNCHANGED <<mode, air, fbNeed, ltrIn, progress, worker, decoder, unreported>>

-----------------------------------------------------------------------------
(* The receiver's decoder.                                                 *)

\* Whether what the picture refers to is there; whether it is shown.
Right(p) == p.kind = "I" \/ (p.kind = "P" /\ whole) \/ (p.kind = "R" /\ p.good /\ ~blank)
Shown(p) == Right(p) \/ (Conceal /\ ~blank)

\* LtrReport::gap: the number of the picture does not follow the last one's.
Gap(p) == missed /\ p.kind # "I"

\* An Ltr message reaches the transmitter, which keeps one of each kind, or does not.
SameKind(r, q) == (r \in Confirms) = (q \in Confirms)
Store(r) == Append(SelectSeq(ltrIn, LAMBDA q : ~SameKind(r, q)), r)
Report(r) ==
  \/ mode # "oneway" /\ ltrIn' = Store(r)
  \/ mode # "clean" /\ UNCHANGED ltrIn

\* A picture is shown.  A keyframe starts a period, and the reference held is forgotten, even
\* the one it marks, which is confirmed all the same.
TakeShown ==
  /\ air # None /\ Shown(air)
  /\ air' = None /\ unreported' = TRUE
  /\ need' = Gap(air) /\ repair' = (repair \/ Gap(air))
  /\ whole' = Right(air) /\ missed' = FALSE
  /\ blank' = FALSE /\ behind' = (behind /\ air.kind # "I")
  /\ marked' = (air.kind # "I" /\ (air.mark \/ (marked /\ ~blank)))
  /\ IF air.mark THEN Report(IF whole' THEN "confirm right" ELSE "confirm wrong")
                 ELSE UNCHANGED ltrIn
  /\ UNCHANGED <<mode, fbNeed, fresh, progress, worker>>

\* A picture is refused; after six seconds of that the decoder is recreated.
TakeRefused(recreate) ==
  /\ air # None /\ ~Shown(air)
  /\ air' = None /\ unreported' = TRUE
  /\ need' = TRUE /\ repair' = TRUE
  /\ missed' = FALSE /\ marked' = (marked /\ ~blank) /\ blank' = (blank \/ recreate)
  /\ UNCHANGED <<mode, board, worker, whole, behind>>

\* A picture is lost: the reorder stage skips it, or takes it for one that was never sent.
Lose(noticed) ==
  /\ air # None /\ mode = "bad"
  /\ air' = None /\ unreported' \in {unreported, TRUE}
  /\ need' = (need \/ noticed) /\ repair' = (repair \/ noticed)
  /\ whole' = FALSE /\ missed' = TRUE
  /\ UNCHANGED <<mode, board, worker, marked, blank, behind>>

\* maybe_feedback, when it is due: segs_ok, and the request, which the transmitter keeps
\* and the receiver goes on making.
Kept == fbNeed \/ need
Feedback(due) ==
  \/ ~due /\ UNCHANGED <<fbNeed, fresh, progress, need, unreported>>
  \/ /\ due /\ mode # "oneway" /\ UNCHANGED need
     /\ fbNeed' = Kept /\ fresh' = TRUE
     /\ progress' = (progress \/ unreported) /\ unreported' = FALSE
  \/ due /\ mode # "clean" /\ UNCHANGED <<fbNeed, fresh, progress, need, unreported>>

\* The end of a turn of demod_loop: if there was a capture, be it one that completed no picture,
\* a repair is asked for, when one is due and a reference is held.
Tell(askDue, due) ==
  /\ (askDue => repair /\ marked) /\ (askDue \/ due)
  /\ IF askDue
       THEN repair' = FALSE /\ Report(IF behind THEN "ask old" ELSE "ask")
       ELSE UNCHANGED <<repair, ltrIn>>
  /\ Feedback(due)
  /\ UNCHANGED <<mode, air, worker, whole, marked, blank, missed, behind>>

-----------------------------------------------------------------------------
\* The link settles.
Settles ==
  /\ mode = "bad" /\ mode' \in {"clean", "oneway"}
  /\ UNCHANGED <<air, board, worker, decoder, unreported>>

Encodes(overs, blindOvers) ==
  /\ air = None
  /\ LET s == Reported IN
     \E over \in overs, blindOver \in blindOvers, own, mark, quiet \in BOOLEAN :
       Encode(s, over, blindOver, own, mark, quiet)
Take == TakeShown \/ (\E recreate \in BOOLEAN : TakeRefused(recreate))
        \/ \E noticed \in BOOLEAN : Lose(noticed)

Next ==
  \/ Encodes(BOOLEAN, BOOLEAN) \/ GoesStale
  \/ Take \/ \E askDue, due \in BOOLEAN : Tell(askDue, due)
  \/ Settles

\* Pictures are coded and taken, the intervals pass, and a feedback that is due is sent.
\* Nothing makes the encoder's own keyframes, the repairs or the marks come.
Fairness ==
  /\ SF_vars(Encodes({fbNeed}, {~fresh}))
  /\ WF_vars(Take) /\ WF_vars(\E askDue \in BOOLEAN : Tell(askDue, TRUE))
  /\ WF_vars(GoesStale)
Spec == Init /\ [][Next]_vars /\ Fairness

-----------------------------------------------------------------------------
(* Properties.                                                             *)

\* Once the link is clean, or clean one way and dead the other, the picture becomes right and
\* stays so, whatever was lost before, and without the encoder's own keyframes.
Recovers == <>[](mode # "bad") => <>[]whole

\* Once the link is clean the transmitter leaves survival mode for good, and no request for a
\* keyframe goes on being made or served: keyframes, the pictures most easily lost, do not
\* feed on themselves (worker.rs 2261-2266).
RepairEnds == <>[](mode = "clean") => <>[](~low /\ ~fbNeed /\ ~need)

=============================================================================
