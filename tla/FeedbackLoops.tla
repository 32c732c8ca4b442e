---------------------------- MODULE FeedbackLoops ----------------------------
(***************************************************************************)
(* The two loops that nyx-tx's worker closes over the receiver's feedback: *)
(* the repair of a broken picture (VideoRepair) and the choice of the      *)
(* modulation rung (RateControl).  The one takes from the other no more    *)
(* than that pictures are lost, which is an input of both models, so a     *)
(* behaviour is of one of them; the variables of the other stay.           *)
(***************************************************************************)
EXTENDS Integers

CONSTANTS
  Conceal, Ltr, LTR_MAX_TRIES, STREAK,                           \* VideoRepair
  Top, Thresh, Weight, Start, Fresh, StableFor, MemFor, RetryMin, RetryMax, CLIMB_FAIL_S,
  CLIMB_OK_S, REP2_OUT_N, REP2_OUT_WIN, BlindFloor, BlindHold, Profiles, FirstProfiles,
  DeadLimit, MaxChanges                                          \* RateControl

VARIABLES
  part,
  mode, picture, fbNeed, fresh, ltrIn, progress, conf, tries, streak, low, whole, need, repair,
  marked, blank, missed, behind, unreported,
  air, was, changes, dead, second, rc

Repair == INSTANCE VideoRepair WITH air <- picture
Rung == INSTANCE RateControl

ASSUME FeedbackLoopsAssumption == Repair!VideoRepairAssumption /\ Rung!RateControlAssumption

repairVars == <<mode, picture, fbNeed, fresh, ltrIn, progress, conf, tries, streak, low, whole,
                need, repair, marked, blank, missed, behind, unreported>>
rungVars == <<air, was, changes, dead, second, rc>>
vars == <<part, repairVars, rungVars>>

\* What does not take part starts in one of its states only.
Init ==
  /\ part \in {"repair", "rung"} /\ Repair!Init
  /\ Rung!Init /\ (part # "rung" => air = CHOOSE p \in FirstProfiles : TRUE)

RepairNext == part = "repair" /\ Repair!Next /\ UNCHANGED <<part, rungVars>>
RungNext == part = "rung" /\ Rung!Next /\ UNCHANGED <<part, repairVars>>
Next == RepairNext \/ RungNext

\* Pictures are coded and taken, the intervals pass, and a feedback that is due is sent; the
\* worker's seconds pass.
Fairness ==
  /\ SF_repairVars(part = "repair" /\ Repair!Encodes({fbNeed}, {~fresh}))
  /\ WF_repairVars(part = "repair" /\ Repair!Take)
  /\ WF_repairVars(part = "repair" /\ \E askDue \in BOOLEAN : Repair!Tell(askDue, TRUE))
  /\ WF_repairVars(part = "repair" /\ Repair!GoesStale)
  /\ WF_second(part = "rung" /\ Rung!Passes)

Spec == Init /\ [][Next]_vars /\ Fairness

-----------------------------------------------------------------------------

\* Whatever was lost on either way, once it loses no more the picture comes right and stays so
\* (worker, demod_loop).  Where the other loop runs, the link stays as it is at the start.
Recovers == Repair!Recovers
\* Survival mode and the requests for keyframes end on a clean link (worker 2261-2277).
RepairEnds == Repair!RepairEnds
\* A rung that delivers nothing is left in a bounded time (worker 1468-1482).
LeavesDead == part = "rung" => Rung!LeavesDead
\* No regime, back-off or memory keeps the stream from the rung the channel carries (worker
\* 1298-1700).
Settles == <>[](part = "rung" => Rung!Settled)
\* The repeat step ends where the traffic gives it probes enough to tell (worker 1734-1786).
RepeatEnds == <>[](part = "rung" => Rung!RepeatEnded)
=============================================================================
